------------------------------- MODULE TextProofs -------------------------------
(***************************************************************************)
(* Lemmas about texts and their edits: what slices, splices and find and   *)
(* replace make of any text, stated position by position.                  *)
(***************************************************************************)
EXTENDS TextEdits, FiniteSetTheorems, WellFoundedInduction, SequenceTheorems, TLAPS

----------------------------------------------------------------------------
(* Numbers *)

\* Every set of natural numbers that is not empty has a least one.
LEMMA LeastExists ==
  ASSUME NEW S \in SUBSET Nat, S # {}
  PROVE  \E m \in S : \A n \in S : m <= n
  <1> DEFINE Less == {p \in Nat \X Nat : p[1] < p[2]}
  <1>1. IsWellFoundedOn(Less, Nat)
    BY NatLessThanWellFounded DEF OpToRel
  <1>2. \A n, k \in Nat : n < k => <<n, k>> \in Less
    OBVIOUS
  <1> HIDE DEF Less
  <1>3. PICK m \in S : \A n \in S : <<n, m>> \notin Less
    BY <1>1, WFMin
  <1>4. \A n \in S : n \in Nat /\ m \in Nat /\ ~(n < m)
    BY <1>2, <1>3
  <1>5. \A n \in S : m <= n
    BY <1>4
  <1> QED
    BY <1>5

LEMMA MinIsLeast ==
  ASSUME NEW S \in SUBSET Nat, S # {}
  PROVE  Min(S) \in S /\ \A n \in S : Min(S) <= n
  BY LeastExists DEF Min

LEMMA MaxIsGreatest ==
  ASSUME NEW S \in SUBSET Nat, S # {}, NEW b \in Nat, \A n \in S : n <= b
  PROVE  Max(S) \in S /\ \A n \in S : n <= Max(S)
  <1> DEFINE Gaps == {b - n : n \in S}
  <1>1. \A n \in S : n \in Nat /\ b - n \in Nat
    OBVIOUS
  <1>2. Gaps \in SUBSET Nat /\ Gaps # {}
    BY <1>1
  <1>3. PICK g \in Gaps : \A h \in Gaps : g <= h
    <2> HIDE DEF Gaps
    <2> QED
      BY <1>2, LeastExists
  <1>4. PICK m \in S : g = b - m
    OBVIOUS
  <1>5. ASSUME NEW n \in S PROVE m >= n
    <2>1. b - m <= b - n
      BY <1>3, <1>4
    <2> QED
      BY <1>1, <2>1
  <1> QED
    BY <1>5 DEF Max

LEMMA MinOfTwo ==
  ASSUME NEW a \in Int, NEW b \in Int
  PROVE  Min({a, b}) \in {a, b} /\ Min({a, b}) <= a /\ Min({a, b}) <= b
  <1>1. \E x \in {a, b} : \A y \in {a, b} : x <= y
    OBVIOUS
  <1> QED
    BY <1>1 DEF Min

\* Induction over an interval: what has 0, and i if it has i - 1, has all.
LEMMA IntervalInduction ==
  ASSUME NEW n \in Nat, NEW T, 0 \in T, \A i \in 1 .. n : i - 1 \in T => i \in T
  PROVE  0 .. n \subseteq T
  <1> DEFINE Rest == {i \in 0 .. n : i \notin T}
  <1> SUFFICES ASSUME Rest # {} PROVE FALSE
    OBVIOUS
  <1>1. Rest \in SUBSET Nat
    OBVIOUS
  <1>2. PICK m \in Rest : \A k \in Rest : m <= k
    <2> HIDE DEF Rest
    <2> QED
      BY <1>1, LeastExists
  <1>3. m \in 1 .. n /\ m \notin T
    OBVIOUS
  <1>4. m - 1 \in 0 .. n /\ ~(m <= m - 1)
    BY <1>3
  <1>5. m - 1 \in T
    BY <1>2, <1>4
  <1> QED
    BY <1>3, <1>5

Steps(S, n) == [S \X (1 .. n) -> S]
Follows(h, n, base, step) == h[0] = base /\ \A i \in 1 .. n : h[i] = step[<<h[i - 1], i>>]
Results(S, n, base, step) == {h \in [0 .. n -> S] : Follows(h, n, base, step)}

\* A recursion over an interval is defined: there is a function that follows it.
LEMMA RecursionIsDefined ==
  ASSUME NEW n \in Nat, NEW S, NEW base \in S, NEW step \in Steps(S, n)
  PROVE  Results(S, n, base, step) # {}
  <1> USE DEF Steps, Follows, Results
  <1> DEFINE Obeys(h, m) == Follows(h, m, base, step)
             T == {m \in 0 .. n : \E h \in [0 .. m -> S] : Obeys(h, m)}
  <1>1. 0 \in T
    <2> DEFINE g == [i \in 0 .. 0 |-> base]
    <2>1. g \in [0 .. 0 -> S] /\ Obeys(g, 0)
      OBVIOUS
    <2> HIDE DEF g
    <2>2. 0 \in 0 .. n
      OBVIOUS
    <2> QED
      BY <2>1, <2>2
  <1>2. ASSUME NEW m \in 1 .. n, m - 1 \in T PROVE m \in T
    <2>1. PICK h \in [0 .. (m - 1) -> S] : Obeys(h, m - 1)
      BY <1>2
    <2> DEFINE last == step[<<h[m - 1], m>>]
               g == [i \in 0 .. m |-> IF i = m THEN last ELSE h[i]]
    <2>2. last \in S
      OBVIOUS
    <2>3. g \in [0 .. m -> S]
      BY <2>2
    <2>4. g[0] = base
      BY <2>1
    <2>5. ASSUME NEW i \in 1 .. m PROVE g[i] = step[<<g[i - 1], i>>]
      <3>1. g[i - 1] = h[i - 1]
        OBVIOUS
      <3>2. CASE i = m
        <4>1. g[i] = last
          BY <3>2
        <4> QED
          BY <3>1, <3>2, <4>1
      <3>3. CASE i # m
        <4>1. i \in 1 .. (m - 1)
          BY <3>3
        <4> QED
          BY <2>1, <3>1, <3>3, <4>1
      <3> QED
        BY <3>2, <3>3
    <2> HIDE DEF g
    <2> QED
      BY <2>3, <2>4, <2>5
  <1>3. 0 .. n \subseteq T
    <2> HIDE DEF T
    <2> QED
      BY <1>1, <1>2, IntervalInduction
  <1> QED
    BY <1>3

\* sum has the sums of g up to n.
Sums(sum, n, g) ==
  sum[0] = 0 /\ \A i \in 1 .. n : sum[i] = sum[i - 1] + g[i]

LEMMA SumIsReached ==
  ASSUME NEW n \in Nat, NEW g, \A i \in 1 .. n : g[i] \in Int
  PROVE  \E sum : Sums(sum, n, g) /\ SumUpTo(n, g) = sum[n]
  <1> DEFINE Eq(sum) == sum = [i \in 0 .. n |-> IF i = 0 THEN 0 ELSE sum[i - 1] + g[i]]
             step == [p \in Int \X (1 .. n) |-> p[1] + g[p[2]]]
  <1>1. \E sum : Eq(sum)
    <2>1. step \in Steps(Int, n)
      BY DEF Steps
    <2>2. Results(Int, n, 0, step) # {}
      <3> HIDE DEF step
      <3> QED
        BY <2>1, RecursionIsDefined
    <2> PICK h \in [0 .. n -> Int] : Follows(h, n, 0, step)
      BY <2>2 DEF Results
    <2>3. ASSUME NEW i \in 1 .. n PROVE h[i] = h[i - 1] + g[i]
      <3>1. i - 1 \in 0 .. n
        OBVIOUS
      <3> QED
        BY <3>1 DEF Follows
    <2>4. h = [i \in 0 .. n |-> IF i = 0 THEN 0 ELSE h[i - 1] + g[i]]
      BY <2>3 DEF Follows
    <2> QED
      BY <2>4
  <1> DEFINE sum == CHOOSE sum : Eq(sum)
  <1>2. SumUpTo(n, g) = sum[n]
    BY DEF SumUpTo
  <1>3. Eq(sum)
    BY <1>1
  <1> HIDE DEF sum
  <1>4. Sums(sum, n, g)
    BY <1>3 DEF Sums
  <1> QED
    BY <1>2, <1>4

LEMMA SumsAgree ==
  ASSUME NEW n \in Nat, NEW g, \A i \in 1 .. n : g[i] \in Int,
         NEW r, NEW s, Sums(r, n, g), Sums(s, n, g)
  PROVE  \A i \in 0 .. n : r[i] = s[i] /\ r[i] \in Int
  <1> DEFINE T == {i \in 0 .. n : r[i] = s[i] /\ r[i] \in Int}
  <1>1. 0 \in T
    BY DEF Sums
  <1>2. ASSUME NEW i \in 1 .. n, i - 1 \in T PROVE i \in T
    <2>1. r[i] = r[i - 1] + g[i] /\ s[i] = s[i - 1] + g[i]
      BY DEF Sums
    <2> QED
      BY <1>2, <2>1
  <1>3. 0 .. n \subseteq T
    <2> HIDE DEF T
    <2> QED
      BY <1>1, <1>2, IntervalInduction
  <1> QED
    BY <1>3

LEMMA SumIsInt ==
  ASSUME NEW n \in Nat, NEW g, \A i \in 1 .. n : g[i] \in Int
  PROVE  SumUpTo(n, g) \in Int
  <1>1. PICK sum : Sums(sum, n, g) /\ SumUpTo(n, g) = sum[n]
    BY SumIsReached
  <1>2. \A i \in 0 .. n : sum[i] = sum[i] /\ sum[i] \in Int
    BY <1>1, SumsAgree
  <1> QED
    BY <1>1, <1>2

LEMMA SumGoesOn ==
  ASSUME NEW n \in Nat, NEW g, \A i \in 1 .. (n + 1) : g[i] \in Int
  PROVE  SumUpTo(n + 1, g) = SumUpTo(n, g) + g[n + 1]
  <1>1. n + 1 \in Nat /\ \A i \in 1 .. n : i \in 1 .. (n + 1) /\ g[i] \in Int
    OBVIOUS
  <1>2. PICK r : Sums(r, n, g) /\ SumUpTo(n, g) = r[n]
    BY <1>1, SumIsReached
  <1>3. PICK s : Sums(s, n + 1, g) /\ SumUpTo(n + 1, g) = s[n + 1]
    <2> DEFINE m == n + 1
    <2>1. m \in Nat /\ \A i \in 1 .. m : g[i] \in Int
      OBVIOUS
    <2> HIDE DEF m
    <2>2. \E s : Sums(s, m, g) /\ SumUpTo(m, g) = s[m]
      BY <2>1, SumIsReached
    <2> QED
      BY <2>2 DEF m
  <1>4. Sums(s, n, g)
    BY <1>1, <1>3 DEF Sums
  <1>5. \A i \in 0 .. n : r[i] = s[i] /\ r[i] \in Int
    BY <1>1, <1>2, <1>4, SumsAgree
  <1>6. s[n + 1] = s[n] + g[n + 1]
    <2>1. n + 1 \in 1 .. (n + 1) /\ (n + 1) - 1 = n
      OBVIOUS
    <2>2. s[n + 1] = s[(n + 1) - 1] + g[n + 1]
      BY <1>3, <2>1 DEF Sums
    <2> QED
      BY <2>1, <2>2
  <1> QED
    BY <1>2, <1>3, <1>5, <1>6

LEMMA SumOfNone ==
  ASSUME NEW g
  PROVE  SumUpTo(0, g) = 0
  <1>1. 0 \in Nat /\ \A i \in 1 .. 0 : g[i] \in Int
    OBVIOUS
  <1>2. PICK s : Sums(s, 0, g) /\ SumUpTo(0, g) = s[0]
    BY <1>1, SumIsReached
  <1> QED
    BY <1>2 DEF Sums

----------------------------------------------------------------------------
(* Texts *)

LEMMA SeqIsText ==
  ASSUME NEW C, NEW t \in Seq(C)
  PROVE  IsText(t)
  <1>1. t \in [1 .. Len(t) -> ToSet(t)] /\ Len(t) \in Nat
    BY DEF ToSet
  <1> QED
    BY <1>1 DEF IsText

LEMMA TextHasLength ==
  ASSUME NEW t, IsText(t)
  PROVE  Len(t) \in Nat /\ DOMAIN t = 1 .. Len(t) /\ t = [i \in 1 .. Len(t) |-> t[i]]
  BY DEF IsText

LEMMA FunctionIsText ==
  ASSUME NEW n \in Nat, NEW t, t = [i \in 1 .. n |-> t[i]]
  PROVE  IsText(t) /\ Len(t) = n
  <1> DEFINE C == {t[i] : i \in 1 .. n}
  <1>1. t \in [1 .. n -> C]
    OBVIOUS
  <1>2. t \in Seq(C) /\ Len(t) = n
    BY <1>1
  <1> QED
    BY <1>2, SeqIsText

\* t followed by u.
Cat(t, u) == t \o u

LEMMA ConcatIsText ==
  ASSUME NEW t, IsText(t), NEW u, IsText(u)
  PROVE  IsText(Cat(t, u)) /\ Len(Cat(t, u)) = Len(t) + Len(u)
  <1> DEFINE C == ToSet(t) \cup ToSet(u)
  <1>1. t \in Seq(C) /\ u \in Seq(C)
    <2>1. \A i \in 1 .. Len(t) : t[i] \in C
      BY TextHasLength DEF ToSet
    <2>2. \A i \in 1 .. Len(u) : u[i] \in C
      BY TextHasLength DEF ToSet
    <2> HIDE DEF C
    <2> QED
      BY <2>1, <2>2, TextHasLength
  <1> HIDE DEF C
  <1>2. Cat(t, u) \in Seq(C) /\ Len(Cat(t, u)) = Len(t) + Len(u)
    BY <1>1 DEF Cat
  <1> QED
    BY <1>2, SeqIsText

LEMMA SliceIsText ==
  ASSUME NEW t, IsText(t), NEW from \in Int, NEW to \in Int
  PROVE  IsText(Slice(t, from, to))
  <1> DEFINE n == Min({to, Len(t)})
             C == {t[i] : i \in (from + 1) .. n}
  <1>1. n \in Int
    <2>1. Len(t) \in Int
      BY TextHasLength
    <2> QED
      BY <2>1, MinOfTwo
  <1>2. SubSeq(t, from + 1, n) \in Seq(C)
    <2> HIDE DEF n
    <2>1. \A i \in (from + 1) .. n : t[i] \in C
      OBVIOUS
    <2>2. from + 1 \in Int
      OBVIOUS
    <2> HIDE DEF C
    <2> QED
      BY <1>1, <2>1, <2>2, SubSeqProperties
  <1> QED
    BY <1>2, SeqIsText DEF Slice

\* Two texts are the same when they have the same characters.
LEMMA TextsAreEqual ==
  ASSUME NEW t, IsText(t), NEW u, IsText(u), Len(t) = Len(u),
         \A k \in 1 .. Len(t) : t[k] = u[k]
  PROVE  t = u
  BY TextHasLength

LEMMA EmptyIsText == IsText(<<>>) /\ Len(<<>>) = 0
  <1>1. <<>> \in Seq({})
    OBVIOUS
  <1> QED
    BY <1>1, SeqIsText

LEMMA OneIsText ==
  ASSUME NEW c
  PROVE  IsText(<<c>>) /\ Len(<<c>>) = 1 /\ <<c>>[1] = c
  <1>1. <<c>> \in Seq({c}) /\ Len(<<c>>) = 1 /\ <<c>>[1] = c
    OBVIOUS
  <1> QED
    BY <1>1, SeqIsText

LEMMA EmptyHasNoLength ==
  ASSUME NEW t, IsText(t)
  PROVE  t = <<>> <=> Len(t) = 0
  <1>1. ASSUME Len(t) = 0 PROVE t = <<>>
    <2>1. \A k \in 1 .. Len(t) : t[k] = <<>>[k]
      BY <1>1
    <2> QED
      BY <1>1, <2>1, EmptyIsText, TextsAreEqual
  <1> QED
    BY <1>1

LEMMA ConcatParts ==
  ASSUME NEW t, IsText(t), NEW u, IsText(u)
  PROVE  /\ \A k \in 1 .. Len(t) : Cat(t, u)[k] = t[k]
         /\ \A k \in (Len(t) + 1) .. (Len(t) + Len(u)) : Cat(t, u)[k] = u[k - Len(t)]
  <1> DEFINE C == ToSet(t) \cup ToSet(u)
  <1>1. t \in Seq(C) /\ u \in Seq(C)
    <2>1. \A i \in 1 .. Len(t) : t[i] \in C
      BY TextHasLength DEF ToSet
    <2>2. \A i \in 1 .. Len(u) : u[i] \in C
      BY TextHasLength DEF ToSet
    <2> HIDE DEF C
    <2> QED
      BY <2>1, <2>2, TextHasLength
  <1> HIDE DEF C
  <1> QED
    BY <1>1 DEF Cat

LEMMA EmptyAddsNothing ==
  ASSUME NEW t, IsText(t)
  PROVE  Cat(t, <<>>) = t /\ Cat(<<>>, t) = t
  <1>1. t \in Seq(ToSet(t))
    BY DEF IsText
  <1> QED
    BY <1>1, ConcatEmptySeq DEF Cat

LEMMA ConcatAssociates ==
  ASSUME NEW t, IsText(t), NEW u, IsText(u), NEW v, IsText(v)
  PROVE  Cat(Cat(t, u), v) = Cat(t, Cat(u, v))
  <1>1. /\ IsText(Cat(Cat(t, u), v)) /\ IsText(Cat(t, Cat(u, v)))
        /\ Len(Cat(Cat(t, u), v)) = Len(t) + Len(u) + Len(v)
        /\ Len(Cat(t, Cat(u, v))) = Len(t) + Len(u) + Len(v)
    <2>1. IsText(Cat(t, u)) /\ Len(Cat(t, u)) = Len(t) + Len(u)
      BY ConcatIsText
    <2>2. IsText(Cat(u, v)) /\ Len(Cat(u, v)) = Len(u) + Len(v)
      BY ConcatIsText
    <2>3. IsText(Cat(Cat(t, u), v)) /\ Len(Cat(Cat(t, u), v)) = Len(Cat(t, u)) + Len(v)
      BY <2>1, ConcatIsText
    <2>4. IsText(Cat(t, Cat(u, v))) /\ Len(Cat(t, Cat(u, v))) = Len(t) + Len(Cat(u, v))
      BY <2>2, ConcatIsText
    <2>5. Len(t) \in Nat /\ Len(u) \in Nat /\ Len(v) \in Nat
      BY TextHasLength
    <2> QED
      BY <2>1, <2>2, <2>3, <2>4, <2>5
  <1>2. ASSUME NEW k \in 1 .. (Len(t) + Len(u) + Len(v))
        PROVE  (Cat(Cat(t, u), v))[k] = (Cat(t, Cat(u, v)))[k]
    <2>1. Len(t) \in Nat /\ Len(u) \in Nat /\ Len(v) \in Nat
      BY TextHasLength
    <2>2. /\ IsText(Cat(t, u)) /\ Len(Cat(t, u)) = Len(t) + Len(u)
          /\ IsText(Cat(u, v)) /\ Len(Cat(u, v)) = Len(u) + Len(v)
      BY ConcatIsText
    <2> DEFINE tu == Cat(t, u)
               uv == Cat(u, v)
    <2> HIDE DEF tu, uv
    <2>a. /\ \A x \in 1 .. Len(t) : tu[x] = t[x]
          /\ \A x \in (Len(t) + 1) .. (Len(t) + Len(u)) : tu[x] = u[x - Len(t)]
      BY ConcatParts DEF tu
    <2>b. /\ \A x \in 1 .. Len(u) : uv[x] = u[x]
          /\ \A x \in (Len(u) + 1) .. (Len(u) + Len(v)) : uv[x] = v[x - Len(u)]
      BY ConcatParts DEF uv
    <2>c. /\ \A x \in 1 .. Len(tu) : Cat(tu, v)[x] = tu[x]
          /\ \A x \in (Len(tu) + 1) .. (Len(tu) + Len(v)) : Cat(tu, v)[x] = v[x - Len(tu)]
      BY <2>2, ConcatParts DEF tu
    <2>d. /\ \A x \in 1 .. Len(t) : Cat(t, uv)[x] = t[x]
          /\ \A x \in (Len(t) + 1) .. (Len(t) + Len(uv)) : Cat(t, uv)[x] = uv[x - Len(t)]
      BY <2>2, ConcatParts DEF uv
    <2>e. Len(tu) = Len(t) + Len(u) /\ Len(uv) = Len(u) + Len(v)
      BY <2>2 DEF tu, uv
    <2>3. Cat(tu, v)[k] = Cat(t, uv)[k]
      <3>1. CASE k <= Len(t)
        BY <2>1, <2>a, <2>c, <2>d, <2>e, <3>1
      <3>2. CASE k > Len(t) /\ k <= Len(t) + Len(u)
        <4>1. Cat(tu, v)[k] = tu[k]
          BY <2>1, <2>c, <2>e, <3>2
        <4>2. tu[k] = u[k - Len(t)]
          BY <2>1, <2>a, <3>2
        <4>3. Cat(t, uv)[k] = uv[k - Len(t)]
          BY <2>1, <2>d, <2>e, <3>2
        <4>4. uv[k - Len(t)] = u[k - Len(t)]
          BY <2>1, <2>b, <3>2
        <4> QED
          BY <4>1, <4>2, <4>3, <4>4
      <3>3. CASE k > Len(t) + Len(u)
        <4>1. Cat(tu, v)[k] = v[k - Len(tu)]
          BY <2>1, <2>c, <2>e, <3>3
        <4>2. Cat(t, uv)[k] = uv[k - Len(t)]
          BY <2>1, <2>d, <2>e, <3>3
        <4>3. uv[k - Len(t)] = v[(k - Len(t)) - Len(u)]
          <5>1. k - Len(t) \in (Len(u) + 1) .. (Len(u) + Len(v))
            BY <2>1, <3>3
          <5> QED
            BY <2>b, <5>1
        <4>4. (k - Len(t)) - Len(u) = k - Len(tu)
          <5>1. k \in Int /\ Len(tu) = Len(t) + Len(u)
            BY <2>1, <2>e
          <5> QED
            BY <2>1, <5>1
        <4> QED
          BY <4>1, <4>2, <4>3, <4>4
      <3> QED
        BY <2>1, <3>1, <3>2, <3>3
    <2> QED
      BY <2>3 DEF tu, uv
  <1> QED
    BY <1>1, <1>2, TextsAreEqual

LEMMA SliceParts ==
  ASSUME NEW t, IsText(t), NEW p \in Nat, NEW q \in Nat, p <= q, q <= Len(t)
  PROVE  /\ IsText(Slice(t, p, q)) /\ Len(Slice(t, p, q)) = q - p
         /\ \A k \in 1 .. (q - p) : Slice(t, p, q)[k] = t[p + k]
  <1>1. Len(t) \in Nat
    BY TextHasLength
  <1>2. Min({q, Len(t)}) = q
    <2>1. /\ Min({q, Len(t)}) \in {q, Len(t)}
          /\ Min({q, Len(t)}) <= q /\ Min({q, Len(t)}) <= Len(t)
      BY <1>1, MinOfTwo
    <2> HIDE DEF Min
    <2> QED
      BY <1>1, <2>1
  <1>3. t \in Seq(ToSet(t))
    BY DEF IsText
  <1>4. Slice(t, p, q) = SubSeq(t, p + 1, q)
    BY <1>2 DEF Slice
  <1>5. \A i \in (p + 1) .. q : t[i] \in ToSet(t)
    BY <1>1, TextHasLength DEF ToSet
  <1>6. /\ Len(SubSeq(t, p + 1, q)) = q - p
        /\ \A k \in 1 .. (q - p) : SubSeq(t, p + 1, q)[k] = t[p + k]
    <2>1. p + 1 \in Int /\ q \in Int
      OBVIOUS
    <2>2. Len(SubSeq(t, p + 1, q)) = IF p + 1 <= q THEN q - (p + 1) + 1 ELSE 0
      BY <1>5, <2>1, SubSeqProperties
    <2>3. \A k \in 1 .. (q - (p + 1) + 1) : SubSeq(t, p + 1, q)[k] = t[p + 1 + k - 1]
      BY <1>5, <2>1, SubSeqProperties
    <2> QED
      BY <2>2, <2>3
  <1>7. IsText(Slice(t, p, q))
    <2>1. p \in Int /\ q \in Int
      OBVIOUS
    <2> QED
      BY <2>1, SliceIsText
  <1> QED
    BY <1>4, <1>6, <1>7

\* The characters of a slice, and of two texts together.
LEMMA SliceIsPart ==
  ASSUME NEW t, IsText(t), NEW p \in Nat, NEW q \in Nat, p <= q, q <= Len(t)
  PROVE  ToSet(Slice(t, p, q)) \subseteq ToSet(t)
  <1> DEFINE u == Slice(t, p, q)
  <1>1. IsText(u) /\ Len(u) = q - p /\ \A k \in 1 .. (q - p) : u[k] = t[p + k]
    BY SliceParts
  <1> HIDE DEF u
  <1>2. Len(t) \in Nat /\ DOMAIN t = 1 .. Len(t) /\ DOMAIN u = 1 .. (q - p)
    BY <1>1, TextHasLength
  <1>3. \A k \in 1 .. (q - p) : p + k \in 1 .. Len(t)
    BY <1>2
  <1>4. ToSet(u) \subseteq ToSet(t)
    BY <1>1, <1>2, <1>3 DEF ToSet
  <1> QED
    BY <1>4 DEF u

LEMMA ConcatCharacters ==
  ASSUME NEW t, IsText(t), NEW u, IsText(u)
  PROVE  ToSet(Cat(t, u)) = ToSet(t) \cup ToSet(u)
  <1> DEFINE v == Cat(t, u)
  <1>1. /\ IsText(v) /\ Len(v) = Len(t) + Len(u)
        /\ \A k \in 1 .. Len(t) : v[k] = t[k]
        /\ \A k \in 1 .. Len(u) : v[Len(t) + k] = u[k]
    <2>1. IsText(v) /\ Len(v) = Len(t) + Len(u)
      BY ConcatIsText
    <2>2. /\ \A k \in 1 .. Len(t) : v[k] = t[k]
          /\ \A k \in (Len(t) + 1) .. (Len(t) + Len(u)) : v[k] = u[k - Len(t)]
      BY ConcatParts
    <2>3. Len(t) \in Nat /\ Len(u) \in Nat
      BY TextHasLength
    <2> HIDE DEF v
    <2>4. \A k \in 1 .. Len(u) :
            Len(t) + k \in (Len(t) + 1) .. (Len(t) + Len(u)) /\ (Len(t) + k) - Len(t) = k
      BY <2>3
    <2>5. \A k \in 1 .. Len(u) : v[Len(t) + k] = u[k]
      BY <2>2, <2>4
    <2> QED
      BY <2>1, <2>2, <2>5
  <1> HIDE DEF v
  <1>2. /\ Len(t) \in Nat /\ Len(u) \in Nat
        /\ DOMAIN t = 1 .. Len(t) /\ DOMAIN u = 1 .. Len(u) /\ DOMAIN v = 1 .. Len(v)
    BY <1>1, TextHasLength
  <1>3. \A k \in 1 .. Len(t) : k \in 1 .. Len(v)
    BY <1>1, <1>2
  <1>4. \A k \in 1 .. Len(u) : Len(t) + k \in 1 .. Len(v)
    BY <1>1, <1>2
  <1>5. \A k \in 1 .. Len(v) : k \in 1 .. Len(t) \/ \E j \in 1 .. Len(u) : k = Len(t) + j
    <2> TAKE k \in 1 .. Len(v)
    <2>1. CASE k <= Len(t)
      BY <1>2, <2>1
    <2>2. CASE ~(k <= Len(t))
      <3>1. k - Len(t) \in 1 .. Len(u) /\ k = Len(t) + (k - Len(t))
        BY <1>1, <1>2, <2>2
      <3> QED
        BY <3>1
    <2> QED
      BY <2>1, <2>2
  <1>6. ToSet(v) = ToSet(t) \cup ToSet(u)
    <2>1. ASSUME NEW k \in 1 .. Len(v) PROVE v[k] \in ToSet(t) \cup ToSet(u)
      BY <1>1, <1>2, <1>5 DEF ToSet
    <2>2. ASSUME NEW k \in 1 .. Len(t) PROVE t[k] \in ToSet(v)
      <3>1. k \in DOMAIN v /\ v[k] = t[k]
        BY <1>1, <1>2, <1>3
      <3> QED
        BY <3>1 DEF ToSet
    <2>3. ASSUME NEW k \in 1 .. Len(u) PROVE u[k] \in ToSet(v)
      <3>1. Len(t) + k \in DOMAIN v /\ v[Len(t) + k] = u[k]
        BY <1>1, <1>2, <1>4
      <3> QED
        BY <3>1 DEF ToSet
    <2>4. /\ ToSet(v) = {v[k] : k \in 1 .. Len(v)}
          /\ ToSet(t) = {t[k] : k \in 1 .. Len(t)} /\ ToSet(u) = {u[k] : k \in 1 .. Len(u)}
      BY <1>2 DEF ToSet
    <2> QED
      BY <2>1, <2>2, <2>3, <2>4
  <1> QED
    BY <1>6 DEF v
\* What has been joined after each of the texts in s.
Joins(s, h) ==
  /\ h = [i \in 0 .. Len(s) |-> h[i]] /\ \A i \in 0 .. Len(s) : IsText(h[i])
  /\ h[0] = <<>> /\ \A i \in 1 .. Len(s) : h[i] = Cat(h[i - 1], s[i])

LEMMA FlattenIsBuilt ==
  ASSUME NEW s, IsText(s), \A i \in DOMAIN s : IsText(s[i])
  PROVE  \E h : Joins(s, h) /\ FlattenSeq(s) = h[Len(s)]
  <1> DEFINE n == Len(s)
             C == UNION {ToSet(s[i]) : i \in 1 .. n}
             Eq(f) == f = [i \in 1 .. n |-> IF i = 1 THEN s[i] ELSE f[i - 1] \o s[i]]
             step == [p \in Seq(C) \X (1 .. n) |-> p[1] \o s[p[2]]]
  <1>1. n \in Nat /\ DOMAIN s = 1 .. n
    BY TextHasLength
  <1>2. \A i \in 1 .. n : s[i] \in Seq(C)
    <2> SUFFICES ASSUME NEW i \in 1 .. n PROVE s[i] \in Seq(C)
      OBVIOUS
    <2>1. Len(s[i]) \in Nat /\ s[i] = [k \in 1 .. Len(s[i]) |-> s[i][k]]
      BY <1>1, TextHasLength
    <2>2. \A k \in 1 .. Len(s[i]) : s[i][k] \in C
      BY <1>1, TextHasLength DEF ToSet
    <2> HIDE DEF C
    <2> QED
      BY <2>1, <2>2
  <1> HIDE DEF n, C
  <1>3. PICK h \in [0 .. n -> Seq(C)] : Follows(h, n, <<>>, step)
    <2>1. step \in Steps(Seq(C), n)
      BY <1>2 DEF Steps
    <2>2. Results(Seq(C), n, <<>>, step) # {}
      <3> HIDE DEF step
      <3>1. <<>> \in Seq(C)
        OBVIOUS
      <3> QED
        BY <1>1, <2>1, <3>1, RecursionIsDefined
    <2> QED
      BY <2>2 DEF Results
  <1>4. h[0] = <<>>
    BY <1>3 DEF Follows
  <1>5. ASSUME NEW i \in 1 .. n PROVE h[i] = h[i - 1] \o s[i]
    <2>1. h[i - 1] \in Seq(C)
      BY <1>1
    <2> QED
      BY <1>3, <2>1 DEF Follows
  <1> HIDE DEF step
  <1>6. h = [i \in 0 .. n |-> h[i]] /\ \A i \in 0 .. n : IsText(h[i])
    BY SeqIsText
  <1>7. Joins(s, h)
    <2>1. \A i \in 1 .. n : h[i] = Cat(h[i - 1], s[i])
      BY <1>5 DEF Cat
    <2> QED
      BY <1>4, <1>6, <2>1 DEF Joins, n
  <1>8. CASE n = 0
    <2>1. s = <<>>
      BY <1>8, EmptyHasNoLength DEF n
    <2> QED
      BY <1>4, <1>7, <1>8, <2>1 DEF FlattenSeq, n
  <1>9. CASE n # 0
    <2> DEFINE f == [i \in 1 .. n |-> h[i]]
    <2>1. h[1] = s[1]
      <3>1. 1 \in 1 .. n /\ 1 - 1 = 0
        BY <1>1, <1>9
      <3>2. h[1] = Cat(<<>>, s[1])
        BY <1>4, <1>5, <3>1 DEF Cat
      <3> QED
        BY <1>1, <3>1, <3>2, EmptyAddsNothing
    <2>2. ASSUME NEW i \in 1 .. n PROVE f[i] = IF i = 1 THEN s[i] ELSE f[i - 1] \o s[i]
      <3>1. CASE i = 1
        BY <2>1, <3>1
      <3>2. CASE i # 1
        <4>1. i - 1 \in 1 .. n
          BY <1>1, <3>2
        <4> QED
          BY <1>5, <3>2, <4>1
      <3> QED
        BY <3>1, <3>2
    <2>3. f = [i \in 1 .. n |-> f[i]] /\ f[n] = h[n]
      BY <1>1, <1>9
    <2> HIDE DEF f
    <2>4. Eq(f)
      BY <2>2, <2>3
    <2> DEFINE flat == CHOOSE g : Eq(g)
    <2>5. FlattenSeq(s) = flat[n]
      BY <1>9 DEF FlattenSeq, n
    <2>6. Eq(flat)
      BY <2>4
    <2> HIDE DEF flat
    <2> DEFINE T == {i \in 0 .. n : i = 0 \/ flat[i] = f[i]}
    <2>7. 0 \in T
      BY <1>1
    <2>8. ASSUME NEW i \in 1 .. n, i - 1 \in T PROVE i \in T
      <3>1. flat[i] = IF i = 1 THEN s[i] ELSE flat[i - 1] \o s[i]
        BY <2>6
      <3>2. i = 1 \/ flat[i - 1] = f[i - 1]
        BY <2>8
      <3>3. flat[i] = f[i]
        BY <2>2, <3>1, <3>2
      <3> QED
        BY <3>3
    <2>9. 0 .. n \subseteq T
      <3> HIDE DEF T
      <3> QED
        BY <1>1, <2>7, <2>8, IntervalInduction
    <2>10. n \in 0 .. n /\ n # 0
      BY <1>1, <1>9
    <2>11. FlattenSeq(s) = h[n]
      BY <2>3, <2>5, <2>9, <2>10
    <2> QED
      BY <1>7, <2>11 DEF n
  <1> QED
    BY <1>8, <1>9

LEMMA FlattenIsText ==
  ASSUME NEW s, IsText(s), \A i \in DOMAIN s : IsText(s[i])
  PROVE  IsText(FlattenSeq(s))
  <1>1. PICK h : Joins(s, h) /\ FlattenSeq(s) = h[Len(s)]
    BY FlattenIsBuilt
  <1>2. Len(s) \in 0 .. Len(s)
    BY TextHasLength
  <1> QED
    BY <1>1, <1>2 DEF Joins

LEMMA SpliceIsText ==
  ASSUME NEW t, IsText(t), NEW changes, \A e \in changes : IsText(e.with)
  PROVE  IsText(Splice(t, changes))
  <1> DEFINE here(i) == {e \in changes : e.start < i /\ i <= e.end}
             piece(i) == IF here(i) = {} THEN <<t[i]>>
                         ELSE LET e == CHOOSE e \in here(i) : TRUE
                              IN  IF e.start = i - 1 THEN e.with ELSE <<>>
             s == [i \in 1 .. Len(t) |-> piece(i)]
  <1>1. ASSUME NEW i PROVE IsText(piece(i))
    <2>1. CASE here(i) = {}
      <3>1. <<t[i]>> \in Seq({t[i]})
        OBVIOUS
      <3> QED
        BY <2>1, <3>1, SeqIsText
    <2>2. CASE here(i) # {}
      <3> DEFINE e == CHOOSE e \in here(i) : TRUE
      <3>1. e \in here(i)
        BY <2>2
      <3>2. IsText(e.with)
        BY <3>1
      <3>3. IsText(<<>>)
        BY EmptySeq, SeqIsText
      <3> QED
        BY <2>2, <3>2, <3>3
    <2> QED
      BY <2>1, <2>2
  <1> HIDE DEF piece
  <1>2. IsText(s) /\ DOMAIN s = 1 .. Len(t)
    <2>1. Len(t) \in Nat
      BY TextHasLength
    <2>2. s = [i \in 1 .. Len(t) |-> s[i]]
      OBVIOUS
    <2> HIDE DEF s
    <2> QED
      BY <2>1, <2>2, FunctionIsText
  <1>3. \A i \in DOMAIN s : IsText(s[i])
    BY <1>1, <1>2
  <1>4. Splice(t, changes) = FlattenSeq(s)
    BY DEF Splice, piece
  <1> HIDE DEF s
  <1> QED
    BY <1>2, <1>3, <1>4, FlattenIsText

----------------------------------------------------------------------------
(* Finite sets *)

LEMMA ImageIsFinite ==
  ASSUME NEW D, IsFiniteSet(D), NEW f
  PROVE  LET T == {f[x] : x \in D} IN IsFiniteSet(T) /\ Cardinality(T) <= Cardinality(D)
  <1> DEFINE T == {f[x] : x \in D}
             g == [x \in D |-> f[x]]
  <1>1. g \in Surjection(D, T)
    BY DEF Surjection
  <1> HIDE DEF g, T
  <1>2. IsFiniteSet(T) /\ Cardinality(T) <= Cardinality(D)
    BY <1>1, FS_Surjection
  <1> QED
    BY <1>2 DEF T

\* R is a strict total order of S.
Orders(R, S) ==
  /\ \A x \in S : <<x, x>> \notin R
  /\ \A x, y, z \in S : <<x, y>> \in R /\ <<y, z>> \in R => <<x, z>> \in R
  /\ \A x, y \in S : x = y \/ <<x, y>> \in R \/ <<y, x>> \in R

Below(S, R, x) == {y \in S : <<y, x>> \in R}

\* The k-th element of q has k - 1 elements of S before it.
Ranks(q, S, R) ==
  \A k \in 1 .. Cardinality(S) : q[k] \in S /\ Cardinality(Below(S, R, q[k])) = k - 1

\* In a finite set with a strict total order some element has k - 1 before it.
LEMMA EveryRankOccurs ==
  ASSUME NEW S, IsFiniteSet(S), NEW R, Orders(R, S)
  PROVE  \A k \in 1 .. Cardinality(S) :
           \E x \in S : Cardinality(Below(S, R, x)) = k - 1
  <1> DEFINE n == Cardinality(S)
             rank == [x \in S |-> Cardinality(Below(S, R, x))]
  <1>1. n \in Nat
    BY FS_CardinalityType
  <1>2. ASSUME NEW x \in S PROVE IsFiniteSet(Below(S, R, x)) /\ Cardinality(Below(S, R, x)) \in 0 .. (n - 1)
    <2>1. Below(S, R, x) \in SUBSET S /\ Below(S, R, x) # S
      BY DEF Below, Orders
    <2>2. IsFiniteSet(Below(S, R, x)) /\ Cardinality(Below(S, R, x)) <= n /\ Cardinality(Below(S, R, x)) # n
      BY <2>1, FS_Subset
    <2>3. Cardinality(Below(S, R, x)) \in Nat
      BY <2>2, FS_CardinalityType
    <2> QED
      BY <1>1, <2>2, <2>3
  <1>3. ASSUME NEW x \in S, NEW y \in S, <<x, y>> \in R PROVE rank[x] # rank[y]
    <2>1. Below(S, R, x) \in SUBSET Below(S, R, y) /\ Below(S, R, x) # Below(S, R, y)
      BY <1>3 DEF Below, Orders
    <2>2. IsFiniteSet(Below(S, R, y))
      BY <1>2
    <2>3. Cardinality(Below(S, R, x)) # Cardinality(Below(S, R, y))
      BY <2>1, <2>2, FS_Subset
    <2> QED
      BY <2>3
  <1>4. rank \in Injection(S, 0 .. (n - 1))
    <2>1. rank \in [S -> 0 .. (n - 1)]
      BY <1>2
    <2>2. \A x, y \in S : rank[x] = rank[y] => x = y
      BY <1>3 DEF Orders
    <2> HIDE DEF rank
    <2> QED
      BY <2>1, <2>2 DEF Injection, IsInjective
  <1>5. IsFiniteSet(0 .. (n - 1)) /\ Cardinality(0 .. (n - 1)) = n
    <2> HIDE DEF n
    <2>1. 0 \in Int /\ n - 1 \in Int /\ (IF 0 > n - 1 THEN 0 ELSE n - 1 - 0 + 1) = n
      BY <1>1
    <2> QED
      BY <2>1, FS_Interval
  <1>6. rank \in Surjection(S, 0 .. (n - 1))
    <2> HIDE DEF rank
    <2> QED
      BY <1>4, <1>5, FS_Injection
  <1>7. ASSUME NEW k \in 1 .. n PROVE \E x \in S : rank[x] = k - 1
    <2>1. k - 1 \in 0 .. (n - 1)
      BY <1>1
    <2> HIDE DEF rank
    <2> QED
      BY <1>6, <2>1 DEF Surjection
  <1> QED
    BY <1>7

----------------------------------------------------------------------------
(* Orders and scans *)

\* In a sequence whose k-th element has k - 1 elements of the set before it, the
\* elements are in order and none is missing.
LEMMA RanksAreAscending ==
  ASSUME NEW S, IsFiniteSet(S), NEW R, Orders(R, S), NEW q, Ranks(q, S, R)
  PROVE  /\ \A j, k \in 1 .. Cardinality(S) : j < k => <<q[j], q[k]>> \in R
         /\ \A x \in S : \E k \in 1 .. Cardinality(S) : q[k] = x
  <1> DEFINE n == Cardinality(S)
  <1>1. n \in Nat
    BY FS_CardinalityType
  <1>2. ASSUME NEW x \in S PROVE IsFiniteSet(Below(S, R, x)) /\ Cardinality(Below(S, R, x)) \in 0 .. (n - 1)
    <2>1. Below(S, R, x) \in SUBSET S /\ Below(S, R, x) # S
      BY DEF Below, Orders
    <2>2. /\ IsFiniteSet(Below(S, R, x))
          /\ Cardinality(Below(S, R, x)) <= n /\ Cardinality(Below(S, R, x)) # n
      BY <2>1, FS_Subset
    <2>3. Cardinality(Below(S, R, x)) \in Nat
      BY <2>2, FS_CardinalityType
    <2> QED
      BY <1>1, <2>2, <2>3
  <1>3. ASSUME NEW x \in S, NEW y \in S, <<x, y>> \in R
        PROVE  Cardinality(Below(S, R, x)) < Cardinality(Below(S, R, y))
    <2>1. Below(S, R, x) \in SUBSET Below(S, R, y) /\ Below(S, R, x) # Below(S, R, y)
      BY <1>3 DEF Below, Orders
    <2>2. IsFiniteSet(Below(S, R, y))
      BY <1>2
    <2>3. /\ Cardinality(Below(S, R, x)) <= Cardinality(Below(S, R, y))
          /\ Cardinality(Below(S, R, x)) # Cardinality(Below(S, R, y))
      BY <2>1, <2>2, FS_Subset
    <2>4. Cardinality(Below(S, R, x)) \in Int /\ Cardinality(Below(S, R, y)) \in Int
      BY <1>2
    <2> QED
      BY <2>3, <2>4
  <1>4. ASSUME NEW j \in 1 .. n, NEW k \in 1 .. n, j < k PROVE <<q[j], q[k]>> \in R
    <2> DEFINE x == q[j]
               y == q[k]
    <2>1. /\ x \in S /\ y \in S
          /\ Cardinality(Below(S, R, x)) = j - 1 /\ Cardinality(Below(S, R, y)) = k - 1
      BY DEF Ranks
    <2>2. ~(k - 1 < j - 1) /\ k - 1 # j - 1
      BY <1>4
    <2> HIDE DEF x, y, n
    <2>3. x # y
      BY <2>1, <2>2
    <2>4. <<y, x>> \notin R
      BY <1>3, <2>1, <2>2
    <2>5. <<x, y>> \in R
      BY <2>1, <2>3, <2>4 DEF Orders
    <2> QED
      BY <2>5 DEF x, y
  <1>5. ASSUME NEW x \in S PROVE \E k \in 1 .. n : q[k] = x
    <2> DEFINE k == Cardinality(Below(S, R, x)) + 1
               y == q[k]
    <2>1. k \in 1 .. n /\ k - 1 = Cardinality(Below(S, R, x))
      BY <1>1, <1>2
    <2> HIDE DEF k
    <2>2. y \in S /\ Cardinality(Below(S, R, y)) = k - 1
      BY <2>1 DEF Ranks, n
    <2>3. \A v \in S : Cardinality(Below(S, R, v)) \in Int
      BY <1>2
    <2> HIDE DEF y, n
    <2>4. Cardinality(Below(S, R, y)) = Cardinality(Below(S, R, x))
      BY <2>1, <2>2
    <2>5. <<x, y>> \notin R /\ <<y, x>> \notin R
      BY <1>3, <2>2, <2>3, <2>4
    <2>6. y = x
      BY <2>2, <2>5 DEF Orders
    <2> QED
      BY <2>1, <2>6 DEF y
  <1> QED
    BY <1>4, <1>5

LEMMA AscendingOrder ==
  ASSUME NEW S \in SUBSET Int, IsFiniteSet(S)
  PROVE  LET q == Ascending(S)
             n == Cardinality(S)
         IN  /\ IsText(q) /\ Len(q) = n /\ n \in Nat
             /\ \A k \in 1 .. n : q[k] \in S /\ Cardinality({y \in S : y < q[k]}) = k - 1
             /\ \A j, k \in 1 .. n : j < k => q[j] < q[k]
             /\ \A x \in S : \E k \in 1 .. n : q[k] = x
  <1> DEFINE q == Ascending(S)
             n == Cardinality(S)
             R == {p \in S \X S : p[1] < p[2]}
             nth(k) == CHOOSE x \in S : Cardinality({y \in S : y < x}) = k - 1
  <1>1. n \in Nat
    BY FS_CardinalityType
  <1>2. q = [k \in 1 .. n |-> nth(k)]
    BY DEF Ascending, InOrder
  <1>3. Orders(R, S)
    BY DEF Orders
  <1>4. \A x \in S : Below(S, R, x) = {y \in S : y < x}
    BY DEF Below
  <1>5. \A x, y \in S : <<x, y>> \in R <=> x < y
    OBVIOUS
  <1> HIDE DEF R
  <1>6. ASSUME NEW k \in 1 .. n PROVE nth(k) \in S /\ Cardinality({y \in S : y < nth(k)}) = k - 1
    <2>1. PICK x \in S : Cardinality(Below(S, R, x)) = k - 1
      BY <1>3, EveryRankOccurs
    <2>2. Cardinality({y \in S : y < x}) = k - 1
      BY <1>4, <2>1
    <2> QED
      BY <2>2
  <1> HIDE DEF q, nth
  <1>7. q = [k \in 1 .. n |-> q[k]]
    BY <1>2
  <1>8. ASSUME NEW k \in 1 .. n
        PROVE  q[k] \in S /\ Cardinality({y \in S : y < q[k]}) = k - 1
    <2>1. q[k] = nth(k)
      BY <1>2
    <2> QED
      BY <1>6, <2>1
  <1>9. IsText(q) /\ Len(q) = n
    BY <1>1, <1>7, FunctionIsText
  <1>10. Ranks(q, S, R)
    BY <1>4, <1>8 DEF Ranks
  <1>11. /\ \A j, k \in 1 .. n : j < k => <<q[j], q[k]>> \in R
         /\ \A x \in S : \E k \in 1 .. n : q[k] = x
    BY <1>3, <1>10, RanksAreAscending
  <1>12. \A j, k \in 1 .. n : j < k => q[j] < q[k]
    BY <1>5, <1>8, <1>11
  <1> QED
    BY <1>1, <1>8, <1>9, <1>11, <1>12 DEF q

\* The intervals that a scan from the left takes.
Scanned(ends, M) ==
  \A p \in DOMAIN ends : p \in M <=> \A q \in M : q < p => ends[q] <= p

\* A scan takes intervals that have nothing in common, and every one it does not
\* take begins within one that it takes.
LEMMA LeftmostIsScanned ==
  ASSUME NEW n \in Nat, NEW ends, DOMAIN ends \in SUBSET (0 .. n)
  PROVE  Leftmost(ends) \in SUBSET DOMAIN ends /\ Scanned(ends, Leftmost(ends))
  <1> DEFINE D == DOMAIN ends
             Eq(f) == f = [p \in D |-> \A q \in D : q < p /\ f[q] => ends[q] <= p]
             add(M, i) == IF i - 1 \in D /\ \A q \in M : ends[q] <= i - 1 THEN {i - 1} ELSE {}
             step == [x \in (SUBSET D) \X (1 .. (n + 1)) |-> x[1] \cup add(x[1], x[2])]
  <1>1. D \in SUBSET (0 .. n) /\ D \in SUBSET Int
    OBVIOUS
  <1> HIDE DEF D
  <1>2. PICK h \in [0 .. (n + 1) -> SUBSET D] : Follows(h, n + 1, {}, step)
    <2>1. step \in Steps(SUBSET D, n + 1)
      BY DEF Steps
    <2>2. n + 1 \in Nat /\ {} \in SUBSET D
      OBVIOUS
    <2>3. Results(SUBSET D, n + 1, {}, step) # {}
      <3> HIDE DEF step
      <3> QED
        BY <2>1, <2>2, RecursionIsDefined
    <2> HIDE DEF step
    <2> QED
      BY <2>3 DEF Results
  <1>3. h[0] = {}
    BY <1>2 DEF Follows
  <1>4. ASSUME NEW i \in 1 .. (n + 1) PROVE h[i] = h[i - 1] \cup add(h[i - 1], i)
    <2>1. h[i - 1] \in SUBSET D
      OBVIOUS
    <2>2. h[i] = step[<<h[i - 1], i>>]
      BY <1>2 DEF Follows
    <2> HIDE DEF add
    <2> QED
      BY <2>1, <2>2
  <1> HIDE DEF step
  <1> DEFINE Good(i) == \A p \in D : p \in h[i] <=> p < i /\ \A q \in h[i] : q < p => ends[q] <= p
             T == {i \in 0 .. (n + 1) : Good(i)}
  <1>5. 0 \in T
    BY <1>1, <1>3
  <1>6. ASSUME NEW i \in 1 .. (n + 1), i - 1 \in T PROVE i \in T
    <2> DEFINE M == h[i - 1]
               N == h[i]
    <2>1. Good(i - 1) /\ M \in SUBSET D
      BY <1>6
    <2>2. N = M \cup add(M, i)
      BY <1>4
    <2>3. \A p \in D : p \in M <=> p < i - 1 /\ \A q \in M : q < p => ends[q] <= p
      BY <2>1
    <2> HIDE DEF M, N
    <2>4. ASSUME NEW p \in D PROVE p \in N <=> p < i /\ \A q \in N : q < p => ends[q] <= p
      <3>1. \A q \in N : q < p => q \in M \/ q = i - 1
        BY <2>2
      <3>2. CASE p < i - 1
        <4>1. p \in N <=> p \in M
          BY <2>2, <3>2
        <4>2. \A q \in N : q < p => q \in M
          BY <1>1, <3>1, <3>2
        <4>3. M \subseteq N
          BY <2>2
        <4> QED
          BY <1>1, <2>3, <3>2, <4>1, <4>2, <4>3
      <3>3. CASE p = i - 1
        <4>1. p \notin M /\ \A q \in M : q < p
          <5>1. ~(p < i - 1)
            BY <3>3
          <5> QED
            BY <2>1, <2>3, <3>3, <5>1 DEF M
        <4>2. p \in N <=> \A q \in M : ends[q] <= p
          BY <2>2, <3>3, <4>1
        <4>3. \A q \in N : q < p <=> q \in M
          BY <1>1, <2>2, <3>3, <4>1
        <4>4. M \subseteq N /\ p < i
          BY <2>2, <3>3
        <4> QED
          BY <4>1, <4>2, <4>3, <4>4
      <3>4. CASE p > i - 1
        <4>1. ~(p < i) /\ p # i - 1 /\ ~(p < i - 1)
          BY <1>1, <3>4
        <4> QED
          BY <2>2, <2>3, <4>1
      <3> QED
        BY <1>1, <3>2, <3>3, <3>4
    <2> HIDE DEF add, D
    <2> QED
      BY <2>4 DEF N
  <1>7. 0 .. (n + 1) \subseteq T
    <2> HIDE DEF T
    <2>1. n + 1 \in Nat
      OBVIOUS
    <2> QED
      BY <1>5, <1>6, <2>1, IntervalInduction
  <1> DEFINE M == h[n + 1]
             f == [p \in D |-> p \in M]
  <1>8. \A p \in D : p \in M <=> \A q \in M : q < p => ends[q] <= p
    <2>1. Good(n + 1)
      BY <1>7
    <2>2. \A p \in D : p < n + 1
      BY <1>1
    <2> QED
      BY <2>1, <2>2
  <1>9. M \in SUBSET D
    OBVIOUS
  <1> HIDE DEF M
  <1>10. Eq(f)
    <2>1. \A q \in D : f[q] = (q \in M)
      OBVIOUS
    <2>2. \A p \in D : (p \in M) = (\A q \in D : q < p /\ f[q] => ends[q] <= p)
      <3> HIDE DEF f
      <3> SUFFICES ASSUME NEW p \in D
                   PROVE  (p \in M) = (\A q \in D : q < p /\ f[q] => ends[q] <= p)
        OBVIOUS
      <3>1. \A q \in M : q \in D
        BY <1>9
      <3>2. \A q \in D : f[q] <=> q \in M
        BY <2>1
      <3>3. (\A q \in D : q < p /\ f[q] => ends[q] <= p) <=> (\A q \in M : q < p => ends[q] <= p)
        BY <3>1, <3>2, Zenon
      <3>4. p \in M <=> \A q \in M : q < p => ends[q] <= p
        BY <1>8
      <3> DEFINE A == p \in M
                 B == \A q \in D : q < p /\ f[q] => ends[q] <= p
      <3>5. A \in BOOLEAN /\ B \in BOOLEAN
        OBVIOUS
      <3>6. A <=> B
        BY <3>3, <3>4, Zenon
      <3> HIDE DEF A, B
      <3>7. A = B
        BY <3>5, <3>6
      <3> QED
        BY <3>7 DEF A, B
    <2>3. f = [p \in D |-> f[p]]
      OBVIOUS
    <2>4. \A p \in D : f[p] = (\A q \in D : q < p /\ f[q] => ends[q] <= p)
      <3> HIDE DEF f
      <3> QED
        BY <2>1, <2>2, Zenon
    <2> DEFINE val(p) == \A q \in D : q < p /\ f[q] => ends[q] <= p
    <2>5. \A p \in D : f[p] = val(p)
      BY <2>4
    <2> HIDE DEF f, val
    <2>6. f = [p \in D |-> val(p)]
      BY <2>3, <2>5
    <2> QED
      BY <2>6 DEF val
  <1> HIDE DEF f
  <1> DEFINE taken == CHOOSE g : Eq(g)
  <1>11. Eq(taken)
    BY <1>10
  <1>12. Leftmost(ends) = {p \in D : taken[p]}
    BY DEF Leftmost, D
  <1> HIDE DEF taken
  <1>13. \A p \in D : taken[p] = (\A q \in D : q < p /\ taken[q] => ends[q] <= p)
    BY <1>11
  <1> DEFINE L == Leftmost(ends)
  <1>14. \A p \in D : p \in L <=> taken[p]
    BY <1>12
  <1>15. L \in SUBSET D
    BY <1>12
  <1> HIDE DEF L
  <1>16. \A p \in D : p \in L <=> \A q \in L : q < p => ends[q] <= p
    BY <1>13, <1>14, <1>15, Zenon
  <1> QED
    BY <1>15, <1>16 DEF D, L, Scanned

----------------------------------------------------------------------------
(* Placeholders *)

LEMMA PlaceholderIsText ==
  ASSUME NEW type, NEW n
  PROVE  IsText(Placeholder(type, n)) /\ Len(Placeholder(type, n)) = 2
  <1>1. Placeholder(type, n) \in Seq({type, n}) /\ Len(Placeholder(type, n)) = 2
    BY DEF Placeholder
  <1> QED
    BY <1>1, SeqIsText

LEMMA PlaceholderIsInjective ==
  ASSUME NEW t, NEW u, NEW m, NEW n, Placeholder(t, m) = Placeholder(u, n)
  PROVE  t = u /\ m = n
  BY DEF Placeholder

----------------------------------------------------------------------------
(* Find and replace *)

LEMMA OccurrencesAreFinite ==
  ASSUME NEW t, IsText(t), NEW f, IsText(f)
  PROVE  LET S == Occurrences(t, f) IN S \subseteq Int /\ IsFiniteSet(S)
  <1>1. Len(t) - Len(f) \in Int
    <2>1. Len(t) \in Nat /\ Len(f) \in Nat
      BY TextHasLength
    <2> QED
      BY <2>1
  <1>2. Matches(t, f) \in SUBSET (0 .. (Len(t) - Len(f)))
    BY DEF Matches
  <1>3. IsFiniteSet(0 .. (Len(t) - Len(f)))
    BY <1>1, FS_Interval
  <1>4. Occurrences(t, f) \in SUBSET Matches(t, f)
    BY DEF Occurrences, Leftmost
  <1>5. Occurrences(t, f) \in SUBSET (0 .. (Len(t) - Len(f)))
    BY <1>2, <1>4
  <1>6. IsFiniteSet(Occurrences(t, f))
    BY <1>3, <1>5, FS_Subset
  <1> QED
    BY <1>5, <1>6

LEMMA SubstituteIsText ==
  ASSUME NEW t, IsText(t), NEW f, NEW r, IsText(r)
  PROVE  IsText(Substitute(t, f, r))
  <1> DEFINE changes == {[start |-> p, end |-> p + Len(f), with |-> r] : p \in Occurrences(t, f)}
  <1>1. \A e \in changes : IsText(e.with)
    OBVIOUS
  <1>2. Substitute(t, f, r) = Splice(t, changes)
    BY DEF Substitute
  <1> HIDE DEF changes
  <1> QED
    BY <1>1, <1>2, SpliceIsText

----------------------------------------------------------------------------
(* Replacing what stands in some places of a text *)

\* Place i of a text goes from a[i] to z[i]; w[i] is to stand there.
Changes(I, a, z, w) == {[start |-> a[i], end |-> z[i], with |-> w[i]] : i \in I}

\* No place is empty, reaches over the end, or has a character in common with
\* another one.
Places(t, I, a, z) ==
  /\ \A i \in I : a[i] \in Nat /\ z[i] \in Nat /\ a[i] < z[i] /\ z[i] <= Len(t)
  /\ \A i, j \in I : i = j \/ z[i] <= a[j] \/ z[j] <= a[i]

\* Character k is in none of the places; position k is not within one.
Outside(I, a, z, k) == \A i \in I : ~(a[i] < k /\ k <= z[i])
Border(I, a, z, k) == \A i \in I : ~(a[i] < k /\ k < z[i])

\* S[k] is what the first k characters become when place i gets w[i].
Builds(t, I, a, z, w, S) ==
  /\ IsText(t) /\ Places(t, I, a, z) /\ \A i \in I : IsText(w[i])
  /\ \A k \in 0 .. Len(t) : IsText(S[k])
  /\ S[0] = <<>>
  /\ \A k \in 1 .. Len(t) : Outside(I, a, z, k) => S[k] = Cat(S[k - 1], <<t[k]>>)
  /\ \A i \in I : /\ S[a[i] + 1] = Cat(S[a[i]], w[i])
                  /\ \A k \in (a[i] + 2) .. z[i] : S[k] = S[k - 1]

LEMMA SpliceIsBuilt ==
  ASSUME NEW t, IsText(t), NEW I, NEW a, NEW z, Places(t, I, a, z),
         NEW w, \A i \in I : IsText(w[i])
  PROVE  \E S : Builds(t, I, a, z, w, S) /\ Splice(t, Changes(I, a, z, w)) = S[Len(t)]
  <1> DEFINE C == Changes(I, a, z, w)
             change(i) == [start |-> a[i], end |-> z[i], with |-> w[i]]
             here(k) == {e \in C : e.start < k /\ k <= e.end}
             piece(k) == IF here(k) = {} THEN <<t[k]>>
                         ELSE LET e == CHOOSE e \in here(k) : TRUE
                              IN  IF e.start = k - 1 THEN e.with ELSE <<>>
             s == [k \in 1 .. Len(t) |-> piece(k)]
  <1>1. Len(t) \in Nat
    BY TextHasLength
  <1>2. \A i \in I : a[i] \in Nat /\ z[i] \in Nat /\ a[i] < z[i] /\ z[i] <= Len(t)
    BY DEF Places
  <1>3. ASSUME NEW k \in 1 .. Len(t), Outside(I, a, z, k) PROVE piece(k) = <<t[k]>>
    <2>1. here(k) = {}
      BY <1>3 DEF Outside, Changes
    <2> QED
      BY <2>1
  <1>4. ASSUME NEW i \in I, NEW k \in (a[i] + 1) .. z[i]
        PROVE  piece(k) = IF a[i] = k - 1 THEN w[i] ELSE <<>>
    <2>1. change(i) \in here(k)
      BY <1>2 DEF Changes
    <2>2. ASSUME NEW e \in here(k) PROVE e = change(i)
      <3>1. PICK j \in I : e = change(j)
        BY DEF Changes
      <3>2. a[j] < k /\ k <= z[j]
        BY <3>1
      <3>3. ~(z[i] <= a[j]) /\ ~(z[j] <= a[i])
        BY <1>2, <3>2
      <3>4. i = j
        BY <3>3 DEF Places
      <3> QED
        BY <3>1, <3>4
    <2>3. here(k) # {} /\ (CHOOSE e \in here(k) : TRUE) = change(i)
      <3> HIDE DEF here, change
      <3> QED
        BY <2>1, <2>2
    <2>4. piece(k) = IF change(i).start = k - 1 THEN change(i).with ELSE <<>>
      <3> HIDE DEF here, change
      <3> QED
        BY <2>3
    <2> QED
      BY <2>4
  <1>5. Splice(t, C) = FlattenSeq(s)
    BY DEF Splice
  <1> HIDE DEF piece, here, change, C
  <1>6. ASSUME NEW k \in 1 .. Len(t) PROVE IsText(piece(k))
    <2>1. CASE Outside(I, a, z, k)
      BY <1>3, <2>1, OneIsText
    <2>2. CASE ~Outside(I, a, z, k)
      <3>1. PICK i \in I : a[i] < k /\ k <= z[i]
        BY <2>2 DEF Outside
      <3>2. k \in (a[i] + 1) .. z[i]
        BY <1>2, <3>1
      <3> QED
        BY <1>4, <3>2, EmptyIsText
    <2> QED
      BY <2>1, <2>2
  <1>7. IsText(s) /\ DOMAIN s = 1 .. Len(t) /\ Len(s) = Len(t) /\ \A k \in 1 .. Len(t) : s[k] = piece(k)
    <2>1. s = [k \in 1 .. Len(t) |-> s[k]] /\ \A k \in 1 .. Len(t) : s[k] = piece(k)
      OBVIOUS
    <2> HIDE DEF s
    <2> QED
      BY <1>1, <2>1, FunctionIsText
  <1> HIDE DEF s
  <1>8. PICK S : Joins(s, S) /\ FlattenSeq(s) = S[Len(s)]
    BY <1>6, <1>7, FlattenIsBuilt
  <1>9. /\ \A k \in 0 .. Len(t) : IsText(S[k])
        /\ S[0] = <<>>
        /\ \A k \in 1 .. Len(t) : S[k] = Cat(S[k - 1], piece(k))
    BY <1>7, <1>8 DEF Joins
  <1>10. ASSUME NEW i \in I
         PROVE  /\ S[a[i] + 1] = Cat(S[a[i]], w[i])
                /\ \A k \in (a[i] + 2) .. z[i] : S[k] = S[k - 1]
    <2>1. a[i] + 1 \in (a[i] + 1) .. z[i] /\ a[i] + 1 \in 1 .. Len(t) /\ (a[i] + 1) - 1 = a[i]
      BY <1>1, <1>2
    <2>2. S[a[i] + 1] = Cat(S[a[i]], w[i])
      <3>1. piece(a[i] + 1) = w[i]
        BY <1>4, <2>1
      <3> QED
        BY <1>9, <2>1, <3>1
    <2>3. ASSUME NEW k \in (a[i] + 2) .. z[i] PROVE S[k] = S[k - 1]
      <3>1. k \in (a[i] + 1) .. z[i] /\ k \in 1 .. Len(t) /\ a[i] # k - 1 /\ k - 1 \in 0 .. Len(t)
        BY <1>1, <1>2
      <3>2. piece(k) = <<>>
        BY <1>4, <3>1
      <3> QED
        BY <1>9, <3>1, <3>2, EmptyAddsNothing
    <2> QED
      BY <2>2, <2>3
  <1>11. Builds(t, I, a, z, w, S)
    BY <1>3, <1>9, <1>10 DEF Builds
  <1> QED
    BY <1>5, <1>7, <1>8, <1>11 DEF C

\* At the end of a place its new content has been added.
LEMMA PlaceIsBuilt ==
  ASSUME NEW t, NEW I, NEW a, NEW z, NEW w, NEW S, Builds(t, I, a, z, w, S)
  PROVE  \A i \in I : S[z[i]] = Cat(S[a[i]], w[i])
  <1> SUFFICES ASSUME NEW i \in I PROVE S[z[i]] = Cat(S[a[i]], w[i])
    OBVIOUS
  <1>0. IsText(t) /\ Places(t, I, a, z) /\ \A j \in I : IsText(w[j])
    BY DEF Builds
  <1> USE <1>0
  <1>1. a[i] \in Nat /\ z[i] \in Nat /\ a[i] < z[i]
    BY DEF Places
  <1> DEFINE n == z[i] - a[i] - 1
             T == {d \in 0 .. n : S[a[i] + 1 + d] = Cat(S[a[i]], w[i])}
  <1>2. n \in Nat
    BY <1>1
  <1>3. 0 \in T
    <2>1. a[i] + 1 + 0 = a[i] + 1 /\ 0 \in 0 .. n
      BY <1>1
    <2>2. S[a[i] + 1] = Cat(S[a[i]], w[i])
      BY DEF Builds
    <2> QED
      BY <2>1, <2>2
  <1>4. ASSUME NEW d \in 1 .. n, d - 1 \in T PROVE d \in T
    <2>1. /\ a[i] + 1 + d \in (a[i] + 2) .. z[i] /\ (a[i] + 1 + d) - 1 = a[i] + 1 + (d - 1)
          /\ d \in 0 .. n
      BY <1>1
    <2>2. S[a[i] + 1 + d] = S[a[i] + 1 + (d - 1)]
      BY <2>1 DEF Builds
    <2>3. S[a[i] + 1 + (d - 1)] = Cat(S[a[i]], w[i])
      BY <1>4
    <2> HIDE DEF n
    <2> QED
      BY <2>1, <2>2, <2>3
  <1>5. 0 .. n \subseteq T
    <2> HIDE DEF T, n
    <2> QED
      BY <1>2, <1>3, <1>4, IntervalInduction
  <1>6. n \in 0 .. n /\ a[i] + 1 + n = z[i]
    BY <1>1
  <1>7. S[a[i] + 1 + n] = Cat(S[a[i]], w[i])
    BY <1>5, <1>6
  <1> HIDE DEF n
  <1> QED
    BY <1>6, <1>7

\* One character more adds something at the end, maybe nothing.
LEMMA BuildGoesOn ==
  ASSUME NEW t, NEW I, NEW a, NEW z, NEW w, NEW S, Builds(t, I, a, z, w, S)
  PROVE  \A k \in 1 .. Len(t) : \E v : IsText(v) /\ S[k] = Cat(S[k - 1], v)
  <1>0. IsText(t) /\ Places(t, I, a, z) /\ \A i \in I : IsText(w[i])
    BY DEF Builds
  <1> USE <1>0
  <1> SUFFICES ASSUME NEW k \in 1 .. Len(t) PROVE \E v : IsText(v) /\ S[k] = Cat(S[k - 1], v)
    OBVIOUS
  <1>1. k - 1 \in 0 .. Len(t)
    BY TextHasLength
  <1>2. CASE Outside(I, a, z, k)
    <2>1. S[k] = Cat(S[k - 1], <<t[k]>>)
      BY <1>2 DEF Builds
    <2> QED
      BY <2>1, OneIsText
  <1>3. ASSUME NEW i \in I, a[i] < k, k <= z[i] PROVE \E v : IsText(v) /\ S[k] = Cat(S[k - 1], v)
    <2>1. a[i] \in Nat /\ z[i] \in Nat
      BY DEF Places
    <2>2. CASE k = a[i] + 1
      <3>1. S[k] = Cat(S[k - 1], w[i])
        <4>1. k - 1 = a[i]
          BY <2>1, <2>2
        <4> QED
          BY <2>2, <4>1 DEF Builds
      <3> QED
        BY <3>1
    <2>3. CASE k # a[i] + 1
      <3>1. k \in (a[i] + 2) .. z[i]
        BY <1>3, <2>1, <2>3
      <3>2. S[k] = S[k - 1] /\ IsText(S[k - 1])
        BY <1>1, <3>1 DEF Builds
      <3>3. S[k] = Cat(S[k - 1], <<>>)
        BY <3>2, EmptyAddsNothing
      <3> QED
        BY <3>3, EmptyIsText
    <2> QED
      BY <2>2, <2>3
  <1> QED
    BY <1>2, <1>3 DEF Outside

\* What was built stays at the beginning.
LEMMA BuildGrows ==
  ASSUME NEW t, NEW I, NEW a, NEW z, NEW w, NEW S, Builds(t, I, a, z, w, S)
  PROVE  \A j, k \in 0 .. Len(t) : j <= k =>
           Len(S[j]) <= Len(S[k]) /\ \A x \in 1 .. Len(S[j]) : S[k][x] = S[j][x]
  <1>a. \A x \in 1 .. Len(t) : \E v : IsText(v) /\ S[x] = Cat(S[x - 1], v)
    BY BuildGoesOn
  <1>0. IsText(t) /\ Places(t, I, a, z) /\ \A i \in I : IsText(w[i])
    BY DEF Builds
  <1> USE <1>0
  <1> SUFFICES ASSUME NEW j \in 0 .. Len(t), NEW k \in 0 .. Len(t), j <= k
               PROVE  Len(S[j]) <= Len(S[k]) /\ \A x \in 1 .. Len(S[j]) : S[k][x] = S[j][x]
    OBVIOUS
  <1> DEFINE n == k - j
             Begins(u) == Len(S[j]) <= Len(u) /\ \A x \in 1 .. Len(S[j]) : u[x] = S[j][x]
             T == {d \in 0 .. n : Begins(S[j + d])}
  <1>1. n \in Nat /\ Len(t) \in Nat
    BY TextHasLength
  <1>2. 0 \in T
    <2>1. j + 0 = j /\ 0 \in 0 .. n /\ Len(S[j]) \in Nat
      BY <1>1, TextHasLength DEF Builds
    <2> QED
      BY <2>1
  <1>3. ASSUME NEW d \in 1 .. n, d - 1 \in T PROVE d \in T
    <2>1. /\ j + d \in 1 .. Len(t) /\ (j + d) - 1 = j + (d - 1) /\ j + (d - 1) \in 0 .. Len(t)
          /\ d \in 0 .. n
      BY <1>1
    <2>2. PICK v : IsText(v) /\ S[j + d] = Cat(S[j + (d - 1)], v)
      <3> DEFINE e == j + d
      <3>1. e \in 1 .. Len(t) /\ e - 1 = j + (d - 1)
        BY <2>1
      <3> HIDE DEF e, n, T, Begins
      <3>2. \E v : IsText(v) /\ S[e] = Cat(S[e - 1], v)
        BY <1>a, <3>1
      <3>3. \E v : IsText(v) /\ S[e] = Cat(S[j + (d - 1)], v)
        BY <3>1, <3>2
      <3> QED
        BY <3>3 DEF e
    <2>3. IsText(S[j + (d - 1)]) /\ IsText(S[j])
      BY <2>1 DEF Builds
    <2>4. Begins(S[j + (d - 1)])
      BY <1>3
    <2> DEFINE u == S[j + (d - 1)]
    <2>5. /\ Len(Cat(u, v)) = Len(u) + Len(v) /\ Len(u) \in Nat /\ Len(v) \in Nat /\ Len(S[j]) \in Nat
          /\ \A x \in 1 .. Len(u) : (Cat(u, v))[x] = u[x]
      BY <2>2, <2>3, ConcatIsText, ConcatParts, TextHasLength
    <2>6. Begins(Cat(u, v))
      <3> HIDE DEF u
      <3> QED
        BY <2>4, <2>5 DEF u
    <2> HIDE DEF Begins, n
    <2> QED
      BY <2>1, <2>2, <2>6
  <1>4. 0 .. n \subseteq T
    <2> HIDE DEF T, n
    <2> QED
      BY <1>1, <1>2, <1>3, IntervalInduction
  <1>5. n \in 0 .. n /\ j + n = k
    BY <1>1
  <1>6. n \in T
    BY <1>4, <1>5
  <1>7. Begins(S[j + n])
    BY <1>6
  <1> HIDE DEF n
  <1> QED
    BY <1>5, <1>7

\* A stretch outside the places stays as it is.
LEMMA StretchIsCopied ==
  ASSUME NEW t, NEW I, NEW a, NEW z, NEW w, NEW S, Builds(t, I, a, z, w, S)
  PROVE  \A p, q \in 0 .. Len(t) :
           p <= q /\ (\A k \in (p + 1) .. q : Outside(I, a, z, k)) => S[q] = Cat(S[p], Slice(t, p, q))
  <1>0. IsText(t) /\ Places(t, I, a, z) /\ \A i \in I : IsText(w[i])
    BY DEF Builds
  <1> USE <1>0
  <1> SUFFICES ASSUME NEW p \in 0 .. Len(t), NEW q \in 0 .. Len(t), p <= q,
                      \A k \in (p + 1) .. q : Outside(I, a, z, k)
               PROVE  S[q] = Cat(S[p], Slice(t, p, q))
    OBVIOUS
  <1> DEFINE n == q - p
             T == {d \in 0 .. n : S[p + d] = Cat(S[p], Slice(t, p, p + d))}
  <1>1. n \in Nat /\ Len(t) \in Nat
    BY TextHasLength
  <1>2. \A d \in 0 .. n : /\ IsText(S[p + d]) /\ IsText(Slice(t, p, p + d))
                          /\ Len(Slice(t, p, p + d)) = d
                          /\ \A k \in 1 .. d : Slice(t, p, p + d)[k] = t[p + k]
    <2> SUFFICES ASSUME NEW d \in 0 .. n
                 PROVE  /\ IsText(S[p + d]) /\ IsText(Slice(t, p, p + d))
                        /\ Len(Slice(t, p, p + d)) = d
                        /\ \A k \in 1 .. d : Slice(t, p, p + d)[k] = t[p + k]
      OBVIOUS
    <2>1. p \in Nat /\ p + d \in Nat /\ p <= p + d /\ p + d <= Len(t) /\ (p + d) - p = d
          /\ p + d \in 0 .. Len(t)
      BY <1>1
    <2>2. IsText(S[p + d])
      BY <2>1 DEF Builds
    <2> DEFINE e == p + d
    <2>3. p \in Nat /\ e \in Nat /\ p <= e /\ e <= Len(t) /\ e - p = d
      BY <2>1
    <2> HIDE DEF e
    <2>4. /\ IsText(Slice(t, p, e)) /\ Len(Slice(t, p, e)) = e - p
          /\ \A k \in 1 .. (e - p) : Slice(t, p, e)[k] = t[p + k]
      BY <1>1, <2>3, SliceParts
    <2> QED
      BY <2>2, <2>3, <2>4 DEF e
  <1>3. 0 \in T
    <2>1. p + 0 = p /\ 0 \in 0 .. n /\ IsText(S[p])
      BY <1>1 DEF Builds
    <2>2. Slice(t, p, p + 0) = <<>>
      BY <1>2, <2>1, EmptyHasNoLength
    <2> QED
      BY <2>1, <2>2, EmptyAddsNothing
  <1>4. ASSUME NEW d \in 1 .. n, d - 1 \in T PROVE d \in T
    <2>1. /\ p + d \in (p + 1) .. q /\ p + d \in 1 .. Len(t) /\ (p + d) - 1 = p + (d - 1)
          /\ d \in 0 .. n /\ d - 1 \in 0 .. n /\ 0 \in 0 .. n /\ p + 0 = p /\ d \in Nat
      BY <1>1
    <2> DEFINE u == Slice(t, p, p + (d - 1))
    <2> DEFINE y == <<t[p + d]>>
    <2>2. S[p + d] = Cat(Cat(S[p], u), y)
      BY <1>4, <2>1 DEF Builds
    <2>3. IsText(y) /\ Len(y) = 1 /\ y[1] = t[p + d]
      BY OneIsText
    <2>4. IsText(S[p]) /\ IsText(u) /\ Len(u) = d - 1 /\ \A k \in 1 .. (d - 1) : u[k] = t[p + k]
      <3>1. IsText(S[p + 0])
        BY <1>2, <2>1
      <3> QED
        BY <1>2, <2>1, <3>1
    <2>5. Cat(u, y) = Slice(t, p, p + d)
      <3> DEFINE x == Cat(u, y)
                 v == Slice(t, p, p + d)
      <3> HIDE DEF u, y
      <3>1. IsText(x) /\ Len(x) = Len(u) + Len(y)
        BY <2>3, <2>4, ConcatIsText
      <3>2. /\ \A k \in 1 .. Len(u) : x[k] = u[k]
            /\ \A k \in (Len(u) + 1) .. (Len(u) + Len(y)) : x[k] = y[k - Len(u)]
        BY <2>3, <2>4, ConcatParts
      <3>3. IsText(v) /\ Len(v) = d /\ \A k \in 1 .. d : v[k] = t[p + k]
        BY <1>2, <2>1
      <3> HIDE DEF x, v
      <3>4. Len(x) = d
        BY <2>1, <2>3, <2>4, <3>1
      <3>5. ASSUME NEW k \in 1 .. d PROVE x[k] = t[p + k]
        <4>1. CASE k \in 1 .. (d - 1)
          BY <2>4, <3>2, <4>1
        <4>2. CASE k = d
          <5>1. k \in (Len(u) + 1) .. (Len(u) + Len(y)) /\ k - Len(u) = 1
            BY <2>1, <2>3, <2>4, <4>2
          <5> QED
            BY <2>3, <3>2, <4>2, <5>1
        <4> QED
          BY <2>1, <4>1, <4>2
      <3>6. x = v
        BY <3>1, <3>3, <3>4, <3>5, TextsAreEqual
      <3> QED
        BY <3>6 DEF x, v
    <2>6. Cat(Cat(S[p], u), y) = Cat(S[p], Cat(u, y))
      <3> DEFINE x == S[p]
      <3> HIDE DEF u, y, x
      <3>1. IsText(x) /\ IsText(u) /\ IsText(y)
        BY <2>3, <2>4 DEF x
      <3>2. Cat(Cat(x, u), y) = Cat(x, Cat(u, y))
        BY <3>1, ConcatAssociates
      <3> QED
        BY <3>2 DEF x
    <2>7. S[p + d] = Cat(S[p], Slice(t, p, p + d))
      <3> HIDE DEF u, y
      <3> QED
        BY <2>2, <2>5, <2>6
    <2> HIDE DEF n
    <2> QED
      BY <2>1, <2>7
  <1>5. 0 .. n \subseteq T
    <2> HIDE DEF T, n
    <2> QED
      BY <1>1, <1>3, <1>4, IntervalInduction
  <1>6. n \in 0 .. n /\ p + n = q
    BY <1>1
  <1>7. n \in T
    BY <1>5, <1>6
  <1>8. S[p + n] = Cat(S[p], Slice(t, p, p + n))
    BY <1>7
  <1> HIDE DEF n
  <1> QED
    BY <1>6, <1>8

\* Induction from the left, place by place: what holds at the beginning, and
\* goes on over characters outside the places and over whole places.
LEMMA BorderInduction ==
  ASSUME NEW t, IsText(t), NEW I, NEW a, NEW z, Places(t, I, a, z), NEW B, 0 \in B,
         \A k \in 1 .. Len(t) :
           Outside(I, a, z, k) /\ Border(I, a, z, k - 1) /\ k - 1 \in B => k \in B,
         \A i \in I : Border(I, a, z, a[i]) /\ a[i] \in B => z[i] \in B
  PROVE  \A k \in 0 .. Len(t) : Border(I, a, z, k) => k \in B
  <1> DEFINE Rest == {k \in 0 .. Len(t) : Border(I, a, z, k) /\ k \notin B}
  <1> SUFFICES ASSUME Rest # {} PROVE FALSE
    OBVIOUS
  <1>1. Len(t) \in Nat
    BY TextHasLength
  <1>2. PICK m \in Rest : \A k \in Rest : m <= k
    <2>1. Rest \in SUBSET Nat
      BY <1>1
    <2> HIDE DEF Rest
    <2> QED
      BY <2>1, LeastExists
  <1>3. m \in 1 .. Len(t) /\ Border(I, a, z, m) /\ m \notin B
    BY <1>1
  <1>4. \A k \in 0 .. Len(t) : k < m /\ Border(I, a, z, k) => k \in B
    BY <1>1, <1>2
  <1> HIDE DEF Rest
  <1>5. \A i \in I : a[i] \in Nat /\ z[i] \in Nat /\ a[i] < z[i] /\ z[i] <= Len(t)
    BY DEF Places
  <1>6. CASE Outside(I, a, z, m)
    <2>1. Border(I, a, z, m - 1)
      BY <1>3, <1>5, <1>6 DEF Border, Outside
    <2>2. m - 1 \in 0 .. Len(t) /\ m - 1 < m
      BY <1>3
    <2> QED
      BY <1>3, <1>4, <1>6, <2>1, <2>2
  <1>7. ASSUME NEW i \in I, a[i] < m, m <= z[i] PROVE FALSE
    <2>1. m = z[i]
      BY <1>3, <1>5, <1>7 DEF Border
    <2>2. Border(I, a, z, a[i])
      BY <1>5 DEF Border, Places
    <2>3. a[i] \in 0 .. Len(t)
      BY <1>1, <1>5
    <2> QED
      BY <1>3, <1>4, <1>7, <2>1, <2>2, <2>3
  <1> QED
    BY <1>6, <1>7 DEF Outside

\* The ends of a place are borders, and so are the ends of the text.
LEMMA EndsAreBorders ==
  ASSUME NEW t, IsText(t), NEW I, NEW a, NEW z, Places(t, I, a, z)
  PROVE  /\ Border(I, a, z, 0) /\ Border(I, a, z, Len(t))
         /\ \A i \in I : Border(I, a, z, a[i]) /\ Border(I, a, z, z[i])
  <1>1. Len(t) \in Nat
    BY TextHasLength
  <1>2. \A i \in I : a[i] \in Nat /\ z[i] \in Nat /\ a[i] < z[i] /\ z[i] <= Len(t)
    BY DEF Places
  <1> QED
    BY <1>1, <1>2 DEF Border, Places

\* What was added last stands where it was added.
LEMMA AdditionIsThere ==
  ASSUME NEW t, NEW I, NEW a, NEW z, NEW w, NEW S, Builds(t, I, a, z, w, S)
  PROVE  \A j, k \in 0 .. Len(t) : \A v : IsText(v) /\ S[k] = Cat(S[j], v) =>
           /\ Len(S[k]) = Len(S[j]) + Len(v)
           /\ Slice(S[Len(t)], Len(S[j]), Len(S[k])) = v
  <1>0. \A j, k \in 0 .. Len(t) : j <= k =>
          Len(S[j]) <= Len(S[k]) /\ \A x \in 1 .. Len(S[j]) : S[k][x] = S[j][x]
    BY BuildGrows
  <1> SUFFICES ASSUME NEW j \in 0 .. Len(t), NEW k \in 0 .. Len(t), NEW v, IsText(v),
                      S[k] = Cat(S[j], v)
               PROVE  /\ Len(S[k]) = Len(S[j]) + Len(v)
                      /\ Slice(S[Len(t)], Len(S[j]), Len(S[k])) = v
    OBVIOUS
  <1> DEFINE T == S[Len(t)]
             p == Len(S[j])
             q == Len(S[k])
  <1>1. IsText(t) /\ Len(t) \in Nat
    BY TextHasLength DEF Builds
  <1>2. Len(t) \in 0 .. Len(t) /\ k <= Len(t)
    BY <1>1
  <1>3. IsText(T) /\ IsText(S[j]) /\ IsText(S[k])
    BY <1>2 DEF Builds
  <1>4. p \in Nat /\ Len(v) \in Nat /\ q = p + Len(v) /\ Len(T) \in Nat
    BY <1>3, ConcatIsText, TextHasLength
  <1>5. q <= Len(T) /\ \A x \in 1 .. q : T[x] = S[k][x]
    BY <1>0, <1>2
  <1>6. \A x \in 1 .. Len(v) : S[k][p + x] = v[x]
    <2> DEFINE u == S[j]
    <2> HIDE DEF u
    <2>1. \A x \in (Len(u) + 1) .. (Len(u) + Len(v)) : Cat(u, v)[x] = v[x - Len(u)]
      BY <1>3, ConcatParts DEF u
    <2> SUFFICES ASSUME NEW x \in 1 .. Len(v) PROVE S[k][p + x] = v[x]
      OBVIOUS
    <2>2. p + x \in (Len(u) + 1) .. (Len(u) + Len(v)) /\ (p + x) - Len(u) = x /\ S[k] = Cat(u, v)
      BY <1>4 DEF u
    <2> HIDE DEF p
    <2> QED
      BY <2>1, <2>2
  <1> HIDE DEF T, p, q
  <1>7. /\ IsText(Slice(T, p, q)) /\ Len(Slice(T, p, q)) = q - p
        /\ \A x \in 1 .. (q - p) : Slice(T, p, q)[x] = T[p + x]
    <2>1. p \in Nat /\ q \in Nat /\ p <= q
      BY <1>4
    <2> QED
      BY <1>3, <1>5, <2>1, SliceParts
  <1>8. q - p = Len(v) /\ \A x \in 1 .. Len(v) : p + x \in 1 .. q
    BY <1>4
  <1>9. \A x \in 1 .. Len(v) : Slice(T, p, q)[x] = v[x]
    BY <1>5, <1>6, <1>7, <1>8
  <1>10. Slice(T, p, q) = v
    BY <1>7, <1>8, <1>9, TextsAreEqual
  <1> QED
    BY <1>4, <1>10 DEF T, p, q

\* Places whose content does not change make no difference.
LEMMA PlainPlacesBuildNothing ==
  ASSUME NEW t, NEW a, NEW z, NEW w, NEW J, NEW I \in SUBSET J, NEW S, NEW R,
         Builds(t, J, a, z, w, S), Builds(t, I, a, z, w, R),
         \A j \in J \ I : w[j] = Slice(t, a[j], z[j])
  PROVE  \A k \in 0 .. Len(t) : Border(J, a, z, k) => S[k] = R[k]
  <1>p. \A j \in J : S[z[j]] = Cat(S[a[j]], w[j])
    BY PlaceIsBuilt
  <1>q. \A i \in I : R[z[i]] = Cat(R[a[i]], w[i])
    BY PlaceIsBuilt
  <1>s. \A p, q \in 0 .. Len(t) :
          p <= q /\ (\A k \in (p + 1) .. q : Outside(I, a, z, k)) => R[q] = Cat(R[p], Slice(t, p, q))
    BY StretchIsCopied
  <1>1. IsText(t) /\ Places(t, J, a, z)
    BY DEF Builds
  <1>2. \A j \in J : a[j] \in Nat /\ z[j] \in Nat /\ a[j] < z[j] /\ z[j] <= Len(t)
    BY <1>1 DEF Places
  <1>3. Len(t) \in Nat
    BY <1>1, TextHasLength
  <1> DEFINE B == {k \in 0 .. Len(t) : S[k] = R[k]}
  <1>4. 0 \in B
    BY <1>3 DEF Builds
  <1>5. ASSUME NEW k \in 1 .. Len(t), Outside(J, a, z, k), k - 1 \in B
        PROVE  k \in B
    <2>1. Outside(I, a, z, k)
      BY <1>5 DEF Outside
    <2>2. S[k] = Cat(S[k - 1], <<t[k]>>)
      BY <1>5 DEF Builds
    <2>3. R[k] = Cat(R[k - 1], <<t[k]>>)
      BY <2>1 DEF Builds
    <2>4. S[k - 1] = R[k - 1] /\ k \in 0 .. Len(t)
      BY <1>5
    <2>5. S[k] = R[k]
      BY <2>2, <2>3, <2>4
    <2> QED
      BY <2>4, <2>5
  <1>6. ASSUME NEW j \in J, a[j] \in B PROVE z[j] \in B
    <2>1. z[j] \in 0 .. Len(t) /\ a[j] <= z[j]
      BY <1>2, <1>3
    <2>2. S[z[j]] = Cat(S[a[j]], w[j])
      BY <1>p
    <2>3. CASE j \in I
      <3>1. R[z[j]] = Cat(R[a[j]], w[j])
        BY <1>q, <2>3
      <3> QED
        BY <1>6, <2>1, <2>2, <3>1
    <2>4. CASE j \notin I
      <3>1. \A k \in (a[j] + 1) .. z[j] : Outside(I, a, z, k)
        <4> SUFFICES ASSUME NEW k \in (a[j] + 1) .. z[j], NEW i \in I, a[i] < k, k <= z[i]
                     PROVE  FALSE
          BY DEF Outside
        <4>1. i \in J /\ i # j
          BY <2>4
        <4>2. z[i] <= a[j] \/ z[j] <= a[i]
          BY <1>1, <4>1 DEF Places
        <4> QED
          BY <1>2, <4>1, <4>2
      <3>2. a[j] \in 0 .. Len(t)
        BY <1>6
      <3>3. R[z[j]] = Cat(R[a[j]], Slice(t, a[j], z[j]))
        BY <1>2, <1>s, <2>1, <3>1, <3>2
      <3> QED
        BY <1>6, <2>1, <2>2, <2>4, <3>3
    <2> QED
      BY <2>3, <2>4
  <1>7. \A k \in 0 .. Len(t) : Border(J, a, z, k) => k \in B
    <2> HIDE DEF B
    <2> QED
      BY <1>1, <1>4, <1>5, <1>6, BorderInduction
  <1> QED
    BY <1>7

LEMMA PlainPlacesStay ==
  ASSUME NEW t, IsText(t), NEW a, NEW z, NEW w, NEW J, NEW I \in SUBSET J,
         Places(t, J, a, z), \A j \in J : IsText(w[j]),
         \A j \in J \ I : w[j] = Slice(t, a[j], z[j])
  PROVE  Splice(t, Changes(J, a, z, w)) = Splice(t, Changes(I, a, z, w))
  <1>1. Places(t, I, a, z) /\ \A i \in I : IsText(w[i])
    BY DEF Places
  <1>2. PICK S : Builds(t, J, a, z, w, S) /\ Splice(t, Changes(J, a, z, w)) = S[Len(t)]
    BY SpliceIsBuilt
  <1>3. PICK R : Builds(t, I, a, z, w, R) /\ Splice(t, Changes(I, a, z, w)) = R[Len(t)]
    BY <1>1, SpliceIsBuilt
  <1>4. Len(t) \in 0 .. Len(t) /\ Border(J, a, z, Len(t))
    BY TextHasLength, EndsAreBorders
  <1>5. S[Len(t)] = R[Len(t)]
    BY <1>2, <1>3, <1>4, PlainPlacesBuildNothing
  <1> QED
    BY <1>2, <1>3, <1>5

\* Place i then goes from b[i] to c[i].
Moved(I, a, z, S, b, c) == \A i \in I : b[i] = Len(S[a[i]]) /\ c[i] = Len(S[z[i]])

\* Where the places are afterwards, and what stands there.
LEMMA PlacesMove ==
  ASSUME NEW t, NEW I, NEW a, NEW z, NEW w, NEW S, Builds(t, I, a, z, w, S),
         \A i \in I : Len(w[i]) > 0,
         NEW b, NEW c, Moved(I, a, z, S, b, c)
  PROVE  /\ IsText(S[Len(t)])
         /\ Places(S[Len(t)], I, b, c)
         /\ \A i \in I : Slice(S[Len(t)], b[i], c[i]) = w[i] /\ c[i] = b[i] + Len(w[i])
  <1> DEFINE T == S[Len(t)]
  <1>1. \A j, k \in 0 .. Len(t) : j <= k => Len(S[j]) <= Len(S[k])
    BY BuildGrows
  <1>2. \A i \in I : S[z[i]] = Cat(S[a[i]], w[i])
    BY PlaceIsBuilt
  <1>3. \A j, k \in 0 .. Len(t) : \A v : IsText(v) /\ S[k] = Cat(S[j], v) =>
          /\ Len(S[k]) = Len(S[j]) + Len(v)
          /\ Slice(T, Len(S[j]), Len(S[k])) = v
    BY AdditionIsThere
  <1>4. IsText(t) /\ Places(t, I, a, z) /\ \A i \in I : IsText(w[i])
    BY DEF Builds
  <1>5. Len(t) \in Nat /\ Len(t) \in 0 .. Len(t)
    BY <1>4, TextHasLength
  <1>6. \A i \in I : /\ a[i] \in 0 .. Len(t) /\ z[i] \in 0 .. Len(t)
                     /\ a[i] \in Nat /\ z[i] \in Nat /\ a[i] < z[i]
    BY <1>4, <1>5 DEF Places
  <1>7. \A k \in 0 .. Len(t) : IsText(S[k]) /\ Len(S[k]) \in Nat
    BY TextHasLength DEF Builds
  <1>8. \A i \in I : Len(w[i]) \in Nat /\ Len(w[i]) > 0
    BY <1>4, TextHasLength
  <1>m. \A i \in I : b[i] = Len(S[a[i]]) /\ c[i] = Len(S[z[i]])
    BY DEF Moved
  <1> HIDE DEF T
  <1>9. \A i \in I : Slice(T, b[i], c[i]) = w[i] /\ c[i] = b[i] + Len(w[i])
    <2> SUFFICES ASSUME NEW i \in I
                 PROVE  Slice(T, b[i], c[i]) = w[i] /\ c[i] = b[i] + Len(w[i])
      OBVIOUS
    <2>1. a[i] \in 0 .. Len(t) /\ z[i] \in 0 .. Len(t) /\ IsText(w[i]) /\ S[z[i]] = Cat(S[a[i]], w[i])
      BY <1>2, <1>4, <1>6
    <2>2. /\ Len(S[z[i]]) = Len(S[a[i]]) + Len(w[i])
          /\ Slice(T, Len(S[a[i]]), Len(S[z[i]])) = w[i]
      BY <1>3, <2>1
    <2> QED
      BY <1>m, <2>2
  <1>10. \A i \in I : b[i] \in Nat /\ c[i] \in Nat /\ b[i] < c[i] /\ c[i] <= Len(T)
    <2> SUFFICES ASSUME NEW i \in I PROVE b[i] \in Nat /\ c[i] \in Nat /\ b[i] < c[i] /\ c[i] <= Len(T)
      OBVIOUS
    <2>1. b[i] \in Nat /\ c[i] \in Nat
      BY <1>6, <1>7, <1>m
    <2>2. z[i] \in 0 .. Len(t) /\ z[i] <= Len(t)
      BY <1>5, <1>6
    <2>3. Len(S[z[i]]) <= Len(S[Len(t)])
      BY <1>1, <1>5, <2>2
    <2> QED
      BY <1>8, <1>9, <1>m, <2>1, <2>3 DEF T
  <1>11. ASSUME NEW i \in I, NEW j \in I, z[i] <= a[j] PROVE c[i] <= b[j]
    BY <1>1, <1>6, <1>11, <1>m
  <1>12. Places(T, I, b, c)
    <2>1. \A i, j \in I : i = j \/ z[i] <= a[j] \/ z[j] <= a[i]
      BY <1>4 DEF Places
    <2>2. \A i, j \in I : i = j \/ c[i] <= b[j] \/ c[j] <= b[i]
      BY <1>11, <2>1
    <2> QED
      BY <1>10, <2>2 DEF Places
  <1> QED
    BY <1>5, <1>7, <1>9, <1>12 DEF T

\* A character outside the places is outside the places afterwards.
LEMMA OutsideStaysOutside ==
  ASSUME NEW t, NEW I, NEW a, NEW z, NEW w, NEW S, Builds(t, I, a, z, w, S),
         NEW b, NEW c, Moved(I, a, z, S, b, c)
  PROVE  \A k \in 1 .. Len(t) : Outside(I, a, z, k) =>
           /\ Len(S[k]) = Len(S[k - 1]) + 1 /\ Len(S[k]) \in 1 .. Len(S[Len(t)])
           /\ Outside(I, b, c, Len(S[k])) /\ S[Len(t)][Len(S[k])] = t[k]
  <1>1. \A j, k \in 0 .. Len(t) : j <= k =>
          Len(S[j]) <= Len(S[k]) /\ \A x \in 1 .. Len(S[j]) : S[k][x] = S[j][x]
    BY BuildGrows
  <1>2. IsText(t) /\ Places(t, I, a, z)
    BY DEF Builds
  <1>3. Len(t) \in Nat /\ Len(t) \in 0 .. Len(t)
    BY <1>2, TextHasLength
  <1>4. \A i \in I : a[i] \in 0 .. Len(t) /\ z[i] \in 0 .. Len(t)
    BY <1>2, <1>3 DEF Places
  <1>5. \A k \in 0 .. Len(t) : IsText(S[k]) /\ Len(S[k]) \in Nat
    BY TextHasLength DEF Builds
  <1> SUFFICES ASSUME NEW k \in 1 .. Len(t), Outside(I, a, z, k)
               PROVE  /\ Len(S[k]) = Len(S[k - 1]) + 1 /\ Len(S[k]) \in 1 .. Len(S[Len(t)])
                      /\ Outside(I, b, c, Len(S[k])) /\ S[Len(t)][Len(S[k])] = t[k]
    OBVIOUS
  <1>6. k \in 0 .. Len(t) /\ k - 1 \in 0 .. Len(t) /\ k <= Len(t)
    BY <1>3
  <1>7. S[k] = Cat(S[k - 1], <<t[k]>>)
    BY DEF Builds
  <1> DEFINE u == S[k - 1]
             y == <<t[k]>>
  <1>8. IsText(u) /\ Len(u) \in Nat /\ IsText(y) /\ Len(y) = 1 /\ y[1] = t[k]
    BY <1>5, <1>6, OneIsText
  <1>9. S[k] = Cat(u, y)
    BY <1>7
  <1> HIDE DEF u, y
  <1>10. Len(S[k]) = Len(u) + 1 /\ S[k][Len(u) + 1] = t[k]
    <2>1. Len(Cat(u, y)) = Len(u) + Len(y)
      BY <1>8, ConcatIsText
    <2>2. \A x \in (Len(u) + 1) .. (Len(u) + Len(y)) : Cat(u, y)[x] = y[x - Len(u)]
      BY <1>8, ConcatParts
    <2>3. Len(u) + 1 \in (Len(u) + 1) .. (Len(u) + Len(y)) /\ (Len(u) + 1) - Len(u) = 1
      BY <1>8
    <2> QED
      BY <1>8, <1>9, <2>1, <2>2, <2>3
  <1>11. Len(S[k]) \in 1 .. Len(S[Len(t)])
    <2>1. Len(S[k]) <= Len(S[Len(t)])
      BY <1>1, <1>3, <1>6
    <2> QED
      BY <1>3, <1>5, <1>8, <1>10, <2>1
  <1>12. S[Len(t)][Len(S[k])] = t[k]
    <2>1. \A x \in 1 .. Len(S[k]) : S[Len(t)][x] = S[k][x]
      BY <1>1, <1>3, <1>6
    <2>2. Len(S[k]) \in 1 .. Len(S[k])
      BY <1>8, <1>10
    <2> QED
      BY <1>10, <2>1, <2>2
  <1>13. Outside(I, b, c, Len(S[k]))
    <2> SUFFICES ASSUME NEW i \in I PROVE ~(b[i] < Len(S[k]) /\ Len(S[k]) <= c[i])
      BY DEF Outside
    <2>1. b[i] \in Nat /\ c[i] \in Nat /\ a[i] \in Nat /\ z[i] \in Nat
      BY <1>4, <1>5 DEF Moved
    <2>2. CASE k <= a[i]
      <3>1. Len(S[k]) <= b[i]
        BY <1>1, <1>4, <1>6, <2>2 DEF Moved
      <3> QED
        BY <1>5, <1>6, <2>1, <3>1
    <2>3. CASE z[i] <= k - 1
      <3>1. c[i] <= Len(u)
        BY <1>1, <1>4, <1>6, <2>3 DEF u, Moved
      <3> QED
        BY <1>8, <1>10, <2>1, <3>1
    <2>4. k <= a[i] \/ z[i] <= k - 1
      BY <2>1 DEF Outside
    <2> QED
      BY <2>2, <2>3, <2>4
  <1> QED
    BY <1>10, <1>11, <1>12, <1>13 DEF u

\* Replacing the same places again forgets what was put there in between.
LEMMA SpliceTwice ==
  ASSUME NEW t, NEW I, NEW a, NEW z, NEW w, NEW S, Builds(t, I, a, z, w, S),
         \A i \in I : Len(w[i]) > 0,
         NEW b, NEW c, Moved(I, a, z, S, b, c),
         NEW u, \A i \in I : IsText(u[i])
  PROVE  Splice(S[Len(t)], Changes(I, b, c, u)) = Splice(t, Changes(I, a, z, u))
  <1> DEFINE T == S[Len(t)]
  <1>1. /\ IsText(T) /\ Places(T, I, b, c)
        /\ \A i \in I : c[i] = b[i] + Len(w[i])
    BY PlacesMove
  <1>2. \A k \in 1 .. Len(t) : Outside(I, a, z, k) =>
           /\ Len(S[k]) = Len(S[k - 1]) + 1 /\ Len(S[k]) \in 1 .. Len(T)
           /\ Outside(I, b, c, Len(S[k])) /\ T[Len(S[k])] = t[k]
    BY OutsideStaysOutside
  <1>3. IsText(t) /\ Places(t, I, a, z)
    BY DEF Builds
  <1>4. Len(t) \in Nat /\ Len(t) \in 0 .. Len(t) /\ Border(I, a, z, Len(t))
    BY <1>3, TextHasLength, EndsAreBorders
  <1>5. \A k \in 0 .. Len(t) : Len(S[k]) \in Nat
    BY TextHasLength DEF Builds
  <1>6. S[0] = <<>>
    BY DEF Builds
  <1> HIDE DEF T
  <1>7. PICK X : Builds(T, I, b, c, u, X) /\ Splice(T, Changes(I, b, c, u)) = X[Len(T)]
    BY <1>1, SpliceIsBuilt
  <1>8. PICK W : Builds(t, I, a, z, u, W) /\ Splice(t, Changes(I, a, z, u)) = W[Len(t)]
    BY <1>3, SpliceIsBuilt
  <1>9. \A i \in I : X[c[i]] = Cat(X[b[i]], u[i])
    BY <1>7, PlaceIsBuilt
  <1>10. \A i \in I : W[z[i]] = Cat(W[a[i]], u[i])
    BY <1>8, PlaceIsBuilt
  <1> DEFINE B == {k \in 0 .. Len(t) : X[Len(S[k])] = W[k]}
  <1>11. 0 \in B
    <2>1. Len(S[0]) = 0
      BY <1>6, EmptyIsText
    <2>2. X[0] = W[0]
      BY <1>7, <1>8 DEF Builds
    <2> QED
      BY <1>4, <2>1, <2>2
  <1>12. ASSUME NEW k \in 1 .. Len(t), Outside(I, a, z, k), k - 1 \in B PROVE k \in B
    <2> DEFINE m == Len(S[k])
    <2>1. /\ m \in 1 .. Len(T) /\ Outside(I, b, c, m) /\ T[m] = t[k] /\ m = Len(S[k - 1]) + 1
          /\ k \in 0 .. Len(t) /\ k - 1 \in 0 .. Len(t)
      BY <1>2, <1>4, <1>12
    <2>2. X[m - 1] = W[k - 1]
      <3>1. m - 1 = Len(S[k - 1])
        BY <1>5, <2>1
      <3> QED
        BY <1>12, <3>1
    <2> HIDE DEF m, B
    <2>3. X[m] = Cat(X[m - 1], <<T[m]>>)
      BY <1>7, <2>1 DEF Builds
    <2>4. W[k] = Cat(W[k - 1], <<t[k]>>)
      BY <1>8, <1>12 DEF Builds
    <2>5. X[m] = W[k]
      BY <2>1, <2>2, <2>3, <2>4
    <2> QED
      BY <2>1, <2>5 DEF B, m
  <1>13. ASSUME NEW i \in I, a[i] \in B PROVE z[i] \in B
    <2>1. z[i] \in 0 .. Len(t)
      BY <1>3, <1>4 DEF Places
    <2>2. X[b[i]] = W[a[i]] /\ c[i] = Len(S[z[i]])
      BY <1>13 DEF Moved
    <2>3. X[c[i]] = W[z[i]]
      BY <1>9, <1>10, <2>2
    <2> QED
      BY <2>1, <2>2, <2>3
  <1>14. \A k \in 0 .. Len(t) : Border(I, a, z, k) => k \in B
    <2> HIDE DEF B
    <2> QED
      BY <1>3, <1>11, <1>12, <1>13, BorderInduction
  <1>15. X[Len(S[Len(t)])] = W[Len(t)]
    BY <1>4, <1>14
  <1> QED
    BY <1>7, <1>8, <1>15 DEF T

----------------------------------------------------------------------------
(* Replacing every occurrence *)

\* The places begin at F.
BeginAt(I, a, F) == {a[i] : i \in I} = F

\* Each place has n characters and gets m.
Sized(I, a, z, w, n, m) == \A i \in I : z[i] = a[i] + n /\ Len(w[i]) = m

\* How many of the places F of n characters end before k.
Behind(F, n, k) == Cardinality({p \in F : p + n <= k})

\* Where the places end up when all of them have n characters and get m.
LEMMA PlacesShift ==
  ASSUME NEW t, NEW I, NEW a, NEW z, NEW w, NEW S, Builds(t, I, a, z, w, S),
         NEW F, IsFiniteSet(F), BeginAt(I, a, F), NEW n \in Nat, NEW m \in Nat,
         Sized(I, a, z, w, n, m)
  PROVE  \A k \in 0 .. Len(t) : Border(I, a, z, k) => Len(S[k]) = k + (m - n) * Behind(F, n, k)
  <1> DEFINE before(k) == {p \in F : p + n <= k}
             B == {k \in 0 .. Len(t) : Len(S[k]) = k + (m - n) * Cardinality(before(k))}
  <1>0. /\ F = {a[i] : i \in I}
        /\ \A i \in I : z[i] = a[i] + n /\ Len(w[i]) = m
    BY DEF BeginAt, Sized
  <1> USE <1>0
  <1>1. IsText(t) /\ Places(t, I, a, z) /\ \A i \in I : IsText(w[i])
    BY DEF Builds
  <1>2. Len(t) \in Nat
    BY <1>1, TextHasLength
  <1>3. \A i \in I : a[i] \in Nat /\ z[i] = a[i] + n /\ n > 0 /\ z[i] <= Len(t)
    <2> SUFFICES ASSUME NEW i \in I
                 PROVE  a[i] \in Nat /\ z[i] = a[i] + n /\ n > 0 /\ z[i] <= Len(t)
      OBVIOUS
    <2>1. a[i] \in Nat /\ a[i] < z[i] /\ z[i] <= Len(t) /\ z[i] = a[i] + n
      BY <1>1 DEF Places
    <2> QED
      BY <2>1
  <1>4. \A p \in F : p \in Nat
    BY <1>3
  <1>5. \A i \in I : S[z[i]] = Cat(S[a[i]], w[i])
    BY PlaceIsBuilt
  <1>6. \A k \in 0 .. Len(t) : IsText(S[k]) /\ Len(S[k]) \in Nat
    BY TextHasLength DEF Builds
  <1>7. ASSUME NEW k PROVE IsFiniteSet(before(k)) /\ Cardinality(before(k)) \in Nat
    <2>1. before(k) \in SUBSET F
      OBVIOUS
    <2> HIDE DEF before
    <2> QED
      BY <2>1, FS_Subset, FS_CardinalityType
  <1>8. 0 \in B
    <2>1. before(0) = {}
      <3> SUFFICES ASSUME NEW p \in F, p + n <= 0 PROVE FALSE
        OBVIOUS
      <3>1. PICK i \in I : p = a[i]
        OBVIOUS
      <3> QED
        BY <1>3, <3>1
    <2>2. Cardinality(before(0)) = 0
      BY <2>1, FS_EmptySet
    <2>3. Len(S[0]) = 0
      BY EmptyIsText DEF Builds
    <2> HIDE DEF before
    <2>4. 0 = 0 + (m - n) * Cardinality(before(0)) /\ 0 \in 0 .. Len(t)
      BY <1>2, <2>2
    <2> QED
      BY <2>3, <2>4
  <1>9. ASSUME NEW k \in 1 .. Len(t), Outside(I, a, z, k), k - 1 \in B PROVE k \in B
    <2>1. k - 1 \in 0 .. Len(t) /\ k \in 0 .. Len(t)
      BY <1>2
    <2>2. before(k) = before(k - 1)
      <3> SUFFICES ASSUME NEW p \in F PROVE p + n <= k <=> p + n <= k - 1
        OBVIOUS
      <3>1. PICK i \in I : p = a[i]
        OBVIOUS
      <3> QED
        BY <1>3, <1>9, <3>1 DEF Outside
    <2>3. Len(S[k]) = Len(S[k - 1]) + 1
      <3> DEFINE u == S[k - 1]
                 y == <<t[k]>>
      <3>1. S[k] = Cat(u, y)
        BY <1>9 DEF Builds
      <3>2. IsText(u) /\ IsText(y) /\ Len(y) = 1
        BY <1>6, <2>1, OneIsText
      <3> HIDE DEF u, y
      <3>3. Len(Cat(u, y)) = Len(u) + Len(y)
        BY <3>2, ConcatIsText
      <3> QED
        BY <3>1, <3>2, <3>3 DEF u
    <2>4. Len(S[k - 1]) = (k - 1) + (m - n) * Cardinality(before(k - 1))
      BY <1>9
    <2> DEFINE c == (m - n) * Cardinality(before(k - 1))
    <2>5. c \in Int
      <3> HIDE DEF before
      <3> QED
        BY <1>7
    <2> HIDE DEF c, before
    <2>6. Len(S[k]) = k + c
      BY <2>3, <2>4, <2>5 DEF c
    <2> QED
      BY <2>1, <2>2, <2>6 DEF c
  <1>10. ASSUME NEW i \in I, a[i] \in B PROVE z[i] \in B
    <2>1. a[i] \in 0 .. Len(t) /\ z[i] \in 0 .. Len(t)
      BY <1>2, <1>3
    <2>2. before(z[i]) = before(a[i]) \cup {a[i]} /\ a[i] \notin before(a[i])
      <3>1. a[i] \notin before(a[i]) /\ a[i] \in before(z[i])
        BY <1>3
      <3>2. ASSUME NEW p \in F PROVE p + n <= z[i] <=> p = a[i] \/ p + n <= a[i]
        <4>1. PICK j \in I : p = a[j]
          OBVIOUS
        <4>2. i = j \/ z[i] <= a[j] \/ z[j] <= a[i]
          BY <1>1 DEF Places
        <4> QED
          BY <1>3, <4>1, <4>2
      <3> QED
        BY <3>1, <3>2
    <2> DEFINE x == Cardinality(before(a[i]))
               y == Cardinality(before(z[i]))
    <2>3. x \in Nat /\ y = x + 1
      <3>1. IsFiniteSet(before(a[i])) /\ x \in Nat
        BY <1>7
      <3> HIDE DEF before
      <3> QED
        BY <2>2, <3>1, FS_AddElement
    <2>4. Len(S[z[i]]) = Len(S[a[i]]) + m
      <3> DEFINE u == S[a[i]]
      <3>1. IsText(u) /\ IsText(w[i]) /\ Len(w[i]) = m /\ S[z[i]] = Cat(u, w[i])
        BY <1>1, <1>5, <1>6, <2>1
      <3> HIDE DEF u
      <3> QED
        BY <3>1, ConcatIsText DEF u
    <2>5. Len(S[a[i]]) = a[i] + (m - n) * x
      BY <1>10
    <2> HIDE DEF x, y, before
    <2>6. (m - n) * (x + 1) = (m - n) * x + (m - n) /\ (m - n) * x \in Int
      BY <2>3
    <2>7. Len(S[z[i]]) = z[i] + (m - n) * y
      BY <1>3, <2>3, <2>4, <2>5, <2>6
    <2> QED
      BY <2>1, <2>7 DEF y
  <1>11. \A k \in 0 .. Len(t) : Border(I, a, z, k) => k \in B
    <2> HIDE DEF B
    <2> QED
      BY <1>1, <1>8, <1>9, <1>10, BorderInduction
  <1> QED
    BY <1>11 DEF Behind

\* Every position of the new text is the end of what became of a beginning of
\* the old one, or within the new content of a place.
LEMMA EveryPositionIsReached ==
  ASSUME NEW t, NEW I, NEW a, NEW z, NEW w, NEW S, Builds(t, I, a, z, w, S)
  PROVE  \A p \in 0 .. Len(S[Len(t)]) :
           \/ \E k \in 0 .. Len(t) : Border(I, a, z, k) /\ Len(S[k]) = p
           \/ \E i \in I : Len(S[a[i]]) < p /\ p < Len(S[z[i]])
  <1> SUFFICES ASSUME NEW p \in 0 .. Len(S[Len(t)]),
                      \A k \in 0 .. Len(t) : Border(I, a, z, k) => Len(S[k]) # p,
                      \A i \in I : ~(Len(S[a[i]]) < p /\ p < Len(S[z[i]]))
               PROVE  FALSE
    OBVIOUS
  <1>1. IsText(t) /\ Places(t, I, a, z)
    BY DEF Builds
  <1>2. Len(t) \in Nat /\ Len(t) \in 0 .. Len(t) /\ Border(I, a, z, Len(t))
    BY <1>1, TextHasLength, EndsAreBorders
  <1>3. \A i \in I : Border(I, a, z, a[i]) /\ a[i] \in 0 .. Len(t)
                     /\ Border(I, a, z, z[i]) /\ z[i] \in 0 .. Len(t)
    BY <1>1, <1>2, EndsAreBorders DEF Places
  <1>4. \A k \in 0 .. Len(t) : Len(S[k]) \in Nat
    BY TextHasLength DEF Builds
  <1> DEFINE B == {k \in 0 .. Len(t) : Len(S[k]) < p}
  <1>5. Border(I, a, z, 0) => 0 \in B
    <2>1. Len(S[0]) = 0
      BY EmptyIsText DEF Builds
    <2>2. 0 \in 0 .. Len(t)
      BY <1>2
    <2> QED
      BY <2>1, <2>2
  <1>6. 0 \in B
    BY <1>1, <1>5, EndsAreBorders
  <1>7. ASSUME NEW k \in 1 .. Len(t), Outside(I, a, z, k), k - 1 \in B PROVE k \in B
    <2>1. k - 1 \in 0 .. Len(t) /\ k \in 0 .. Len(t)
      BY <1>2
    <2>2. Len(S[k]) = Len(S[k - 1]) + 1
      <3> DEFINE u == S[k - 1]
                 y == <<t[k]>>
      <3>1. S[k] = Cat(u, y)
        BY <1>7 DEF Builds
      <3>2. IsText(u) /\ IsText(y) /\ Len(y) = 1
        BY <2>1, OneIsText DEF Builds
      <3> HIDE DEF u, y
      <3>3. Len(Cat(u, y)) = Len(u) + Len(y)
        BY <3>2, ConcatIsText
      <3> QED
        BY <3>1, <3>2, <3>3 DEF u
    <2>3. Border(I, a, z, k)
      <3>1. \A i \in I : a[i] \in Nat /\ z[i] \in Nat
        BY <1>3
      <3> QED
        BY <1>7, <3>1 DEF Border, Outside
    <2>4. Len(S[k]) # p
      BY <2>1, <2>3
    <2> QED
      BY <1>4, <1>7, <2>1, <2>2, <2>4
  <1>8. ASSUME NEW i \in I, a[i] \in B PROVE z[i] \in B
    <2>1. Len(S[z[i]]) # p /\ ~(p < Len(S[z[i]]))
      BY <1>3, <1>8
    <2> QED
      BY <1>3, <1>4, <2>1
  <1>9. Len(t) \in B
    <2>1. \A k \in 0 .. Len(t) : Border(I, a, z, k) => k \in B
      <3> HIDE DEF B
      <3> QED
        BY <1>1, <1>6, <1>7, <1>8, BorderInduction
    <2> QED
      BY <1>2, <2>1
  <1> QED
    BY <1>4, <1>9

LEMMA OccurrencesArePlaces ==
  ASSUME NEW t, IsText(t), NEW f, IsText(f)
  PROVE  LET F == Occurrences(t, f)
         IN  /\ F \in SUBSET Matches(t, f) /\ IsFiniteSet(F)
             /\ \A p \in Matches(t, f) : p \in Nat /\ p + Len(f) <= Len(t) /\ Slice(t, p, p + Len(f)) = f
             /\ \A p, q \in F : p = q \/ p + Len(f) <= q \/ q + Len(f) <= p
             /\ \A p \in Matches(t, f) : p \in F \/ \E q \in F : q < p /\ p < q + Len(f)
  <1> DEFINE F == Occurrences(t, f)
             ends == [p \in Matches(t, f) |-> p + Len(f)]
             n == Len(t)
  <1>1. n \in Nat /\ Len(f) \in Nat
    BY TextHasLength
  <1>2. Matches(t, f) \in SUBSET (0 .. n)
    BY <1>1 DEF Matches
  <1>3. \A p \in Matches(t, f) : p \in Nat /\ p + Len(f) <= n /\ Slice(t, p, p + Len(f)) = f
    BY <1>1 DEF Matches
  <1>4. F = Leftmost(ends) /\ DOMAIN ends = Matches(t, f)
    BY DEF Occurrences
  <1>5. \A p \in Matches(t, f) : ends[p] = p + Len(f)
    OBVIOUS
  <1>6. IsFiniteSet(F)
    BY OccurrencesAreFinite
  <1> HIDE DEF F, ends, n
  <1>7. F \in SUBSET Matches(t, f) /\ Scanned(ends, F)
    BY <1>1, <1>2, <1>4, LeftmostIsScanned
  <1>8. \A p \in Matches(t, f) : p \in F <=> \A q \in F : q < p => q + Len(f) <= p
    <2>1. \A q \in F : ends[q] = q + Len(f)
      BY <1>5, <1>7
    <2> QED
      BY <1>4, <1>7, <2>1 DEF Scanned
  <1>9. \A p \in F : p \in Nat
    BY <1>3, <1>7
  <1>10. \A p, q \in F : p = q \/ p + Len(f) <= q \/ q + Len(f) <= p
    <2> SUFFICES ASSUME NEW p \in F, NEW q \in F, p # q
                 PROVE  p + Len(f) <= q \/ q + Len(f) <= p
      OBVIOUS
    <2>1. p < q \/ q < p
      BY <1>9
    <2> QED
      BY <1>7, <1>8, <2>1
  <1>11. \A p \in Matches(t, f) : p \in F \/ \E q \in F : q < p /\ p < q + Len(f)
    <2> SUFFICES ASSUME NEW p \in Matches(t, f), p \notin F
                 PROVE  \E q \in F : q < p /\ p < q + Len(f)
      OBVIOUS
    <2>1. PICK q \in F : q < p /\ ~(q + Len(f) <= p)
      BY <1>8
    <2>2. p < q + Len(f)
      BY <1>1, <1>3, <1>9, <2>1
    <2> QED
      BY <2>1, <2>2
  <1> QED
    BY <1>3, <1>6, <1>7, <1>10, <1>11 DEF F, n

\* An occurrence in the new text has a character in common with one of the
\* replacements: what was put there is all that can make a new one.
LEMMA NoOtherOccurrence ==
  ASSUME NEW t, IsText(t), NEW f, IsText(f), Len(f) > 0, NEW I, NEW a, NEW z, NEW w, NEW S,
         Builds(t, I, a, z, w, S), BeginAt(I, a, Occurrences(t, f)),
         \A i \in I : z[i] = a[i] + Len(f) /\ Len(w[i]) > 0,
         NEW b, NEW c, Moved(I, a, z, S, b, c)
  PROVE  \A p \in Matches(S[Len(t)], f) : \E i \in I : p < c[i] /\ b[i] < p + Len(f)
  <1> DEFINE T == S[Len(t)]
             n == Len(f)
  <1>0. {a[i] : i \in I} = Occurrences(t, f)
    BY DEF BeginAt
  <1> USE <1>0
  <1>1. \A i \in I : Len(w[i]) > 0
    OBVIOUS
  <1>2. /\ IsText(T) /\ Places(T, I, b, c)
        /\ \A i \in I : c[i] = b[i] + Len(w[i])
    BY <1>1, PlacesMove
  <1>3. \A p \in 0 .. Len(T) :
           \/ \E k \in 0 .. Len(t) : Border(I, a, z, k) /\ Len(S[k]) = p
           \/ \E i \in I : Len(S[a[i]]) < p /\ p < Len(S[z[i]])
    BY EveryPositionIsReached
  <1>4. \A j, k \in 0 .. Len(t) : j <= k => Len(S[j]) <= Len(S[k])
    BY BuildGrows
  <1>5. \A p, q \in 0 .. Len(t) :
          p <= q /\ (\A k \in (p + 1) .. q : Outside(I, a, z, k)) => S[q] = Cat(S[p], Slice(t, p, q))
    BY StretchIsCopied
  <1>6. \A j, k \in 0 .. Len(t) : \A v : IsText(v) /\ S[k] = Cat(S[j], v) =>
          /\ Len(S[k]) = Len(S[j]) + Len(v)
          /\ Slice(T, Len(S[j]), Len(S[k])) = v
    BY AdditionIsThere
  <1>7. \A p \in Matches(T, f) : p \in Nat /\ p + n <= Len(T) /\ Slice(T, p, p + n) = f
    BY <1>2, OccurrencesArePlaces
  <1>8. \A p \in Matches(t, f) : p \in Occurrences(t, f)
                                 \/ \E q \in Occurrences(t, f) : q < p /\ p < q + n
    BY OccurrencesArePlaces
  <1>9. n \in Nat /\ n > 0 /\ Len(t) \in Nat /\ Len(T) \in Nat
    BY <1>2, TextHasLength
  <1>10. \A k \in 0 .. Len(t) : Len(S[k]) \in Nat
    BY TextHasLength DEF Builds
  <1>11. Places(t, I, a, z)
    BY DEF Builds
  <1>12. \A i \in I : /\ b[i] = Len(S[a[i]]) /\ c[i] = Len(S[z[i]]) /\ b[i] < c[i]
                      /\ a[i] \in 0 .. Len(t) /\ z[i] \in 0 .. Len(t)
                      /\ b[i] \in Nat /\ c[i] \in Nat
    BY <1>2, <1>9, <1>11 DEF Moved, Places
  <1>13. \A i \in I : z[i] = a[i] + n
    OBVIOUS
  <1> HIDE DEF T, n
  <1> SUFFICES ASSUME NEW p \in Matches(T, f), \A i \in I : ~(p < c[i] /\ b[i] < p + n)
               PROVE  FALSE
    BY DEF T, n
  <1>14. p \in 0 .. Len(T) /\ p + n \in 0 .. Len(T)
    BY <1>7, <1>9
  <1>a. ASSUME NEW x \in 0 .. Len(T), p <= x, x <= p + n
        PROVE  \E k \in 0 .. Len(t) : Border(I, a, z, k) /\ Len(S[k]) = x
    <2>1. ASSUME NEW i \in I, Len(S[a[i]]) < x, x < Len(S[z[i]]) PROVE FALSE
      <3>1. b[i] < x /\ x < c[i] /\ b[i] \in Nat /\ c[i] \in Nat
        BY <1>12, <2>1
      <3>2. p < c[i] /\ b[i] < p + n
        BY <1>9, <1>14, <1>a, <3>1
      <3> QED
        BY <3>2
    <2> QED
      BY <1>3, <2>1
  <1>b. p <= p /\ p <= p + n /\ p + n <= p + n
    BY <1>9, <1>14
  <1>15. PICK j \in 0 .. Len(t) : Border(I, a, z, j) /\ Len(S[j]) = p
    BY <1>14, <1>a, <1>b
  <1>16. PICK k \in 0 .. Len(t) : Border(I, a, z, k) /\ Len(S[k]) = p + n
    <2> DEFINE x == p + n
    <2>1. x \in 0 .. Len(T) /\ p <= x /\ x <= p + n
      BY <1>14, <1>b
    <2> HIDE DEF x
    <2>2. \E k \in 0 .. Len(t) : Border(I, a, z, k) /\ Len(S[k]) = x
      BY <1>a, <2>1
    <2> QED
      BY <2>2 DEF x
  <1>17. j < k
    <2>1. n \in Nat /\ n > 0 /\ p \in Nat
      BY <1>9, <1>14
    <2>2. CASE k = j
      BY <1>15, <1>16, <2>1, <2>2
    <2>3. CASE k < j
      <3>1. Len(S[k]) <= Len(S[j])
        BY <1>4, <1>15, <1>16, <2>3
      <3> QED
        BY <1>15, <1>16, <2>1, <3>1
    <2> QED
      BY <2>2, <2>3
  <1>18. ASSUME NEW x \in (j + 1) .. k PROVE Outside(I, a, z, x)
    <2> SUFFICES ASSUME NEW i \in I, a[i] < x, x <= z[i] PROVE FALSE
      BY DEF Outside
    <2>1. j <= a[i] /\ z[i] <= k
      BY <1>12, <1>15, <1>16 DEF Border
    <2>2. p <= b[i] /\ c[i] <= p + n
      BY <1>4, <1>12, <1>15, <1>16, <2>1
    <2> QED
      BY <1>12, <1>14, <2>2
  <1>19. S[k] = Cat(S[j], Slice(t, j, k))
    BY <1>5, <1>17, <1>18
  <1>20. IsText(Slice(t, j, k)) /\ Len(Slice(t, j, k)) = k - j
    <2>1. j \in Nat /\ k \in Nat /\ j <= k /\ k <= Len(t)
      BY <1>9, <1>17
    <2> QED
      BY <2>1, SliceParts
  <1>21. p + n = p + (k - j) /\ Slice(T, p, p + n) = Slice(t, j, k)
    <2>1. /\ Len(S[k]) = Len(S[j]) + Len(Slice(t, j, k))
          /\ Slice(T, Len(S[j]), Len(S[k])) = Slice(t, j, k)
      <3> DEFINE v == Slice(t, j, k)
      <3>1. IsText(v) /\ S[k] = Cat(S[j], v)
        BY <1>19, <1>20
      <3> HIDE DEF v, T
      <3>2. Len(S[k]) = Len(S[j]) + Len(v) /\ Slice(T, Len(S[j]), Len(S[k])) = v
        BY <1>6, <3>1
      <3> QED
        BY <3>2 DEF v
    <2>2. Len(S[j]) = p /\ Len(S[k]) = p + n
      BY <1>15, <1>16
    <2>3. p + n = p + (k - j)
      BY <1>20, <2>1, <2>2
    <2>4. Slice(T, p, p + n) = Slice(t, j, k)
      BY <2>1, <2>2
    <2> QED
      BY <2>3, <2>4
  <1>22. k = j + n /\ j \in 0 .. (Len(t) - n)
    BY <1>9, <1>14, <1>21
  <1>23. Slice(t, j, j + n) = f
    <2>1. Slice(T, p, p + n) = f
      BY <1>7
    <2> QED
      BY <1>21, <1>22, <2>1
  <1>24. j \in Matches(t, f)
    BY <1>22, <1>23 DEF Matches, n
  <1>25. PICK i \in I : a[i] <= j /\ j < a[i] + n
    <2>1. CASE j \in Occurrences(t, f)
      <3>1. PICK i \in I : j = a[i]
        BY <2>1
      <3> QED
        BY <1>9, <3>1
    <2>2. ASSUME NEW q \in Occurrences(t, f), q < j, j < q + n
          PROVE  \E i \in I : a[i] <= j /\ j < a[i] + n
      <3>1. PICK i \in I : q = a[i]
        OBVIOUS
      <3>2. a[i] <= j
        BY <1>12, <2>2, <3>1
      <3> QED
        BY <2>2, <3>1, <3>2
    <2> QED
      BY <1>8, <1>24, <2>1, <2>2
  <1>26. j + 1 \in (j + 1) .. k
    BY <1>17
  <1>27. ~(a[i] < j + 1 /\ j + 1 <= z[i])
    BY <1>18, <1>26 DEF Outside
  <1> QED
    BY <1>9, <1>12, <1>13, <1>25, <1>27

----------------------------------------------------------------------------
(* Places one after the other, and the parts of a text *)

\* The part of t behind its first o characters begins with u.
Within(u, t, o) ==
  o \in Nat /\ o + Len(u) <= Len(t) /\ \A k \in 1 .. Len(u) : t[o + k] = u[k]

\* The places J of u are places of t, where u stands behind o, and no other
\* place of t reaches into u.
PartOf(u, J, b, c, t, I, a, z, o) ==
  /\ Within(u, t, o) /\ J \in SUBSET I
  /\ \A j \in J : a[j] = o + b[j] /\ z[j] = o + c[j]
  /\ \A i \in I \ J : z[i] <= o \/ o + Len(u) <= a[i]

\* What becomes of a part of a text is a part of what becomes of the text.
LEMMA PartIsBuilt ==
  ASSUME NEW t, NEW I, NEW a, NEW z, NEW w, NEW S, Builds(t, I, a, z, w, S),
         NEW u, NEW J, NEW b, NEW c, NEW R, Builds(u, J, b, c, w, R),
         NEW o, PartOf(u, J, b, c, t, I, a, z, o)
  PROVE  \A k \in 0 .. Len(u) : S[o + k] = Cat(S[o], R[k])
  <1> DEFINE n == Len(u)
             T == {k \in 0 .. n : S[o + k] = Cat(S[o], R[k])}
  <1>1. IsText(t) /\ IsText(u) /\ Places(t, I, a, z) /\ Places(u, J, b, c)
    BY DEF Builds
  <1>2. /\ o \in Nat /\ o + n <= Len(t) /\ \A k \in 1 .. n : t[o + k] = u[k]
        /\ J \in SUBSET I
        /\ \A j \in J : a[j] = o + b[j] /\ z[j] = o + c[j]
        /\ \A i \in I \ J : z[i] <= o \/ o + n <= a[i]
    BY DEF PartOf, Within
  <1>3. n \in Nat /\ Len(t) \in Nat
    BY <1>1, TextHasLength
  <1>4. /\ \A k \in 0 .. Len(t) : IsText(S[k])
        /\ \A k \in 0 .. n : IsText(R[k])
        /\ \A i \in I : IsText(w[i]) /\ a[i] \in Nat /\ z[i] \in Nat
        /\ \A j \in J : b[j] \in Nat /\ c[j] \in Nat /\ b[j] < c[j] /\ c[j] <= n
        /\ R[0] = <<>>
    BY <1>1 DEF Builds, Places
  <1> HIDE DEF n
  <1>5. o \in 0 .. Len(t) /\ IsText(S[o])
    BY <1>2, <1>3, <1>4
  <1>6. 0 \in T
    <2>1. S[o + 0] = S[o] /\ Cat(S[o], R[0]) = S[o]
      BY <1>2, <1>4, <1>5, EmptyAddsNothing
    <2> QED
      BY <1>3, <2>1
  <1>7. ASSUME NEW k \in 1 .. n, k - 1 \in T PROVE k \in T
    <2> DEFINE x == S[o]
               y == R[k - 1]
    <2>1. /\ k - 1 \in 0 .. n /\ k \in 0 .. n /\ o + k \in 1 .. Len(t)
          /\ (o + k) - 1 = o + (k - 1) /\ k \in Int /\ o \in Int
      BY <1>2, <1>3
    <2>2. IsText(x) /\ IsText(y) /\ S[(o + k) - 1] = Cat(x, y)
      BY <1>4, <1>5, <1>7, <2>1
    <2>3. CASE Outside(J, b, c, k)
      <3>1. ASSUME NEW i \in I PROVE ~(a[i] < o + k /\ o + k <= z[i])
        <4>1. CASE i \in J
          <5>1. ~(b[i] < k /\ k <= c[i]) /\ a[i] = o + b[i] /\ z[i] = o + c[i]
            BY <1>2, <2>3, <4>1 DEF Outside
          <5> QED
            BY <1>4, <2>1, <4>1, <5>1
        <4>2. CASE i \notin J
          <5>1. z[i] <= o \/ o + n <= a[i]
            BY <1>2, <4>2
          <5> QED
            BY <1>3, <1>4, <2>1, <5>1
        <4> QED
          BY <4>1, <4>2
      <3>2. Outside(I, a, z, o + k)
        BY <3>1 DEF Outside
      <3> DEFINE v == <<u[k]>>
      <3>3. IsText(v)
        BY OneIsText
      <3>4. S[o + k] = Cat(S[(o + k) - 1], <<t[o + k]>>) /\ t[o + k] = u[k]
        BY <1>2, <2>1, <3>2 DEF Builds
      <3>5. R[k] = Cat(y, v)
        BY <2>3 DEF Builds, n
      <3> HIDE DEF v
      <3>6. S[o + k] = Cat(Cat(x, y), v)
        BY <2>2, <3>4 DEF v
      <3> HIDE DEF x, y
      <3>7. Cat(Cat(x, y), v) = Cat(x, Cat(y, v))
        BY <2>2, <3>3, ConcatAssociates
      <3>8. S[o + k] = Cat(S[o], R[k])
        BY <3>5, <3>6, <3>7 DEF x
      <3> QED
        BY <2>1, <3>8
    <2>4. CASE ~Outside(J, b, c, k)
      <3>1. PICK j \in J : b[j] < k /\ k <= c[j]
        BY <2>4 DEF Outside
      <3>2. a[j] = o + b[j] /\ z[j] = o + c[j] /\ j \in I /\ IsText(w[j])
        BY <1>2, <1>4
      <3>3. CASE k = b[j] + 1
        <4>1. S[a[j] + 1] = Cat(S[a[j]], w[j]) /\ R[b[j] + 1] = Cat(R[b[j]], w[j])
          BY <3>2 DEF Builds
        <4>2. a[j] + 1 = o + k /\ a[j] = (o + k) - 1 /\ b[j] = k - 1
          <5>1. b[j] \in Nat /\ o \in Int
            BY <1>4, <2>1
          <5>2. a[j] = o + b[j]
            BY <3>2
          <5> QED
            BY <3>3, <5>1, <5>2
        <4>3. S[o + k] = Cat(Cat(x, y), w[j]) /\ R[k] = Cat(y, w[j])
          BY <2>2, <3>3, <4>1, <4>2
        <4> HIDE DEF x, y
        <4>4. Cat(Cat(x, y), w[j]) = Cat(x, Cat(y, w[j]))
          BY <2>2, <3>2, ConcatAssociates
        <4>5. S[o + k] = Cat(S[o], R[k])
          BY <4>3, <4>4 DEF x
        <4> QED
          BY <2>1, <4>5
      <3>4. CASE k # b[j] + 1
        <4>1. k \in (b[j] + 2) .. c[j] /\ o + k \in (a[j] + 2) .. z[j]
          <5>1. b[j] \in Nat /\ c[j] \in Nat /\ k \in Int /\ o \in Int
            BY <1>4, <2>1
          <5>2. a[j] = o + b[j] /\ z[j] = o + c[j]
            BY <3>2
          <5>3. b[j] + 2 <= k /\ k <= c[j]
            BY <3>1, <3>4, <5>1
          <5> QED
            BY <5>1, <5>2, <5>3
        <4>2. S[o + k] = S[(o + k) - 1] /\ R[k] = R[k - 1]
          BY <3>2, <4>1 DEF Builds
        <4> QED
          BY <2>1, <2>2, <4>2
      <3> QED
        BY <3>3, <3>4
    <2> QED
      BY <2>3, <2>4
  <1>8. 0 .. n \subseteq T
    <2> HIDE DEF T
    <2> QED
      BY <1>3, <1>6, <1>7, IntervalInduction
  <1> QED
    BY <1>8 DEF n

\* How much longer its place gets.
Grows(g, n, a, z, w) == \A i \in 1 .. n : g[i] = Len(w[i]) - (z[i] - a[i])

\* Places one after the other move by what those before them grow.
LEMMA PlacesInOrderShift ==
  ASSUME NEW t, NEW n \in Nat, NEW I, I = 1 .. n, NEW a, NEW z, NEW w, NEW S,
         Builds(t, I, a, z, w, S),
         \A i, j \in I : i < j => z[i] <= a[j],
         NEW g, Grows(g, n, a, z, w)
  PROVE  \A i \in I : Len(S[a[i]]) = a[i] + SumUpTo(i - 1, g)
  <1> DEFINE T == {i \in 0 .. n : i > 0 => Len(S[a[i]]) = a[i] + SumUpTo(i - 1, g)}
  <1>1. IsText(t) /\ Places(t, I, a, z)
    BY DEF Builds
  <1>2. \A i \in I : /\ a[i] \in 0 .. Len(t) /\ z[i] \in 0 .. Len(t) /\ a[i] < z[i]
                     /\ IsText(S[a[i]]) /\ IsText(S[z[i]]) /\ IsText(w[i]) /\ Len(w[i]) \in Nat
                     /\ Len(S[a[i]]) \in Nat
    <2>1. Len(t) \in Nat
      BY <1>1, TextHasLength
    <2>2. \A i \in I : a[i] \in 0 .. Len(t) /\ z[i] \in 0 .. Len(t) /\ a[i] < z[i]
      BY <1>1, <2>1 DEF Places
    <2> QED
      BY <2>2, TextHasLength DEF Builds
  <1>3. \A p, q \in 0 .. Len(t) :
          p <= q /\ (\A k \in (p + 1) .. q : Outside(I, a, z, k)) => S[q] = Cat(S[p], Slice(t, p, q))
    BY StretchIsCopied
  <1>4. ASSUME NEW p \in 0 .. Len(t), NEW q \in 0 .. Len(t), p <= q,
               \A k \in (p + 1) .. q : Outside(I, a, z, k)
        PROVE  Len(S[q]) = Len(S[p]) + (q - p)
    <2>1. S[q] = Cat(S[p], Slice(t, p, q))
      BY <1>3, <1>4
    <2>2. p \in Nat /\ q \in Nat /\ q <= Len(t)
      BY <1>1, TextHasLength
    <2>3. IsText(Slice(t, p, q)) /\ Len(Slice(t, p, q)) = q - p
      BY <1>1, <1>4, <2>2, SliceParts
    <2>4. IsText(S[p])
      BY DEF Builds
    <2> DEFINE v == Slice(t, p, q)
    <2>5. S[q] = Cat(S[p], v) /\ Len(v) = q - p /\ IsText(v)
      BY <2>1, <2>3
    <2> HIDE DEF v
    <2>6. Len(S[q]) = Len(S[p]) + Len(v)
      BY <2>4, <2>5, ConcatIsText
    <2> QED
      BY <2>5, <2>6
  <1>5. \A i \in 1 .. n : g[i] \in Int
    <2> SUFFICES ASSUME NEW i \in 1 .. n PROVE g[i] \in Int
      OBVIOUS
    <2>1. g[i] = Len(w[i]) - (z[i] - a[i])
      BY DEF Grows
    <2>2. Len(w[i]) \in Nat /\ a[i] \in Int /\ z[i] \in Int
      BY <1>2
    <2> QED
      BY <2>1, <2>2
  <1>6. 0 \in T
    OBVIOUS
  <1>7. ASSUME NEW i \in 1 .. n, i - 1 \in T PROVE i \in T
    <2>1. CASE i = 1
      <3>1. 0 \in 0 .. Len(t) /\ a[1] \in 0 .. Len(t) /\ 0 <= a[1] /\ 1 \in I
        BY <1>1, <1>2, <2>1, TextHasLength
      <3>2. ASSUME NEW k \in (0 + 1) .. a[1], NEW j \in I PROVE ~(a[j] < k /\ k <= z[j])
        <4>1. j = 1 \/ z[1] <= a[j]
          BY <3>1
        <4> QED
          BY <1>2, <3>1, <4>1
      <3>3. \A k \in (0 + 1) .. a[1] : Outside(I, a, z, k)
        BY <3>2 DEF Outside
      <3>4. Len(S[a[1]]) = Len(S[0]) + (a[1] - 0)
        BY <1>4, <3>1, <3>3
      <3>5. Len(S[0]) = 0
        BY EmptyIsText DEF Builds
      <3>6. SumUpTo(0, g) = 0
        BY SumOfNone
      <3>7. Len(S[a[1]]) = a[1] + SumUpTo(1 - 1, g)
        <4>1. a[1] \in Int /\ 1 - 1 = 0
          BY <3>1
        <4> QED
          BY <3>4, <3>5, <3>6, <4>1
      <3> QED
        BY <2>1, <3>7
    <2>2. CASE i > 1
      <3> DEFINE h == i - 1
      <3>1. h \in I /\ i \in I /\ h \in Nat /\ h > 0 /\ h < i /\ h + 1 = i
        BY <2>2
      <3>2. Len(S[a[h]]) = a[h] + SumUpTo(h - 1, g)
        BY <1>7, <3>1
      <3> HIDE DEF h
      <3>3. z[h] <= a[i] /\ z[h] \in 0 .. Len(t) /\ a[i] \in 0 .. Len(t)
        BY <1>2, <3>1
      <3>4. ASSUME NEW k \in (z[h] + 1) .. a[i], NEW j \in I PROVE ~(a[j] < k /\ k <= z[j])
        <4>1. (j <= h \/ i <= j) /\ j \in Int /\ h \in Int /\ i \in Int
          BY <3>1
        <4>2. CASE j <= h
          <5>1. z[j] <= z[h]
            <6>1. j = h \/ z[j] <= a[h]
              BY <3>1, <4>1, <4>2
            <6> QED
              BY <1>2, <3>1, <6>1
          <5> QED
            BY <1>2, <3>3, <5>1
        <4>3. CASE i <= j
          <5>1. a[i] <= a[j]
            <6>1. i = j \/ z[i] <= a[j]
              BY <3>1, <4>1, <4>3
            <6> QED
              BY <1>2, <3>1, <6>1
          <5> QED
            BY <1>2, <3>3, <5>1
        <4> QED
          BY <4>1, <4>2, <4>3
      <3>5. \A k \in (z[h] + 1) .. a[i] : Outside(I, a, z, k)
        BY <3>4 DEF Outside
      <3>6. Len(S[a[i]]) = Len(S[z[h]]) + (a[i] - z[h])
        BY <1>4, <3>3, <3>5
      <3>7. Len(S[z[h]]) = Len(S[a[h]]) + Len(w[h])
        <4>1. S[z[h]] = Cat(S[a[h]], w[h])
          BY <3>1, PlaceIsBuilt
        <4> QED
          BY <1>2, <3>1, <4>1, ConcatIsText
      <3>8. SumUpTo(h, g) = SumUpTo(h - 1, g) + g[h] /\ SumUpTo(h - 1, g) \in Int
        <4> DEFINE m == h - 1
        <4>1. m \in Nat /\ m + 1 = h /\ (\A j \in 1 .. (m + 1) : g[j] \in Int)
                /\ (\A j \in 1 .. m : g[j] \in Int)
          BY <1>5, <3>1
        <4> HIDE DEF m
        <4>2. SumUpTo(m + 1, g) = SumUpTo(m, g) + g[m + 1]
          BY <4>1, SumGoesOn
        <4>3. SumUpTo(m, g) \in Int
          BY <4>1, SumIsInt
        <4> QED
          BY <4>1, <4>2, <4>3 DEF m
      <3>9. g[h] = Len(w[h]) - (z[h] - a[h])
        BY <3>1 DEF Grows
      <3>10. Len(S[a[i]]) = a[i] + SumUpTo(h, g)
        <4> DEFINE x == SumUpTo(h - 1, g)
                   y == SumUpTo(h, g)
        <4>1. /\ a[h] \in Int /\ z[h] \in Int /\ a[i] \in Int /\ Len(w[h]) \in Int
              /\ x \in Int
          BY <1>2, <3>1, <3>8
        <4>2. /\ Len(S[a[h]]) = a[h] + x /\ y = x + g[h]
          BY <3>2, <3>8
        <4> HIDE DEF x, y
        <4>3. Len(S[z[h]]) = a[h] + x + Len(w[h])
          BY <3>7, <4>1, <4>2
        <4>4. Len(S[a[i]]) = a[h] + x + Len(w[h]) + (a[i] - z[h])
          BY <3>6, <4>1, <4>3
        <4>5. y = x + (Len(w[h]) - (z[h] - a[h]))
          BY <3>9, <4>2
        <4>6. a[h] + x + Len(w[h]) + (a[i] - z[h]) = a[i] + (x + (Len(w[h]) - (z[h] - a[h])))
          BY <4>1
        <4> QED
          BY <4>4, <4>5, <4>6 DEF y
      <3> QED
        BY <3>10 DEF h
    <2> QED
      BY <2>1, <2>2
  <1>8. 0 .. n \subseteq T
    <2> HIDE DEF T
    <2> QED
      BY <1>6, <1>7, IntervalInduction
  <1> QED
    BY <1>8

LEMMA SliceOfPart ==
  ASSUME NEW t, IsText(t), NEW u, IsText(u), NEW o, Within(u, t, o),
         NEW p \in Nat, NEW q \in Nat, p <= q, q <= Len(u)
  PROVE  Slice(t, o + p, o + q) = Slice(u, p, q)
  <1> DEFINE x == Slice(t, o + p, o + q)
             y == Slice(u, p, q)
             n == q - p
  <1>1. o \in Nat /\ o + Len(u) <= Len(t) /\ \A k \in 1 .. Len(u) : t[o + k] = u[k]
    BY DEF Within
  <1>2. Len(t) \in Nat /\ Len(u) \in Nat /\ n \in Nat
    BY TextHasLength
  <1>3. o + p \in Nat /\ o + q \in Nat /\ o + p <= o + q /\ o + q <= Len(t) /\ (o + q) - (o + p) = n
    BY <1>1, <1>2
  <1>4. IsText(x) /\ Len(x) = n /\ \A k \in 1 .. n : x[k] = t[(o + p) + k]
    <2>1. /\ IsText(x) /\ Len(x) = (o + q) - (o + p)
          /\ \A k \in 1 .. ((o + q) - (o + p)) : x[k] = t[(o + p) + k]
      BY <1>3, SliceParts
    <2> HIDE DEF x
    <2> QED
      BY <1>3, <2>1
  <1>5. IsText(y) /\ Len(y) = n /\ \A k \in 1 .. n : y[k] = u[p + k]
    BY SliceParts
  <1> HIDE DEF x, y
  <1>6. ASSUME NEW k \in 1 .. n PROVE x[k] = y[k]
    <2> DEFINE m == p + k
    <2>1. m \in 1 .. Len(u) /\ (o + p) + k = o + m
      BY <1>1, <1>2
    <2>2. t[o + m] = u[m]
      BY <1>1, <2>1
    <2> QED
      BY <1>4, <1>5, <2>1, <2>2
  <1> HIDE DEF n
  <1>7. x = y
    BY <1>4, <1>5, <1>6, TextsAreEqual
  <1> QED
    BY <1>7 DEF x, y


----------------------------------------------------------------------------
(* Putting other texts in all places, one value after the other *)

\* Places that get what they have change nothing.
LEMMA PlainPlacesAlone ==
  ASSUME NEW t, IsText(t), NEW J, NEW a, NEW z, Places(t, J, a, z),
         NEW w, \A j \in J : w[j] = Slice(t, a[j], z[j])
  PROVE  Splice(t, Changes(J, a, z, w)) = t
  <1> DEFINE I == {j \in J : FALSE}
  <1>1. I \in SUBSET J /\ \A j : j \notin I
    OBVIOUS
  <1>2. \A j \in J : IsText(w[j])
    <2>1. \A j \in J : a[j] \in Int /\ z[j] \in Int
      BY DEF Places
    <2> QED
      BY <2>1, SliceIsText
  <1> HIDE DEF I
  <1>3. \A j \in J \ I : w[j] = Slice(t, a[j], z[j])
    OBVIOUS
  <1>4. Splice(t, Changes(J, a, z, w)) = Splice(t, Changes(I, a, z, w))
    BY <1>1, <1>2, <1>3, PlainPlacesStay
  <1>5. Places(t, I, a, z) /\ \A j \in I : IsText(w[j])
    BY <1>1 DEF Places
  <1>6. PICK S : Builds(t, I, a, z, w, S) /\ Splice(t, Changes(I, a, z, w)) = S[Len(t)]
    BY <1>5, SpliceIsBuilt
  <1>7. S[0] = <<>>
    BY <1>6 DEF Builds
  <1>8. Len(t) \in Nat
    BY TextHasLength
  <1>9. S[Len(t)] = Cat(S[0], Slice(t, 0, Len(t)))
    <2>1. \A p, q \in 0 .. Len(t) :
            p <= q /\ (\A k \in (p + 1) .. q : Outside(I, a, z, k)) => S[q] = Cat(S[p], Slice(t, p, q))
      BY <1>6, StretchIsCopied
    <2>2. 0 \in 0 .. Len(t) /\ Len(t) \in 0 .. Len(t) /\ 0 <= Len(t)
      BY <1>8
    <2>3. \A k \in (0 + 1) .. Len(t) : Outside(I, a, z, k)
      BY <1>1 DEF Outside
    <2> QED
      BY <2>1, <2>2, <2>3
  <1>10. Slice(t, 0, Len(t)) = t
    <2>1. 0 \in Nat /\ Len(t) \in Nat /\ 0 <= Len(t) /\ Len(t) <= Len(t)
      BY <1>8
    <2>2. /\ IsText(Slice(t, 0, Len(t))) /\ Len(Slice(t, 0, Len(t))) = Len(t) - 0
          /\ \A k \in 1 .. (Len(t) - 0) : Slice(t, 0, Len(t))[k] = t[0 + k]
      BY <2>1, SliceParts
    <2> DEFINE u == Slice(t, 0, Len(t))
    <2>3. IsText(u) /\ Len(u) = Len(t) - 0 /\ \A k \in 1 .. (Len(t) - 0) : u[k] = t[0 + k]
      BY <2>2
    <2> HIDE DEF u
    <2>4. Len(u) = Len(t) /\ \A k \in 1 .. Len(u) : u[k] = t[k]
      BY <1>8, <2>3
    <2>5. u = t
      BY <2>3, <2>4, TextsAreEqual
    <2> QED
      BY <2>5 DEF u
  <1> QED
    BY <1>4, <1>6, <1>7, <1>9, <1>10, EmptyAddsNothing

\* What stands outside of the places is in the new text, and so is what they get.
LEMMA CharactersStay ==
  ASSUME NEW t, NEW I, NEW a, NEW z, NEW w, NEW S, Builds(t, I, a, z, w, S),
         \A i \in I : Len(w[i]) > 0
  PROVE  /\ IsText(S[Len(t)])
         /\ \A k \in 1 .. Len(t) : Outside(I, a, z, k) => t[k] \in ToSet(S[Len(t)])
         /\ \A i \in I : ToSet(w[i]) \subseteq ToSet(S[Len(t)])
  <1> DEFINE b == [i \in I |-> Len(S[a[i]])]
             c == [i \in I |-> Len(S[z[i]])]
             T == S[Len(t)]
  <1>1. Moved(I, a, z, S, b, c)
    BY DEF Moved
  <1> HIDE DEF b, c
  <1>2. IsText(T) /\ Places(T, I, b, c) /\ \A i \in I : Slice(T, b[i], c[i]) = w[i]
    BY <1>1, PlacesMove
  <1>3. \A k \in 1 .. Len(t) : Outside(I, a, z, k) => Len(S[k]) \in 1 .. Len(T) /\ T[Len(S[k])] = t[k]
    BY <1>1, OutsideStaysOutside
  <1> HIDE DEF T
  <1>4. DOMAIN T = 1 .. Len(T) /\ Len(T) \in Nat
    BY <1>2, TextHasLength
  <1>5. ASSUME NEW k \in 1 .. Len(t), Outside(I, a, z, k) PROVE t[k] \in ToSet(T)
    <2>1. Len(S[k]) \in DOMAIN T /\ T[Len(S[k])] = t[k]
      BY <1>3, <1>4, <1>5
    <2> QED
      BY <2>1 DEF ToSet
  <1>6. ASSUME NEW i \in I PROVE ToSet(w[i]) \subseteq ToSet(T)
    <2>1. b[i] \in Nat /\ c[i] \in Nat /\ b[i] <= c[i] /\ c[i] <= Len(T)
      BY <1>2, <1>4 DEF Places
    <2>2. Slice(T, b[i], c[i]) = w[i]
      BY <1>2
    <2> QED
      BY <1>2, <2>1, <2>2, SliceIsPart
  <1> QED
    BY <1>2, <1>5, <1>6 DEF T

\* And there is nothing else.
LEMMA NoOtherCharacters ==
  ASSUME NEW t, NEW I, NEW a, NEW z, NEW w, NEW S, Builds(t, I, a, z, w, S), NEW C,
         \A k \in 1 .. Len(t) : Outside(I, a, z, k) => t[k] \in C,
         \A i \in I : ToSet(w[i]) \subseteq C
  PROVE  ToSet(S[Len(t)]) \subseteq C
  <1> DEFINE n == Len(t)
             K == {k \in 0 .. n : ToSet(S[k]) \subseteq C}
  <1>1. /\ IsText(t) /\ Places(t, I, a, z) /\ \A i \in I : IsText(w[i])
        /\ \A k \in 0 .. n : IsText(S[k])
        /\ S[0] = <<>>
        /\ \A k \in 1 .. n : Outside(I, a, z, k) => S[k] = Cat(S[k - 1], <<t[k]>>)
        /\ \A i \in I : /\ S[a[i] + 1] = Cat(S[a[i]], w[i])
                        /\ \A k \in (a[i] + 2) .. z[i] : S[k] = S[k - 1]
    BY DEF Builds
  <1>2. n \in Nat
    BY <1>1, TextHasLength
  <1>3. 0 \in K
    BY <1>1, <1>2 DEF ToSet
  <1> HIDE DEF n
  <1>4. ASSUME NEW k \in 1 .. n, k - 1 \in K PROVE k \in K
    <2>1. k - 1 \in 0 .. n /\ k \in 0 .. n
      BY <1>2
    <2>2. ToSet(S[k - 1]) \subseteq C /\ IsText(S[k - 1])
      BY <1>1, <1>4, <2>1
    <2>3. CASE Outside(I, a, z, k)
      <3>1. S[k] = Cat(S[k - 1], <<t[k]>>) /\ t[k] \in C
        BY <1>1, <2>3 DEF n
      <3>2. IsText(<<t[k]>>) /\ ToSet(<<t[k]>>) = {t[k]}
        BY OneIsText DEF ToSet
      <3>3. ToSet(S[k]) = ToSet(S[k - 1]) \cup {t[k]}
        BY <2>2, <3>1, <3>2, ConcatCharacters
      <3> QED
        BY <2>1, <2>2, <3>1, <3>3
    <2>4. ASSUME NEW i \in I, a[i] < k, k <= z[i] PROVE ToSet(S[k]) \subseteq C
      <3>1. a[i] \in Nat /\ z[i] \in Nat
        BY <1>1 DEF Places
      <3>2. CASE k = a[i] + 1
        <4>1. k - 1 = a[i]
          BY <3>1, <3>2
        <4>2. S[k] = Cat(S[k - 1], w[i])
          BY <1>1, <3>2, <4>1
        <4> QED
          BY <1>1, <2>2, <4>2, ConcatCharacters
      <3>3. CASE k # a[i] + 1
        <4>1. k \in (a[i] + 2) .. z[i]
          BY <2>4, <3>1, <3>3
        <4> QED
          BY <1>1, <2>2, <4>1
      <3> QED
        BY <3>2, <3>3
    <2> QED
      BY <2>1, <2>3, <2>4 DEF Outside
  <1>5. 0 .. n \subseteq K
    <2> HIDE DEF K
    <2> QED
      BY <1>2, <1>3, <1>4, IntervalInduction
  <1> QED
    BY <1>2, <1>5 DEF n

\* Characters that are neither there nor in what is put in are not there.
LEMMA CharactersStayAway ==
  ASSUME NEW t, IsText(t), NEW I, NEW a, NEW z, Places(t, I, a, z), NEW w, NEW G,
         \A i \in I : IsText(w[i]) /\ Len(w[i]) > 0 /\ ToSet(w[i]) \cap G = {},
         \A k \in 1 .. Len(t) : Outside(I, a, z, k) => t[k] \notin G
  PROVE  ToSet(Splice(t, Changes(I, a, z, w))) \cap G = {}
  <1>1. \A i \in I : IsText(w[i])
    OBVIOUS
  <1>2. \A i \in I : Len(w[i]) > 0
    OBVIOUS
  <1>3. PICK S : Builds(t, I, a, z, w, S) /\ Splice(t, Changes(I, a, z, w)) = S[Len(t)]
    BY <1>1, SpliceIsBuilt
  <1> DEFINE C == {c \in ToSet(S[Len(t)]) : c \notin G}
  <1>4. /\ \A k \in 1 .. Len(t) : Outside(I, a, z, k) => t[k] \in ToSet(S[Len(t)])
        /\ \A i \in I : ToSet(w[i]) \subseteq ToSet(S[Len(t)])
    BY <1>2, <1>3, CharactersStay
  <1>5. /\ \A k \in 1 .. Len(t) : Outside(I, a, z, k) => t[k] \in C
        /\ \A i \in I : ToSet(w[i]) \subseteq C
    BY <1>4
  <1> HIDE DEF C
  <1>6. ToSet(S[Len(t)]) \subseteq C
    BY <1>3, <1>5, NoOtherCharacters
  <1> QED
    BY <1>3, <1>6 DEF C

\* What a character leaves of itself in the letters of a text.
Spelled(c, form) ==
  IF c \in White THEN <<>> ELSE IF c \in DOMAIN form THEN <<form[c]>> ELSE <<c>>

LEMMA SpelledIsText ==
  ASSUME NEW c, NEW form
  PROVE  IsText(Spelled(c, form))
  <1>1. CASE c \in White
    BY <1>1, EmptyIsText DEF Spelled
  <1>2. CASE c \notin White /\ c \in DOMAIN form
    BY <1>2, OneIsText DEF Spelled
  <1>3. CASE c \notin White /\ c \notin DOMAIN form
    BY <1>3, OneIsText DEF Spelled
  <1> QED
    BY <1>1, <1>2, <1>3

\* The letters of the first characters of t, one more at a time.
Spelling(t, form, h) ==
  /\ h[0] = <<>> /\ \A i \in 0 .. Len(t) : IsText(h[i])
  /\ \A i \in 1 .. Len(t) : h[i] = Cat(h[i - 1], Spelled(t[i], form))

LEMMA LettersAreSpelled ==
  ASSUME NEW t, IsText(t), NEW form
  PROVE  \E h : Spelling(t, form, h) /\ LettersBy(t, form) = h[Len(t)]
  <1> DEFINE s == [i \in 1 .. Len(t) |-> Spelled(t[i], form)]
  <1>1. LettersBy(t, form) = FlattenSeq(s)
    BY DEF LettersBy, Spelled
  <1>2. s = [i \in 1 .. Len(t) |-> s[i]] /\ DOMAIN s = 1 .. Len(t)
    OBVIOUS
  <1>3. \A i \in 1 .. Len(t) : s[i] = Spelled(t[i], form)
    OBVIOUS
  <1> HIDE DEF s
  <1>4. IsText(s) /\ Len(s) = Len(t)
    BY <1>2, TextHasLength, FunctionIsText
  <1>5. \A i \in DOMAIN s : IsText(s[i])
    BY <1>2, <1>3, SpelledIsText
  <1>6. PICK h : Joins(s, h) /\ FlattenSeq(s) = h[Len(s)]
    BY <1>4, <1>5, FlattenIsBuilt
  <1>7. Spelling(t, form, h)
    BY <1>3, <1>4, <1>6 DEF Joins, Spelling
  <1> QED
    BY <1>1, <1>4, <1>6, <1>7

LEMMA LettersAreText ==
  ASSUME NEW t, IsText(t)
  PROVE  IsText(Letters(t))
  <1>1. PICK h : Spelling(t, Lower, h) /\ LettersBy(t, Lower) = h[Len(t)]
    BY LettersAreSpelled
  <1>2. Len(t) \in 0 .. Len(t)
    BY TextHasLength
  <1> QED
    BY <1>1, <1>2 DEF Spelling, Letters

\* The letters of two texts, one behind the other, are theirs.
LEMMA LettersOfConcat ==
  ASSUME NEW t, IsText(t), NEW u, IsText(u)
  PROVE  Letters(Cat(t, u)) = Cat(Letters(t), Letters(u))
  <1> DEFINE v == Cat(t, u)
             m == Len(t)
             n == Len(u)
             piece(c) == Spelled(c, Lower)
  <1>1. m \in Nat /\ n \in Nat
    BY TextHasLength
  <1>2. /\ IsText(v) /\ Len(v) = m + n
        /\ \A k \in 1 .. m : v[k] = t[k]
        /\ \A k \in (m + 1) .. (m + n) : v[k] = u[k - m]
    BY ConcatIsText, ConcatParts
  <1>3. PICK f : Spelling(t, Lower, f) /\ LettersBy(t, Lower) = f[m]
    BY LettersAreSpelled
  <1>4. PICK g : Spelling(u, Lower, g) /\ LettersBy(u, Lower) = g[n]
    BY LettersAreSpelled
  <1> HIDE DEF v
  <1>5. PICK h : Spelling(v, Lower, h) /\ LettersBy(v, Lower) = h[Len(v)]
    BY <1>2, LettersAreSpelled
  <1>6. /\ f[0] = <<>> /\ \A i \in 0 .. m : IsText(f[i])
        /\ \A i \in 1 .. m : f[i] = Cat(f[i - 1], piece(t[i]))
        /\ g[0] = <<>> /\ \A i \in 0 .. n : IsText(g[i])
        /\ \A i \in 1 .. n : g[i] = Cat(g[i - 1], piece(u[i]))
        /\ h[0] = <<>> /\ \A i \in 1 .. (m + n) : h[i] = Cat(h[i - 1], piece(v[i]))
    BY <1>2, <1>3, <1>4, <1>5 DEF Spelling
  <1>7. \A c : IsText(piece(c))
    BY SpelledIsText
  <1> HIDE DEF m, n, piece
  <1> DEFINE T == {k \in 0 .. m : h[k] = f[k]}
             U == {k \in 0 .. n : h[m + k] = Cat(f[m], g[k])}
  <1>8. 0 .. m \subseteq T
    <2>1. 0 \in T
      BY <1>1, <1>6
    <2>2. ASSUME NEW k \in 1 .. m, k - 1 \in T PROVE k \in T
      <3>1. k \in 1 .. (m + n) /\ k \in 0 .. m
        BY <1>1
      <3>2. h[k] = Cat(h[k - 1], piece(t[k]))
        BY <1>2, <1>6, <3>1
      <3> QED
        BY <1>6, <2>2, <3>1, <3>2
    <2> HIDE DEF T
    <2> QED
      BY <1>1, <2>1, <2>2, IntervalInduction
  <1>9. IsText(f[m]) /\ h[m] = f[m]
    BY <1>1, <1>6, <1>8
  <1> HIDE DEF T
  <1>10. 0 .. n \subseteq U
    <2>1. 0 \in U
      BY <1>1, <1>6, <1>9, EmptyAddsNothing
    <2>2. ASSUME NEW k \in 1 .. n, k - 1 \in U PROVE k \in U
      <3>1. /\ m + k \in (m + 1) .. (m + n) /\ m + k \in 1 .. (m + n)
            /\ (m + k) - m = k /\ (m + k) - 1 = m + (k - 1) /\ k \in 0 .. n /\ k - 1 \in 0 .. n
        BY <1>1
      <3>2. h[m + k] = Cat(h[m + (k - 1)], piece(u[k]))
        BY <1>2, <1>6, <3>1
      <3>3. h[m + (k - 1)] = Cat(f[m], g[k - 1])
        BY <2>2
      <3>4. Cat(Cat(f[m], g[k - 1]), piece(u[k])) = Cat(f[m], Cat(g[k - 1], piece(u[k])))
        BY <1>6, <1>7, <1>9, <3>1, ConcatAssociates
      <3>5. h[m + k] = Cat(f[m], g[k])
        BY <1>6, <3>2, <3>3, <3>4
      <3> QED
        BY <3>1, <3>5
    <2> HIDE DEF U
    <2> QED
      BY <1>1, <2>1, <2>2, IntervalInduction
  <1>11. h[m + n] = Cat(f[m], g[n])
    BY <1>1, <1>10
  <1> QED
    BY <1>2, <1>3, <1>4, <1>5, <1>11 DEF Letters, v, m, n

\* Characters that are neither white space nor letters with a lower case
\* are in a text when they are in its letters.
LEMMA LettersKeep ==
  ASSUME NEW t, IsText(t), NEW G, G \cap White = {},
         \A c \in DOMAIN Lower : c \notin G /\ Lower[c] \notin G
  PROVE  ToSet(Letters(t)) \cap G = ToSet(t) \cap G
  <1> DEFINE n == Len(t)
             until(k) == {t[i] : i \in 1 .. k} \cap G
  <1>1. n \in Nat /\ DOMAIN t = 1 .. n
    BY TextHasLength
  <1>2. PICK h : Spelling(t, Lower, h) /\ LettersBy(t, Lower) = h[n]
    BY LettersAreSpelled
  <1>3. /\ h[0] = <<>> /\ \A i \in 0 .. n : IsText(h[i])
        /\ \A i \in 1 .. n : h[i] = Cat(h[i - 1], Spelled(t[i], Lower))
    BY <1>2 DEF Spelling
  <1>4. ASSUME NEW c PROVE ToSet(Spelled(c, Lower)) \cap G = {c} \cap G
    <2>1. ToSet(<<>>) = {} /\ \A x : ToSet(<<x>>) = {x}
      BY DEF ToSet
    <2>2. CASE c \in White
      BY <2>1, <2>2 DEF Spelled
    <2>3. CASE c \notin White /\ c \in DOMAIN Lower
      BY <2>1, <2>3 DEF Spelled
    <2>4. CASE c \notin White /\ c \notin DOMAIN Lower
      BY <2>1, <2>4 DEF Spelled
    <2> QED
      BY <2>2, <2>3, <2>4
  <1> DEFINE T == {k \in 0 .. n : ToSet(h[k]) \cap G = until(k)}
  <1> HIDE DEF n
  <1>5. 0 \in T
    <2>1. ToSet(h[0]) = {}
      BY <1>3 DEF ToSet
    <2> QED
      BY <1>1, <2>1
  <1>6. ASSUME NEW k \in 1 .. n, k - 1 \in T PROVE k \in T
    <2>1. k \in 0 .. n /\ k - 1 \in 0 .. n
      BY <1>1
    <2>2. ToSet(h[k]) = ToSet(h[k - 1]) \cup ToSet(Spelled(t[k], Lower))
      BY <1>3, <2>1, SpelledIsText, ConcatCharacters
    <2>3. ToSet(h[k - 1]) \cap G = until(k - 1)
      BY <1>6
    <2>4. {t[i] : i \in 1 .. k} = {t[i] : i \in 1 .. (k - 1)} \cup {t[k]}
      <3>1. 1 .. k = (1 .. (k - 1)) \cup {k}
        BY <1>1
      <3> QED
        BY <3>1
    <2>5. ToSet(h[k]) \cap G = until(k)
      BY <1>4, <2>2, <2>3, <2>4
    <2> QED
      BY <2>1, <2>5
  <1>7. 0 .. n \subseteq T
    <2> HIDE DEF T
    <2> QED
      BY <1>1, <1>5, <1>6, IntervalInduction
  <1>8. ToSet(h[n]) \cap G = until(n)
    BY <1>1, <1>7
  <1>9. ToSet(t) = {t[i] : i \in 1 .. n}
    BY <1>1 DEF ToSet
  <1> QED
    BY <1>2, <1>8, <1>9 DEF Letters

\* Values that count as the same have the same letters.
LEMMA KeyTellsLetters ==
  ASSUME NEW t, NEW u, Key(t) = Key(u)
  PROVE  Letters(t) = Letters(u)
  <1>1. Key(t).letters = Letters(t)
    BY DEF Key, KeyBy, Letters
  <1>2. Key(u).letters = Letters(u)
    BY DEF Key, KeyBy, Letters
  <1> QED
    BY <1>1, <1>2

\* Texts whose parts have the same letters have the same letters.
LEMMA LettersStay ==
  ASSUME NEW t, NEW I, NEW a, NEW z, NEW w, NEW S, Builds(t, I, a, z, w, S),
         NEW u, NEW R, Builds(t, I, a, z, u, R), \A i \in I : Letters(w[i]) = Letters(u[i])
  PROVE  Letters(S[Len(t)]) = Letters(R[Len(t)])
  <1> DEFINE n == Len(t)
             K == {k \in 0 .. n : Letters(S[k]) = Letters(R[k])}
  <1>1. /\ IsText(t) /\ Places(t, I, a, z)
        /\ \A i \in I : IsText(w[i]) /\ IsText(u[i])
        /\ \A k \in 0 .. n : IsText(S[k]) /\ IsText(R[k])
        /\ S[0] = <<>> /\ R[0] = <<>>
    BY DEF Builds
  <1>2. /\ \A k \in 1 .. n : Outside(I, a, z, k) =>
             S[k] = Cat(S[k - 1], <<t[k]>>) /\ R[k] = Cat(R[k - 1], <<t[k]>>)
        /\ \A i \in I : /\ S[a[i] + 1] = Cat(S[a[i]], w[i])
                        /\ R[a[i] + 1] = Cat(R[a[i]], u[i])
                        /\ \A k \in (a[i] + 2) .. z[i] : S[k] = S[k - 1] /\ R[k] = R[k - 1]
    BY DEF Builds
  <1>3. n \in Nat
    BY <1>1, TextHasLength
  <1>4. 0 \in K
    BY <1>1, <1>3
  <1> HIDE DEF n
  <1>5. ASSUME NEW k \in 1 .. n, k - 1 \in K PROVE k \in K
    <2>1. k - 1 \in 0 .. n /\ k \in 0 .. n
      BY <1>3
    <2>2. Letters(S[k - 1]) = Letters(R[k - 1]) /\ IsText(S[k - 1]) /\ IsText(R[k - 1])
      BY <1>1, <1>5, <2>1
    <2>3. CASE Outside(I, a, z, k)
      <3>1. S[k] = Cat(S[k - 1], <<t[k]>>) /\ R[k] = Cat(R[k - 1], <<t[k]>>)
        BY <1>2, <2>3
      <3>2. IsText(<<t[k]>>)
        BY OneIsText
      <3>3. Letters(S[k]) = Cat(Letters(S[k - 1]), Letters(<<t[k]>>))
        BY <2>2, <3>1, <3>2, LettersOfConcat
      <3>4. Letters(R[k]) = Cat(Letters(R[k - 1]), Letters(<<t[k]>>))
        BY <2>2, <3>1, <3>2, LettersOfConcat
      <3> QED
        BY <2>1, <2>2, <3>3, <3>4
    <2>4. ASSUME NEW i \in I, a[i] < k, k <= z[i] PROVE Letters(S[k]) = Letters(R[k])
      <3>1. a[i] \in Nat /\ z[i] \in Nat
        BY <1>1 DEF Places
      <3>2. CASE k = a[i] + 1
        <4>1. k - 1 = a[i]
          BY <3>1, <3>2
        <4>2. S[k] = Cat(S[k - 1], w[i]) /\ R[k] = Cat(R[k - 1], u[i])
          BY <1>2, <3>2, <4>1
        <4>3. Letters(S[k]) = Cat(Letters(S[k - 1]), Letters(w[i]))
          BY <1>1, <2>2, <4>2, LettersOfConcat
        <4>4. Letters(R[k]) = Cat(Letters(R[k - 1]), Letters(u[i]))
          BY <1>1, <2>2, <4>2, LettersOfConcat
        <4> QED
          BY <2>2, <4>3, <4>4
      <3>3. CASE k # a[i] + 1
        <4>1. k \in (a[i] + 2) .. z[i]
          BY <2>4, <3>1, <3>3
        <4>2. S[k] = S[k - 1] /\ R[k] = R[k - 1]
          BY <1>2, <4>1
        <4> QED
          BY <2>2, <4>2
      <3> QED
        BY <3>2, <3>3
    <2> QED
      BY <2>1, <2>3, <2>4 DEF Outside
  <1>6. 0 .. n \subseteq K
    <2> HIDE DEF K
    <2> QED
      BY <1>3, <1>4, <1>5, IntervalInduction
  <1> QED
    BY <1>3, <1>6 DEF n

\* In t the places I have v, and with w in all of them t is u.
Stands(t, I, a, z, v, w, u) ==
  /\ IsText(t) /\ Places(t, I, a, z)
  /\ \A i \in I : /\ IsText(v[i]) /\ Len(v[i]) > 0 /\ IsText(w[i]) /\ Len(w[i]) > 0
                  /\ Slice(t, a[i], z[i]) = v[i]
  /\ u = Splice(t, Changes(I, a, z, w))

\* Characters G: the places D have none, every other begins with one and has
\* another character behind it.
Tagged(v, I, G, D) ==
  \A i \in I : IF i \in D THEN ToSet(v[i]) \cap G = {}
               ELSE Len(v[i]) = 2 /\ v[i][1] \in G /\ v[i][2] \notin G

LEMMA PlacesHaveLength ==
  ASSUME NEW t, NEW I, NEW a, NEW z, NEW v, NEW w, NEW u, Stands(t, I, a, z, v, w, u)
  PROVE  \A i \in I : /\ a[i] \in Nat /\ z[i] \in Nat /\ a[i] < z[i] /\ z[i] <= Len(t)
                      /\ Len(v[i]) = z[i] - a[i]
                      /\ \A k \in 1 .. (z[i] - a[i]) : v[i][k] = t[a[i] + k]
  <1> SUFFICES ASSUME NEW i \in I
               PROVE  /\ a[i] \in Nat /\ z[i] \in Nat /\ a[i] < z[i] /\ z[i] <= Len(t)
                      /\ Len(v[i]) = z[i] - a[i]
                      /\ \A k \in 1 .. (z[i] - a[i]) : v[i][k] = t[a[i] + k]
    OBVIOUS
  <1>1. a[i] \in Nat /\ z[i] \in Nat /\ a[i] < z[i] /\ z[i] <= Len(t)
    BY DEF Stands, Places
  <1>2. a[i] <= z[i]
    BY <1>1
  <1>3. IsText(t) /\ Slice(t, a[i], z[i]) = v[i]
    BY DEF Stands
  <1> DEFINE x == Slice(t, a[i], z[i])
  <1>4. Len(x) = z[i] - a[i] /\ \A k \in 1 .. (z[i] - a[i]) : x[k] = t[a[i] + k]
    BY <1>1, <1>2, <1>3, SliceParts
  <1>5. x = v[i]
    BY <1>3
  <1> HIDE DEF x
  <1> QED
    BY <1>1, <1>4, <1>5

\* If u has no character of G, neither has t outside of its places, so those
\* of G show where the places are.
LEMMA TagsShowPlaces ==
  ASSUME NEW t, NEW I, NEW a, NEW z, NEW v, NEW w, NEW u, Stands(t, I, a, z, v, w, u),
         NEW G, NEW D, Tagged(v, I, G, D), ToSet(u) \cap G = {}
  PROVE  \A k \in 1 .. Len(t) : t[k] \in G => \E i \in I : i \notin D /\ a[i] = k - 1
  <1> SUFFICES ASSUME NEW k \in 1 .. Len(t), t[k] \in G
               PROVE  \E i \in I : i \notin D /\ a[i] = k - 1
    OBVIOUS
  <1>1. /\ IsText(t) /\ Places(t, I, a, z) /\ u = Splice(t, Changes(I, a, z, w))
        /\ \A i \in I : IsText(w[i]) /\ Len(w[i]) > 0
    BY DEF Stands
  <1>2. PICK S : Builds(t, I, a, z, w, S) /\ u = S[Len(t)]
    BY <1>1, SpliceIsBuilt
  <1>3. ~Outside(I, a, z, k)
    <2>1. Outside(I, a, z, k) => t[k] \in ToSet(u)
      BY <1>1, <1>2, CharactersStay
    <2> QED
      BY <2>1
  <1>4. PICK i \in I : a[i] < k /\ k <= z[i]
    BY <1>3 DEF Outside
  <1>5. /\ a[i] \in Nat /\ z[i] \in Nat /\ a[i] < z[i] /\ z[i] <= Len(t)
        /\ Len(v[i]) = z[i] - a[i]
        /\ \A x \in 1 .. (z[i] - a[i]) : v[i][x] = t[a[i] + x]
    BY PlacesHaveLength
  <1>6. k - a[i] \in 1 .. (z[i] - a[i]) /\ a[i] + (k - a[i]) = k
    BY <1>4, <1>5
  <1>7. v[i][k - a[i]] = t[k]
    BY <1>5, <1>6
  <1>8. IsText(v[i])
    BY DEF Stands
  <1>9. i \notin D
    <2>1. t[k] \in ToSet(v[i])
      <3>1. k - a[i] \in DOMAIN v[i]
        BY <1>5, <1>6, <1>8, TextHasLength
      <3> QED
        BY <1>7, <3>1 DEF ToSet
    <2> QED
      BY <2>1 DEF Tagged
  <1>10. Len(v[i]) = 2 /\ v[i][2] \notin G
    BY <1>9 DEF Tagged
  <1>11. k - a[i] \in 1 .. 2
    BY <1>5, <1>6, <1>10
  <1>12. k - a[i] # 2
    BY <1>7, <1>10
  <1>13. a[i] = k - 1
    BY <1>5, <1>11, <1>12
  <1> QED
    BY <1>9, <1>13

\* Where a value r with a character of G occurs: in the places that have it.
LEMMA TaggedOccurrences ==
  ASSUME NEW t, NEW I, NEW a, NEW z, NEW v, NEW w, NEW u, Stands(t, I, a, z, v, w, u),
         NEW G, NEW D, Tagged(v, I, G, D), ToSet(u) \cap G = {},
         NEW r, IsText(r), Len(r) = 2, r[1] \in G,
         NEW J \in SUBSET I, \A i \in I : i \in J <=> v[i] = r /\ i \notin D
  PROVE  /\ BeginAt(J, a, Occurrences(t, r))
         /\ \A i \in J : z[i] = a[i] + 2 /\ v[i] = r
  <1> DEFINE F == Occurrences(t, r)
  <1>1. IsText(t) /\ Len(t) \in Nat
    BY TextHasLength DEF Stands
  <1>2. \A k \in 1 .. Len(t) : t[k] \in G => \E i \in I : i \notin D /\ a[i] = k - 1
    BY TagsShowPlaces
  <1>3. \A i \in I : /\ a[i] \in Nat /\ z[i] \in Nat /\ a[i] < z[i] /\ z[i] <= Len(t)
                     /\ Len(v[i]) = z[i] - a[i]
    BY PlacesHaveLength
  <1>4. \A i, j \in I : i = j \/ z[i] <= a[j] \/ z[j] <= a[i]
    BY DEF Stands, Places
  <1>5. ASSUME NEW i \in I, i \notin D PROVE z[i] = a[i] + 2
    <2>1. a[i] \in Nat /\ z[i] \in Nat /\ Len(v[i]) = z[i] - a[i]
      BY <1>3
    <2>2. Len(v[i]) = 2
      BY <1>5 DEF Tagged
    <2>3. z[i] - a[i] = 2
      BY <2>1, <2>2
    <2> QED
      BY ONLY <2>1, <2>3
  <1>6. \A i \in J : z[i] = a[i] + 2 /\ v[i] = r /\ i \in I
    BY <1>5
  <1>7. /\ F \in SUBSET Matches(t, r)
        /\ \A p \in Matches(t, r) : p \in Nat /\ p + 2 <= Len(t) /\ Slice(t, p, p + 2) = r
        /\ \A p \in Matches(t, r) : p \in F \/ \E q \in F : q < p /\ p < q + 2
    <2> DEFINE n == Len(r)
    <2>1. /\ F \in SUBSET Matches(t, r) /\ IsFiniteSet(F)
          /\ \A p \in Matches(t, r) : p \in Nat /\ p + Len(r) <= Len(t) /\ Slice(t, p, p + Len(r)) = r
          /\ \A p, q \in F : p = q \/ p + Len(r) <= q \/ q + Len(r) <= p
          /\ \A p \in Matches(t, r) : p \in F \/ \E q \in F : q < p /\ p < q + Len(r)
      <3>1. IsText(t)
        BY <1>1
      <3>2. IsText(r)
        OBVIOUS
      <3> QED
        BY ONLY <3>1, <3>2, OccurrencesArePlaces
    <2>2. n = 2
      OBVIOUS
    <2> HIDE DEF n, F
    <2> QED
      BY <2>1, <2>2
  <1>8. ASSUME NEW p \in Matches(t, r) PROVE \E i \in J : a[i] = p
    <2>1. p \in Nat /\ p + 2 <= Len(t) /\ Slice(t, p, p + 2) = r
      BY <1>7
    <2>2. p <= p + 2 /\ p + 2 \in Nat /\ 1 \in 1 .. ((p + 2) - p) /\ p + 1 \in 1 .. Len(t)
      BY <1>1, <2>1
    <2>3. r[1] = t[p + 1]
      <3> DEFINE x == Slice(t, p, p + 2)
      <3>1. \A k \in 1 .. ((p + 2) - p) : x[k] = t[p + k]
        <4> DEFINE q == p + 2
        <4>1. q \in Nat /\ p <= q /\ q <= Len(t)
          BY <2>1, <2>2
        <4> HIDE DEF q
        <4>2. \A k \in 1 .. (q - p) : Slice(t, p, q)[k] = t[p + k]
          BY <1>1, <2>1, <4>1, SliceParts
        <4> QED
          BY <4>2 DEF q
      <3>2. x[1] = t[p + 1]
        BY <2>2, <3>1
      <3> QED
        BY <2>1, <3>2
    <2>4. PICK i \in I : i \notin D /\ a[i] = (p + 1) - 1
      BY <1>2, <2>2, <2>3
    <2>5. a[i] = p
      BY <2>1, <2>4
    <2>6. v[i] = Slice(t, a[i], z[i]) /\ z[i] = a[i] + 2
      BY <1>5, <2>4 DEF Stands
    <2>7. v[i] = r
      BY <2>1, <2>5, <2>6
    <2> QED
      BY <2>4, <2>5, <2>7
  <1>9. ASSUME NEW i \in J PROVE a[i] \in Matches(t, r)
    <2>1. /\ a[i] \in Nat /\ z[i] = a[i] + 2 /\ z[i] <= Len(t) /\ v[i] = r
          /\ Slice(t, a[i], z[i]) = v[i]
      BY <1>3, <1>6 DEF Stands
    <2>2. a[i] \in 0 .. (Len(t) - 2)
      BY <1>1, <2>1
    <2> QED
      BY <2>1, <2>2 DEF Matches
  <1> HIDE DEF F
  <1>10. ASSUME NEW i \in J PROVE a[i] \in F
    <2>1. a[i] \in Matches(t, r)
      BY <1>9
    <2>2. ASSUME NEW q \in F, q < a[i], a[i] < q + 2 PROVE FALSE
      <3>1. PICK j \in J : a[j] = q
        BY <1>7, <1>8
      <3>2. i \in I /\ j \in I /\ z[j] = a[j] + 2 /\ z[i] = a[i] + 2
        BY <1>6
      <3>3. a[i] \in Nat /\ a[j] \in Nat
        BY <1>3, <3>2
      <3>4. i = j \/ z[i] <= a[j] \/ z[j] <= a[i]
        BY <1>4, <3>2
      <3> QED
        BY <2>2, <3>1, <3>2, <3>3, <3>4
    <2> QED
      BY <1>7, <2>1, <2>2
  <1>11. {a[i] : i \in J} = F
    BY <1>7, <1>8, <1>10
  <1> QED
    BY <1>6, <1>11 DEF BeginAt, F

\* Replacing the value r of the places J by o leaves all places standing.
LEMMA StandsAfter ==
  ASSUME NEW t, NEW I, NEW a, NEW z, NEW v, NEW w, NEW u, Stands(t, I, a, z, v, w, u),
         NEW r, NEW o, IsText(o), Len(o) > 0,
         NEW J \in SUBSET I, BeginAt(J, a, Occurrences(t, r)),
         \A i \in J : z[i] = a[i] + Len(r),
         NEW x, \A i \in I : x[i] = IF i \in J THEN o ELSE v[i]
  PROVE  \E b, c : Stands(Substitute(t, r, o), I, b, c, x, w, u)
  <1>1. /\ IsText(t) /\ Places(t, I, a, z)
        /\ \A i \in I : /\ IsText(v[i]) /\ Len(v[i]) > 0 /\ IsText(w[i]) /\ Len(w[i]) > 0
                        /\ Slice(t, a[i], z[i]) = v[i]
        /\ u = Splice(t, Changes(I, a, z, w))
    BY DEF Stands
  <1>2. \A i \in I : IsText(x[i]) /\ Len(x[i]) > 0
    BY <1>1
  <1>3. Substitute(t, r, o) = Splice(t, Changes(J, a, z, x))
    <2>1. {a[i] : i \in J} = Occurrences(t, r)
      BY DEF BeginAt
    <2>2. \A i \in J : z[i] = a[i] + Len(r) /\ x[i] = o
      OBVIOUS
    <2>3. Changes(J, a, z, x) =
            {[start |-> p, end |-> p + Len(r), with |-> o] : p \in Occurrences(t, r)}
      BY <2>1, <2>2 DEF Changes
    <2> QED
      BY <2>3 DEF Substitute
  <1>4. Splice(t, Changes(I, a, z, x)) = Splice(t, Changes(J, a, z, x))
    <2>1. \A i \in I \ J : x[i] = Slice(t, a[i], z[i])
      BY <1>1
    <2> QED
      BY <1>1, <1>2, <2>1, PlainPlacesStay
  <1>5. PICK S : Builds(t, I, a, z, x, S) /\ Splice(t, Changes(I, a, z, x)) = S[Len(t)]
    BY <1>1, <1>2, SpliceIsBuilt
  <1> DEFINE b == [i \in I |-> Len(S[a[i]])]
             c == [i \in I |-> Len(S[z[i]])]
  <1>6. Moved(I, a, z, S, b, c)
    BY DEF Moved
  <1> HIDE DEF b, c
  <1>7. /\ IsText(S[Len(t)]) /\ Places(S[Len(t)], I, b, c)
        /\ \A i \in I : Slice(S[Len(t)], b[i], c[i]) = x[i]
    BY <1>2, <1>5, <1>6, PlacesMove
  <1>8. \A i \in I : IsText(w[i])
    BY <1>1
  <1>9. Splice(S[Len(t)], Changes(I, b, c, w)) = Splice(t, Changes(I, a, z, w))
    BY <1>2, <1>5, <1>6, <1>8, SpliceTwice
  <1>10. Stands(S[Len(t)], I, b, c, x, w, u)
    BY <1>1, <1>2, <1>7, <1>9 DEF Stands
  <1>11. Substitute(t, r, o) = S[Len(t)]
    BY <1>3, <1>4, <1>5
  <1> QED
    BY <1>10, <1>11

\* In the end every place has what it gets.
LEMMA StandsInTheEnd ==
  ASSUME NEW t, NEW I, NEW a, NEW z, NEW v, NEW w, NEW u, Stands(t, I, a, z, v, w, u),
         \A i \in I : v[i] = w[i]
  PROVE  t = u
  <1>1. IsText(t) /\ Places(t, I, a, z) /\ u = Splice(t, Changes(I, a, z, w))
    BY DEF Stands
  <1>2. \A i \in I : w[i] = Slice(t, a[i], z[i])
    BY DEF Stands
  <1>3. Splice(t, Changes(I, a, z, w)) = t
    BY <1>1, <1>2, PlainPlacesAlone
  <1> QED
    BY <1>1, <1>3

\* g[k] is t after the first k of n values r have been replaced by o, in turn.
Replaces(g, t, n, r, o) ==
  g[0] = t /\ \A k \in 1 .. n : g[k] = Substitute(g[k - 1], r[k], o[k])

\* So does the recursion of ReplacedInTurn().
InTurn(g, t, n, r, o) ==
  g = [k \in 0 .. n |-> IF k = 0 THEN t ELSE Substitute(g[k - 1], r[k], o[k])]

\* That recursion is defined.
LEMMA ReplacingIsDefined ==
  ASSUME NEW t, NEW n \in Nat, NEW r, NEW o
  PROVE  \E g : InTurn(g, t, n, r, o)
  <1> DEFINE Value(g, k) == IF k = 0 THEN t ELSE Substitute(g[k - 1], r[k], o[k])
             K == {m \in 0 .. n : \E g : g = [k \in 0 .. m |-> Value(g, k)]}
  <1>1. 0 \in K
    <2> DEFINE g == [k \in 0 .. 0 |-> t]
    <2>1. g = [k \in 0 .. 0 |-> Value(g, k)]
      OBVIOUS
    <2> HIDE DEF g, Value
    <2> QED
      BY <2>1
  <1>2. ASSUME NEW m \in 1 .. n, m - 1 \in K PROVE m \in K
    <2> HIDE DEF Value
    <2>1. PICK g : g = [k \in 0 .. (m - 1) |-> Value(g, k)]
      BY <1>2
    <2> DEFINE h == [k \in 0 .. m |-> IF k = m THEN Value(g, m) ELSE g[k]]
    <2>2. m \in 0 .. n /\ m # 0 /\ m - 1 \in 0 .. (m - 1)
      OBVIOUS
    <2>3. \A k \in 0 .. m : h[k] = IF k = m THEN Value(g, m) ELSE g[k]
      OBVIOUS
    <2>4. \A k \in 0 .. (m - 1) : h[k] = g[k] /\ g[k] = Value(g, k)
      <3>1. \A k \in 0 .. (m - 1) : k \in 0 .. m /\ k # m
        OBVIOUS
      <3>2. \A k \in 0 .. (m - 1) : g[k] = Value(g, k)
        BY <2>1
      <3> HIDE DEF h
      <3> QED
        BY <2>3, <3>1, <3>2
    <2>5. DOMAIN h = 0 .. m /\ h = [k \in 0 .. m |-> h[k]]
      OBVIOUS
    <2> HIDE DEF h
    <2>6. ASSUME NEW k \in 0 .. m PROVE h[k] = Value(h, k)
      <3>1. CASE k = 0
        <4>1. k \in 0 .. (m - 1)
          BY <2>2, <3>1
        <4> QED
          BY <2>4, <3>1, <4>1 DEF Value
      <3>2. CASE k # 0
        <4>1. k - 1 \in 0 .. (m - 1)
          BY <3>2
        <4>2. h[k - 1] = g[k - 1]
          BY <2>4, <4>1
        <4>3. Value(h, k) = Value(g, k)
          BY <3>2, <4>2 DEF Value
        <4>4. CASE k = m
          BY <2>3, <4>3, <4>4
        <4>5. CASE k # m
          <5>1. k \in 0 .. (m - 1)
            BY <4>5
          <5> QED
            BY <2>4, <4>3, <5>1
        <4> QED
          BY <4>4, <4>5
      <3> QED
        BY <3>1, <3>2
    <2>7. h = [k \in 0 .. m |-> Value(h, k)]
      BY <2>5, <2>6
    <2> QED
      BY <2>2, <2>7
  <1>3. 0 .. n \subseteq K
    <2> HIDE DEF K
    <2> QED
      BY <1>1, <1>2, IntervalInduction
  <1>4. n \in K
    BY <1>3
  <1> QED
    BY <1>4 DEF InTurn

LEMMA ReplacingInTurn ==
  ASSUME NEW t, NEW r, Len(r) \in Nat, NEW o
  PROVE  \E g : Replaces(g, t, Len(r), r, o) /\ ReplacedInTurn(t, r, o) = g[Len(r)]
  <1> DEFINE n == Len(r)
             after == CHOOSE g : g = [k \in 0 .. n |-> IF k = 0 THEN t ELSE Substitute(g[k - 1], r[k], o[k])]
  <1>1. ReplacedInTurn(t, r, o) = after[n]
    BY DEF ReplacedInTurn
  <1>2. after = CHOOSE g : InTurn(g, t, n, r, o)
    BY DEF InTurn
  <1>3. n \in Nat
    OBVIOUS
  <1> HIDE DEF after, n
  <1>4. \E g : InTurn(g, t, n, r, o)
    BY <1>3, ReplacingIsDefined
  <1>5. InTurn(after, t, n, r, o)
    BY <1>2, <1>4
  <1>6. after = [k \in 0 .. n |-> IF k = 0 THEN t ELSE Substitute(after[k - 1], r[k], o[k])]
    BY <1>5 DEF InTurn
  <1>7. Replaces(after, t, n, r, o)
    <2>1. \A k \in 1 .. n : k \in 0 .. n /\ k # 0
      BY <1>3
    <2>2. 0 \in 0 .. n
      BY <1>3
    <2> QED
      BY <1>6, <2>1, <2>2 DEF Replaces
  <1> QED
    BY <1>1, <1>7 DEF n

\* The values v are known by characters G: each has one, followed by another.
AllTagged(v, I, G) == \A i \in I : Len(v[i]) = 2 /\ v[i][1] \in G /\ v[i][2] \notin G

\* Each of them is one of the n values r, and is to become what that one does.
AllListed(v, w, I, n, r, o, G) ==
  /\ \A k \in 1 .. n : /\ IsText(r[k]) /\ Len(r[k]) = 2 /\ r[k][1] \in G
                       /\ IsText(o[k]) /\ Len(o[k]) > 0
                       /\ \A i \in I : v[i] = r[k] => w[i] = o[k]
  /\ \A i \in I : \E k \in 1 .. n : v[i] = r[k]

\* Values that show where they stand, as no other character of the text is like
\* theirs: replaced one after the other, each where it occurs, they make of the
\* text what it is with all of them replaced at once.
LEMMA OneAfterTheOther ==
  ASSUME NEW t, NEW I, NEW a, NEW z, NEW v, NEW w, NEW u, Stands(t, I, a, z, v, w, u),
         NEW G, ToSet(u) \cap G = {}, AllTagged(v, I, G),
         NEW n \in Nat, NEW r, NEW o, NEW g, Replaces(g, t, n, r, o),
         AllListed(v, w, I, n, r, o, G)
  PROVE  g[n] = u
  <1> DEFINE D(k) == {i \in I : \E j \in 1 .. k : v[i] = r[j]}
             x(k) == [i \in I |-> IF i \in D(k) THEN w[i] ELSE v[i]]
             Good(k) == \E b, c : Stands(g[k], I, b, c, x(k), w, u)
             K == {k \in 0 .. n : Good(k)}
  <1>1. g[0] = t /\ \A k \in 1 .. n : g[k] = Substitute(g[k - 1], r[k], o[k])
    BY DEF Replaces
  <1>2. \A i \in I : ToSet(w[i]) \cap G = {}
    <2>1. IsText(t) /\ Places(t, I, a, z) /\ u = Splice(t, Changes(I, a, z, w))
      BY DEF Stands
    <2>2. \A i \in I : IsText(w[i])
      BY DEF Stands
    <2>3. \A i \in I : Len(w[i]) > 0
      BY DEF Stands
    <2>4. PICK S : Builds(t, I, a, z, w, S) /\ u = S[Len(t)]
      BY <2>1, <2>2, SpliceIsBuilt
    <2>5. \A i \in I : ToSet(w[i]) \subseteq ToSet(S[Len(t)])
      BY <2>3, <2>4, CharactersStay
    <2> QED
      BY <2>4, <2>5
  <1>3. \A i \in D(n) : x(n)[i] = w[i]
    OBVIOUS
  <1>4. D(n) = I
    BY DEF AllListed
  <1>5. 0 \in K
    <2>1. \A i \in I : x(0)[i] = v[i]
      OBVIOUS
    <2> DEFINE y == x(0)
    <2>2. \A i \in I : y[i] = v[i]
      BY <2>1
    <2> HIDE DEF x, y
    <2>3. Stands(g[0], I, a, z, y, w, u)
      BY <1>1, <2>2 DEF Stands
    <2> QED
      BY <2>3 DEF y
  <1>6. ASSUME NEW k \in 1 .. n, k - 1 \in K PROVE k \in K
    <2> DEFINE m == k - 1
               C == D(m)
               y == x(m)
               J == {i \in I : v[i] = r[k] /\ i \notin C}
    <2>1. m \in 0 .. n /\ k \in 0 .. n /\ \A j : j \in 1 .. k <=> j \in 1 .. m \/ j = k
      OBVIOUS
    <2>2. PICK b, c : Stands(g[m], I, b, c, y, w, u)
      BY <1>6
    <2>3. \A i \in I : y[i] = IF i \in C THEN w[i] ELSE v[i]
      OBVIOUS
    <2>4. /\ IsText(r[k]) /\ Len(r[k]) = 2 /\ r[k][1] \in G
          /\ IsText(o[k]) /\ Len(o[k]) > 0
          /\ \A i \in I : v[i] = r[k] => w[i] = o[k]
      BY DEF AllListed
    <2>5. \A i \in I : i \in D(k) <=> i \in C \/ v[i] = r[k]
      BY <2>1
    <2>6. \A i \in I : x(k)[i] = IF i \in D(k) THEN w[i] ELSE v[i]
      OBVIOUS
    <2>7. g[k] = Substitute(g[m], r[k], o[k])
      BY <1>1
    <2>8. J \in SUBSET I /\ \A i \in I : i \in J <=> v[i] = r[k] /\ i \notin C
      OBVIOUS
    <2> DEFINE X == x(k)
    <2>9. \A i \in I : X[i] = IF i \in J THEN o[k] ELSE y[i]
      <3> HIDE DEF C, J, X, y
      <3>1. \A i \in I : X[i] = IF i \in D(k) THEN w[i] ELSE v[i]
        BY <2>6 DEF X
      <3> HIDE DEF D
      <3> QED
        BY <2>3, <2>4, <2>5, <2>8, <3>1
    <2> HIDE DEF D, x, C, J, X, y, m
    <2>10. Tagged(y, I, G, C)
      BY <1>2, <2>3 DEF Tagged, AllTagged
    <2>11. \A i \in I : i \in J <=> y[i] = r[k] /\ i \notin C
      BY <2>3, <2>8
    <2> DEFINE p == r[k]
               q == o[k]
    <2>12. IsText(p) /\ Len(p) = 2 /\ p[1] \in G /\ IsText(q) /\ Len(q) > 0
      BY <2>4
    <2>13. \A i \in I : i \in J <=> y[i] = p /\ i \notin C
      BY <2>11
    <2>14. \A i \in I : X[i] = IF i \in J THEN q ELSE y[i]
      BY <2>9
    <2> HIDE DEF p, q
    <2>15. /\ BeginAt(J, b, Occurrences(g[m], p))
           /\ \A i \in J : c[i] = b[i] + 2 /\ y[i] = p
      <3>1. ToSet(u) \cap G = {}
        OBVIOUS
      <3>2. J \in SUBSET I
        BY <2>8
      <3>3. IsText(p) /\ Len(p) = 2 /\ p[1] \in G
        BY <2>12
      <3> QED
        BY ONLY <2>2, <2>10, <2>13, <3>1, <3>2, <3>3, TaggedOccurrences
    <2>16. \E d, e : Stands(Substitute(g[m], p, q), I, d, e, X, w, u)
      <3>1. \A i \in J : c[i] = b[i] + Len(p)
        BY <2>12, <2>15
      <3>2. BeginAt(J, b, Occurrences(g[m], p))
        BY <2>15
      <3>3. IsText(q) /\ Len(q) > 0
        BY <2>12
      <3>4. J \in SUBSET I
        BY <2>8
      <3> QED
        BY ONLY <2>2, <2>14, <3>1, <3>2, <3>3, <3>4, StandsAfter
    <2> QED
      BY <2>1, <2>7, <2>16 DEF p, q, X
  <1>7. n \in K
    <2>1. 0 .. n \subseteq K
      <3> HIDE DEF K
      <3> QED
        BY <1>5, <1>6, IntervalInduction
    <2>2. n \in 0 .. n
      OBVIOUS
    <2> HIDE DEF K
    <2> QED
      BY <2>1, <2>2
  <1>8. PICK b, c : Stands(g[n], I, b, c, x(n), w, u)
    BY <1>7
  <1>9. \A i \in I : x(n)[i] = w[i]
    BY <1>3, <1>4
  <1> HIDE DEF x
  <1> QED
    BY <1>8, <1>9, StandsInTheEnd

================================================================================
