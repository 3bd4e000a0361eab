---------------------- MODULE EventProcessorLedgerProofs ----------------------
(***************************************************************************)
(* Proofs of the event processor's ledger properties: balances, complete   *)
(* blocks and transfers, for every set of messages and workers and every   *)
(* value of the bounds.  The first two sections are about the operators    *)
(* the ledger is stated with: the joined sequences and the sums.           *)
(***************************************************************************)
EXTENDS EventProcessorLedger, EventProcessorProofs, FiniteSetTheorems, WellFoundedInduction

---------------------------------------------------------------------------
(* Joined sequences                                                        *)

\* Induction on the natural numbers, for a set in place of a predicate.
LEMMA NatInduct ==
    ASSUME NEW T \in SUBSET Nat, 0 \in T, \A n \in T : n + 1 \in T
    PROVE  T = Nat
<1>. SUFFICES ASSUME Nat \ T # {} PROVE FALSE
  OBVIOUS
<1>1. PICK x \in Nat \ T : \A y \in Nat \ T : <<y, x>> \notin OpToRel(<, Nat)
  BY WFMin, NatLessThanWellFounded
<1>2. \A y \in Nat \ T : ~(y < x)
  BY <1>1 DEF OpToRel
<1>3. x \in Nat /\ x # 0 /\ x \notin T
  BY <1>1
<1>4. x - 1 \in Nat /\ x - 1 < x /\ (x - 1) + 1 = x
  BY <1>3
<1>5. x - 1 \in T
  BY <1>2, <1>4
<1>6. (x - 1) + 1 \in T
  BY <1>5
<1>. QED BY <1>3, <1>4, <1>6

\* An initial part of the recursion in Joined.
Joins(s, n, g) == /\ DOMAIN g = 0 .. n
                  /\ g[0] = << >>
                  /\ \A k \in 0 .. n : k # 0 => g[k] = g[k - 1] \o s[k]

LEMMA JoinsExist == ASSUME NEW s, NEW n \in Nat PROVE \E g : Joins(s, n, g)
<1>. DEFINE T == {k \in Nat : \E g : Joins(s, k, g)}
<1>1. 0 \in T
  <2>1. Joins(s, 0, [k \in 0 .. 0 |-> << >>])
    BY DEF Joins
  <2>. QED BY <2>1
<1>2. ASSUME NEW k \in T PROVE k + 1 \in T
  <2>1. PICK g : Joins(s, k, g)
    OBVIOUS
  <2>. DEFINE h == [i \in 0 .. k + 1 |-> IF i = k + 1 THEN g[k] \o s[k + 1] ELSE g[i]]
  <2>2. DOMAIN h = 0 .. k + 1 /\ h[0] = << >>
    BY <2>1 DEF Joins
  <2>3. ASSUME NEW i \in 0 .. k + 1, i # 0 PROVE h[i] = h[i - 1] \o s[i]
    <3>1. CASE i = k + 1
      BY <3>1
    <3>2. CASE i # k + 1
      <4>1. i \in 0 .. k /\ i - 1 \in 0 .. k + 1 /\ i - 1 # k + 1
        BY <2>3, <3>2
      <4>2. g[i] = g[i - 1] \o s[i]
        BY <2>1, <2>3, <4>1 DEF Joins
      <4>3. h[i] = g[i] /\ h[i - 1] = g[i - 1]
        BY <3>2, <4>1
      <4>. QED BY <4>2, <4>3
    <3>. QED BY <3>1, <3>2
  <2>4. Joins(s, k + 1, h)
    <3>. HIDE DEF h
    <3>. QED BY <2>2, <2>3 DEF Joins
  <2>. HIDE DEF h
  <2>. QED BY <2>4
<1>3. T = Nat
  <2>. HIDE DEF T
  <2>1. T \in SUBSET Nat
    BY DEF T
  <2>. QED BY <1>1, <1>2, <2>1, NatInduct
<1>. QED BY <1>3

LEMMA JoinsAgree ==
    ASSUME NEW s, NEW m \in Nat, NEW n \in Nat, NEW g, NEW h, Joins(s, m, g), Joins(s, n, h),
           NEW k \in Nat, k <= m, k <= n
    PROVE  g[k] = h[k]
<1>. DEFINE T == {i \in Nat : i <= m /\ i <= n => g[i] = h[i]}
<1>1. 0 \in T
  BY DEF Joins
<1>2. ASSUME NEW i \in T PROVE i + 1 \in T
  <2>. SUFFICES ASSUME i + 1 <= m, i + 1 <= n PROVE g[i + 1] = h[i + 1]
    OBVIOUS
  <2>1. i + 1 \in 0 .. m /\ i + 1 \in 0 .. n /\ i + 1 # 0 /\ (i + 1) - 1 = i
    OBVIOUS
  <2>2. g[i] = h[i]
    OBVIOUS
  <2>3. g[i + 1] = g[(i + 1) - 1] \o s[i + 1]
    BY <2>1 DEF Joins
  <2>4. h[i + 1] = h[(i + 1) - 1] \o s[i + 1]
    BY <2>1 DEF Joins
  <2>. QED BY <2>1, <2>2, <2>3, <2>4
<1>3. T = Nat
  <2>. HIDE DEF T
  <2>1. T \in SUBSET Nat
    BY DEF T
  <2>. QED BY <1>1, <1>2, <2>1, NatInduct
<1>. QED BY <1>3

LEMMA JoinedUnfolds ==
    ASSUME NEW s
    PROVE  /\ Joined(s, 0) = << >>
           /\ \A n \in Nat : Joined(s, n + 1) = Joined(s, n) \o s[n + 1]
<1>. DEFINE F == CHOOSE f : f = [k \in Nat |-> IF k = 0 THEN << >> ELSE f[k - 1] \o s[k]]
            Part(n) == CHOOSE g : Joins(s, n, g)
            W == [n \in Nat |-> Part(n)[n]]
<1>1. ASSUME NEW n \in Nat PROVE Joins(s, n, Part(n))
  BY JoinsExist
<1>2. W = [k \in Nat |-> IF k = 0 THEN << >> ELSE W[k - 1] \o s[k]]
  <2>1. ASSUME NEW k \in Nat
        PROVE  W[k] = IF k = 0 THEN << >> ELSE W[k - 1] \o s[k]
    <3>. HIDE DEF Part
    <3>1. CASE k = 0
      BY <1>1, <3>1 DEF Joins
    <3>2. CASE k # 0
      <4>1. k - 1 \in Nat /\ k \in 0 .. k /\ k - 1 <= k /\ k - 1 <= k - 1
        BY <3>2
      <4>2. Part(k)[k] = Part(k)[k - 1] \o s[k]
        BY <1>1, <3>2, <4>1 DEF Joins
      <4>3. Part(k)[k - 1] = Part(k - 1)[k - 1]
        BY <1>1, <4>1, JoinsAgree
      <4>. QED BY <3>2, <4>1, <4>2, <4>3
    <3>. QED BY <3>1, <3>2
  <2>. HIDE DEF Part
  <2>. QED BY <2>1
<1>3. F = [k \in Nat |-> IF k = 0 THEN << >> ELSE F[k - 1] \o s[k]]
  <2>. HIDE DEF W
  <2>. QED BY <1>2
<1>4. \A k : Joined(s, k) = F[k]
  BY DEF Joined
<1>. HIDE DEF F
<1>5. F[0] = << >>
  BY <1>3, 0 \in Nat
<1>6. ASSUME NEW n \in Nat PROVE F[n + 1] = F[n] \o s[n + 1]
  <2>1. n + 1 \in Nat /\ n + 1 # 0 /\ (n + 1) - 1 = n
    OBVIOUS
  <2>. QED BY <1>3, <2>1
<1>. QED BY <1>4, <1>5, <1>6

LEMMA WithinNext ==
    ASSUME NEW a \in Nat, NEW b \in Nat, NEW c \in Nat, NEW d \in Nat, NEW j \in 1 .. b,
           c = a + b, c <= d
    PROVE  a + j \in 1 .. d
OBVIOUS

\* Where the elements of the joined sequences are.
SequencesOf(X, s, n) == \A k \in 1 .. n : s[k] \in Seq(X)
Placed(X, s, n) ==
    /\ \A k \in 0 .. n : /\ Joined(s, k) \in Seq(X)
                         /\ Len(Joined(s, k)) <= Len(Joined(s, n))
    /\ \A k \in 1 .. n :
         /\ Len(Joined(s, k)) = Len(Joined(s, k - 1)) + Len(s[k])
         /\ \A j \in 1 .. Len(s[k]) :
              Joined(s, n)[Len(Joined(s, k - 1)) + j] = s[k][j]

LEMMA JoinedPlaces ==
    ASSUME NEW X, NEW s, NEW n \in Nat, SequencesOf(X, s, n)
    PROVE  Placed(X, s, n)
<1>. DEFINE Shape(m) == \A k \in 0 .. m : /\ Joined(s, k) \in Seq(X)
                                          /\ Len(Joined(s, k)) <= Len(Joined(s, m))
            Place(m, k) == /\ Len(Joined(s, k)) = Len(Joined(s, k - 1)) + Len(s[k])
                           /\ \A j \in 1 .. Len(s[k]) :
                                Joined(s, m)[Len(Joined(s, k - 1)) + j] = s[k][j]
            Places(m) == \A k \in 1 .. m : Place(m, k)
            T == {m \in Nat : m <= n => Shape(m) /\ Places(m)}
<1>. USE DEF SequencesOf
<1>1. 0 \in T
  <2>1. Joined(s, 0) \in Seq(X) /\ Len(Joined(s, 0)) \in Nat
    <3>1. Joined(s, 0) = << >>
      BY JoinedUnfolds
    <3>2. << >> \in Seq(X) /\ Len(<< >>) = 0
      OBVIOUS
    <3>. QED BY <3>1, <3>2
  <2>2. Shape(0)
    <3>1. \A k \in 0 .. 0 : k = 0
      OBVIOUS
    <3>. QED BY <2>1, <3>1
  <2>3. Places(0)
    OBVIOUS
  <2>. HIDE DEF Shape, Places
  <2>. QED BY <2>2, <2>3
<1>2. ASSUME NEW m \in T PROVE m + 1 \in T
  <2>. SUFFICES ASSUME m + 1 <= n PROVE Shape(m + 1) /\ Places(m + 1)
    <3>. HIDE DEF Shape, Places
    <3>. QED OBVIOUS
  <2>0. m \in Nat /\ m + 1 \in 1 .. n /\ m <= n
    OBVIOUS
  <2>1. Shape(m) /\ Places(m)
    <3>. HIDE DEF Shape, Places
    <3>. QED BY <2>0
  <2>. HIDE DEF T
  <2>. DEFINE p == Joined(s, m)
              q == s[m + 1]
              r == Joined(s, m + 1)
  <2>2. p \in Seq(X) /\ q \in Seq(X) /\ r = p \o q
    <3>1. p \in Seq(X)
      BY <2>0, <2>1
    <3>2. q \in Seq(X)
      BY <2>0
    <3>3. r = p \o q
      BY <2>0, JoinedUnfolds
    <3>. QED BY <3>1, <3>2, <3>3
  <2>3. /\ r \in Seq(X) /\ Len(r) = Len(p) + Len(q)
        /\ Len(p) \in Nat /\ Len(q) \in Nat /\ Len(r) \in Nat
    <3>. HIDE DEF p, q, r
    <3>. QED BY <2>2
  <2>4. \A j \in 1 .. Len(p) : r[j] = p[j]
    <3>. HIDE DEF p, q, r
    <3>. QED BY <2>2
  <2>5. \A j \in 1 .. Len(q) : r[Len(p) + j] = q[j]
    <3>. HIDE DEF p, q, r
    <3>. QED BY <2>2
  <2>6. ASSUME NEW k \in 0 .. m + 1
        PROVE  Joined(s, k) \in Seq(X) /\ Len(Joined(s, k)) <= Len(r)
    <3>1. CASE k = m + 1
      BY <2>3, <3>1
    <3>2. CASE k # m + 1
      <4>1. k \in 0 .. m
        BY <2>0, <3>2
      <4>2. Joined(s, k) \in Seq(X) /\ Len(Joined(s, k)) <= Len(p) /\ Len(Joined(s, k)) \in Nat
        BY <2>1, <4>1
      <4>. HIDE DEF p, r
      <4>. QED BY <2>3, <4>2
    <3>. QED BY <3>1, <3>2
  <2>7. ASSUME NEW k \in 1 .. m + 1 PROVE Place(m + 1, k)
    <3>1. CASE k = m + 1
      <4>1. k - 1 = m
        BY <2>0, <3>1
      <4>. QED BY <2>3, <2>5, <3>1, <4>1
    <3>2. CASE k # m + 1
      <4>1. k \in 1 .. m /\ k \in 1 .. n /\ k \in 0 .. m /\ k - 1 \in 0 .. m
        BY <2>0, <3>2
      <4>2. Place(m, k) /\ s[k] \in Seq(X) /\ Joined(s, k - 1) \in Seq(X)
        BY <2>1, <4>1
      <4>3. Joined(s, k) \in Seq(X) /\ Len(Joined(s, k)) <= Len(p)
        BY <2>1, <4>1
      <4>4. ASSUME NEW j \in 1 .. Len(s[k])
            PROVE  r[Len(Joined(s, k - 1)) + j] = s[k][j]
        <5>1. p[Len(Joined(s, k - 1)) + j] = s[k][j]
          BY <4>2
        <5>2. Len(Joined(s, k)) = Len(Joined(s, k - 1)) + Len(s[k])
          BY <4>2
        <5>3. Len(Joined(s, k - 1)) \in Nat /\ Len(s[k]) \in Nat
          BY <4>2
        <5>4. Len(Joined(s, k - 1)) + j \in 1 .. Len(p)
          <6>1. Len(Joined(s, k)) \in Nat
            BY <4>3
          <6>2. j \in Nat /\ j > 0 /\ j <= Len(s[k])
            BY <5>3
          <6>3. Len(p) \in Nat /\ Len(Joined(s, k)) <= Len(p)
            BY <2>3, <4>3
          <6>. HIDE DEF p, Place, Shape, Places
          <6>. QED BY <5>2, <5>3, <6>1, <6>2, <6>3, WithinNext
        <5>5. r[Len(Joined(s, k - 1)) + j] = p[Len(Joined(s, k - 1)) + j]
          BY <2>4, <5>4
        <5>. QED BY <5>1, <5>5
      <4>. QED BY <4>2, <4>4
    <3>. QED BY <3>1, <3>2
  <2>. QED BY <2>6, <2>7
<1>3. T = Nat
  <2>. HIDE DEF T
  <2>1. T \in SUBSET Nat
    BY DEF T
  <2>. QED BY <1>1, <1>2, <2>1, NatInduct
<1>4. Shape(n) /\ Places(n)
  <2>. HIDE DEF Shape, Places
  <2>. QED BY <1>3
<1>. QED BY <1>4 DEF Placed

---------------------------------------------------------------------------
(* Sums                                                                    *)

\* The element a sum takes first, and the recursion it follows on the subsets of S.
First(s) == CHOOSE x \in s : TRUE
AddsAt(f, g, s) == g[s] = IF s = {} THEN 0 ELSE f[First(s)] + g[s \ {First(s)}]
Adder(f, S, g) ==
    g = [s \in SUBSET S |-> IF s = {} THEN 0 ELSE f[First(s)] + g[s \ {First(s)}]]
Adds(f, S, g) == \A s \in SUBSET S : AddsAt(f, g, s)

\* What removing the first element leaves.
LEMMA WithoutFirst ==
    ASSUME NEW s, IsFiniteSet(s), s # {}
    PROVE  /\ First(s) \in s /\ IsFiniteSet(s \ {First(s)})
           /\ Cardinality(s) \in Nat /\ Cardinality(s \ {First(s)}) \in Nat
           /\ Cardinality(s) = Cardinality(s \ {First(s)}) + 1
<1>1. First(s) \in s
  BY DEF First
<1>2. IsFiniteSet(s \ {First(s)}) /\ Cardinality(s \ {First(s)}) = Cardinality(s) - 1
  BY <1>1, FS_RemoveElement
<1>3. Cardinality(s) \in Nat /\ Cardinality(s \ {First(s)}) \in Nat
  BY <1>2, FS_CardinalityType
<1>. QED BY <1>1, <1>2, <1>3

LEMMA AddsExist ==
    ASSUME NEW f, NEW S, IsFiniteSet(S)
    PROVE  \E g : Adder(f, S, g)
<1>. DEFINE Body(g, s) == IF s = {} THEN 0 ELSE f[First(s)] + g[s \ {First(s)}]
            Upto(g, n) == \A s \in SUBSET S : Cardinality(s) <= n => g[s] = Body(g, s)
            T == {n \in Nat : \E g : Upto(g, n)}
<1>0. ASSUME NEW s \in SUBSET S
      PROVE  IsFiniteSet(s) /\ Cardinality(s) \in Nat /\ s \ {First(s)} \in SUBSET S
  BY FS_Subset, FS_CardinalityType
<1>1. 0 \in T
  <2>. DEFINE g == [s \in SUBSET S |-> 0]
  <2>1. Upto(g, 0)
    <3>. SUFFICES ASSUME NEW s \in SUBSET S, Cardinality(s) <= 0 PROVE g[s] = Body(g, s)
      OBVIOUS
    <3>1. s = {}
      BY <1>0, FS_EmptySet
    <3>. QED BY <3>1
  <2>. HIDE DEF Upto, g
  <2>. QED BY <2>1
<1>2. ASSUME NEW n \in T PROVE n + 1 \in T
  <2>1. PICK g : Upto(g, n)
    OBVIOUS
  <2>. DEFINE h == [s \in SUBSET S |-> Body(g, s)]
  <2>2. ASSUME NEW s \in SUBSET S, Cardinality(s) <= n + 1 PROVE h[s] = Body(h, s)
    <3>1. CASE s = {}
      BY <3>1
    <3>2. CASE s # {}
      <4>. DEFINE r == s \ {First(s)}
      <4>1. r \in SUBSET S /\ Cardinality(r) <= n
        <5>1. IsFiniteSet(s) /\ r \in SUBSET S
          BY <1>0
        <5>2. Cardinality(s) = Cardinality(r) + 1 /\ Cardinality(r) \in Nat
          BY <3>2, <5>1, WithoutFirst
        <5>3. n \in Nat
          OBVIOUS
        <5>. HIDE DEF r
        <5>. QED BY <2>2, <5>1, <5>2, <5>3
      <4>2. h[r] = g[r]
        <5>1. g[r] = Body(g, r)
          BY <2>1, <4>1
        <5>2. h[r] = Body(g, r)
          BY <4>1
        <5>. QED BY <5>1, <5>2
      <4>. QED BY <3>2, <4>2
    <3>. QED BY <3>1, <3>2
  <2>3. Upto(h, n + 1)
    <3>. HIDE DEF h, Body
    <3>. QED BY <2>2
  <2>. HIDE DEF Upto, h
  <2>. QED BY <2>3
<1>3. T = Nat
  <2>. HIDE DEF T
  <2>1. T \in SUBSET Nat
    BY DEF T
  <2>. QED BY <1>1, <1>2, <2>1, NatInduct
<1>4. PICK g : Upto(g, Cardinality(S))
  <2>. HIDE DEF Upto
  <2>. QED BY <1>0, <1>3
<1>. DEFINE h == [s \in SUBSET S |-> g[s]]
<1>5. ASSUME NEW s \in SUBSET S PROVE h[s] = Body(h, s)
  <2>1. Cardinality(s) <= Cardinality(S)
    BY FS_Subset
  <2>2. g[s] = Body(g, s)
    BY <1>4, <2>1
  <2>. QED BY <2>2, <1>0
<1>6. Adder(f, S, h)
  BY <1>5 DEF Adder
<1>. HIDE DEF h
<1>. QED BY <1>6

LEMMA AddsAgree ==
    ASSUME NEW f, NEW S, IsFiniteSet(S), NEW g, NEW h, Adds(f, S, g), Adds(f, S, h)
    PROVE  g[S] = h[S]
<1>. DEFINE T == {n \in Nat : \A s \in SUBSET S : Cardinality(s) = n => g[s] = h[s]}
<1>1. 0 \in T
  <2>. SUFFICES ASSUME NEW s \in SUBSET S, Cardinality(s) = 0 PROVE g[s] = h[s]
    OBVIOUS
  <2>1. s = {}
    BY FS_Subset, FS_EmptySet
  <2>. QED BY <2>1 DEF Adds, AddsAt
<1>2. ASSUME NEW n \in T PROVE n + 1 \in T
  <2>. SUFFICES ASSUME NEW s \in SUBSET S, Cardinality(s) = n + 1 PROVE g[s] = h[s]
    OBVIOUS
  <2>1. n \in Nat /\ IsFiniteSet(s) /\ s # {}
    BY FS_Subset, FS_EmptySet
  <2>. DEFINE q == s \ {First(s)}
  <2>2. q \in SUBSET S /\ Cardinality(q) = n
    <3>1. Cardinality(q) \in Nat /\ Cardinality(s) = Cardinality(q) + 1
      BY <2>1, WithoutFirst
    <3>2. q \in SUBSET S
      OBVIOUS
    <3>. HIDE DEF q
    <3>. QED BY <2>1, <3>1, <3>2
  <2>3. g[s \ {First(s)}] = h[s \ {First(s)}]
    BY <2>2
  <2>. QED BY <2>1, <2>3 DEF Adds, AddsAt
<1>3. T = Nat
  <2>. HIDE DEF T
  <2>1. T \in SUBSET Nat
    BY DEF T
  <2>. QED BY <1>1, <1>2, <2>1, NatInduct
<1>. QED BY <1>3, FS_CardinalityType

\* A sum takes its first element, then sums the rest.
LEMMA SumUnfolds ==
    ASSUME NEW f, NEW S, IsFiniteSet(S)
    PROVE  SumFunctionOnSet(f, S) =
             IF S = {} THEN 0
             ELSE f[First(S)] + SumFunctionOnSet(f, S \ {First(S)})
<1>. DEFINE It(s) == CHOOSE g : Adder(f, s, g)
<1>1. \A s : SumFunctionOnSet(f, s) = It(s)[s]
  BY DEF SumFunctionOnSet, FoldFunctionOnSet, MapThenFoldSet, First, Adder
<1>2. ASSUME NEW s, IsFiniteSet(s) PROVE Adds(f, s, It(s))
  <2>1. Adder(f, s, It(s))
    BY <1>2, AddsExist
  <2>. HIDE DEF It
  <2>. QED BY <2>1 DEF Adder, Adds, AddsAt
<1>. HIDE DEF It
<1>3. CASE S = {}
  BY <1>1, <1>2, <1>3 DEF Adds, AddsAt
<1>4. CASE S # {}
  <2>. DEFINE R == S \ {First(S)}
  <2>1. IsFiniteSet(R) /\ R \in SUBSET S
    BY <1>4, WithoutFirst
  <2>2. Adds(f, R, It(R)) /\ Adds(f, R, It(S))
    BY <1>2, <2>1 DEF Adds
  <2>3. It(R)[R] = It(S)[R]
    <3>. HIDE DEF R
    <3>. QED BY <2>1, <2>2, AddsAgree
  <2>4. It(S)[S] = f[First(S)] + It(S)[R]
    BY <1>2, <1>4 DEF Adds, AddsAt
  <2>. QED BY <1>1, <1>4, <2>3, <2>4
<1>. QED BY <1>3, <1>4

\* Any element may be taken out of a sum of integers.
LEMMA SumAdd ==
    ASSUME NEW f, NEW S, IsFiniteSet(S), NEW x, x \notin S,
           \A i \in S \cup {x} : f[i] \in Int
    PROVE  /\ SumFunctionOnSet(f, S) \in Int
           /\ SumFunctionOnSet(f, S \cup {x}) = SumFunctionOnSet(f, S) + f[x]
<1>. DEFINE Good(r, y) == /\ SumFunctionOnSet(f, r) \in Int
                          /\ SumFunctionOnSet(f, r \cup {y}) = SumFunctionOnSet(f, r) + f[y]
            U == S \cup {x}
            T == {n \in Nat : \A r \in SUBSET U, y \in U :
                     IsFiniteSet(r) /\ Cardinality(r) = n /\ y \notin r => Good(r, y)}
<1>0. \A i \in U : f[i] \in Int
  OBVIOUS
<1>. HIDE DEF U
<1>1. 0 \in T
  <2>. SUFFICES ASSUME NEW r \in SUBSET U, NEW y \in U, IsFiniteSet(r), Cardinality(r) = 0
                PROVE  Good(r, y)
    OBVIOUS
  <2>1. r = {}
    BY FS_EmptySet
  <2>2. SumFunctionOnSet(f, {}) = 0
    BY SumUnfolds, FS_EmptySet
  <2>3. IsFiniteSet({y}) /\ First({y}) = y /\ {y} \ {First({y})} = {}
    BY FS_Singleton DEF First
  <2>4. SumFunctionOnSet(f, {y}) = f[y] + 0
    BY <2>2, <2>3, SumUnfolds
  <2>5. r \cup {y} = {y} /\ f[y] \in Int
    BY <1>0, <2>1
  <2>. QED BY <2>1, <2>2, <2>4, <2>5
<1>2. ASSUME NEW n \in T PROVE n + 1 \in T
  <2>. SUFFICES ASSUME NEW r \in SUBSET U, NEW y \in U, IsFiniteSet(r),
                       Cardinality(r) = n + 1, y \notin r
                PROVE  Good(r, y)
    OBVIOUS
  <2>0. n \in Nat
    OBVIOUS
  <2>1. ASSUME NEW p \in r
        PROVE  Good(r \ {p}, p) /\ Good(r \ {p}, y)
    <3>. DEFINE q == r \ {p}
    <3>0. IsFiniteSet(q) /\ Cardinality(q) = Cardinality(r) - 1
      BY FS_RemoveElement
    <3>1. IsFiniteSet(q) /\ Cardinality(q) = n
      <4>. HIDE DEF q
      <4>. QED BY <2>0, <3>0
    <3>2. r \ {p} \in SUBSET U /\ p \in U /\ p \notin r \ {p} /\ y \notin r \ {p}
      OBVIOUS
    <3>. HIDE DEF Good
    <3>. QED BY <3>1, <3>2
  <2>2. SumFunctionOnSet(f, r) \in Int
    <3>1. PICK p \in r : TRUE
      BY <2>0, FS_EmptySet
    <3>2. (r \ {p}) \cup {p} = r /\ f[p] \in Int
      BY <1>0, <3>1
    <3>3. /\ SumFunctionOnSet(f, r \ {p}) \in Int
          /\ SumFunctionOnSet(f, (r \ {p}) \cup {p}) = SumFunctionOnSet(f, r \ {p}) + f[p]
      BY <2>1, <3>1
    <3>4. SumFunctionOnSet(f, r) = SumFunctionOnSet(f, r \ {p}) + f[p]
      BY <3>2, <3>3
    <3>. QED BY <3>2, <3>3, <3>4
  <2>. DEFINE V == r \cup {y}
              p == First(V)
  <2>3. IsFiniteSet(V) /\ V # {}
    BY FS_AddElement
  <2>4. SumFunctionOnSet(f, V) = f[p] + SumFunctionOnSet(f, V \ {p}) /\ p \in V
    BY <2>3, SumUnfolds, WithoutFirst
  <2>. HIDE DEF p
  <2>5. f[y] \in Int /\ f[p] \in Int
    BY <1>0, <2>4
  <2>6. CASE p = y
    <3>1. V \ {p} = r
      BY <2>6
    <3>2. SumFunctionOnSet(f, V) = f[y] + SumFunctionOnSet(f, r)
      BY <2>4, <2>6, <3>1
    <3>3. SumFunctionOnSet(f, V) = SumFunctionOnSet(f, r) + f[y]
      BY <2>2, <2>5, <3>2
    <3>. QED BY <2>2, <3>3
  <2>7. CASE p # y
    <3>1. p \in r /\ V \ {p} = (r \ {p}) \cup {y} /\ (r \ {p}) \cup {p} = r
      BY <2>4, <2>7
    <3>2. /\ SumFunctionOnSet(f, (r \ {p}) \cup {y}) = SumFunctionOnSet(f, r \ {p}) + f[y]
          /\ SumFunctionOnSet(f, (r \ {p}) \cup {p}) = SumFunctionOnSet(f, r \ {p}) + f[p]
          /\ SumFunctionOnSet(f, r \ {p}) \in Int
      BY <2>1, <3>1
    <3>3. /\ SumFunctionOnSet(f, V) = f[p] + (SumFunctionOnSet(f, r \ {p}) + f[y])
          /\ SumFunctionOnSet(f, r) = SumFunctionOnSet(f, r \ {p}) + f[p]
      BY <2>4, <3>1, <3>2
    <3>4. SumFunctionOnSet(f, V) = SumFunctionOnSet(f, r) + f[y]
      BY <2>5, <3>2, <3>3
    <3>. QED BY <2>2, <3>4
  <2>. QED BY <2>6, <2>7
<1>3. T = Nat
  <2>. HIDE DEF T
  <2>1. T \in SUBSET Nat
    BY DEF T
  <2>. QED BY <1>1, <1>2, <2>1, NatInduct
<1>4. S \in SUBSET U /\ x \in U /\ Cardinality(S) \in T
  BY <1>3, FS_CardinalityType DEF U
<1>. QED BY <1>4

\* A sum reads nothing but the summands.
LEMMA SumSame ==
    ASSUME NEW f, NEW g, NEW S, IsFiniteSet(S), \A i \in S : f[i] = g[i]
    PROVE  SumFunctionOnSet(f, S) = SumFunctionOnSet(g, S)
<1>. DEFINE T == {n \in Nat : \A r \in SUBSET S : Cardinality(r) = n =>
                     SumFunctionOnSet(f, r) = SumFunctionOnSet(g, r)}
<1>1. 0 \in T
  <2>. SUFFICES ASSUME NEW r \in SUBSET S, Cardinality(r) = 0
                PROVE  SumFunctionOnSet(f, r) = SumFunctionOnSet(g, r)
    OBVIOUS
  <2>1. r = {} /\ IsFiniteSet(r)
    BY FS_Subset, FS_EmptySet
  <2>. QED BY <2>1, SumUnfolds
<1>2. ASSUME NEW n \in T PROVE n + 1 \in T
  <2>. SUFFICES ASSUME NEW r \in SUBSET S, Cardinality(r) = n + 1
                PROVE  SumFunctionOnSet(f, r) = SumFunctionOnSet(g, r)
    OBVIOUS
  <2>1. n \in Nat /\ IsFiniteSet(r) /\ r # {}
    BY FS_Subset, FS_EmptySet
  <2>2. /\ r \ {First(r)} \in SUBSET S /\ Cardinality(r \ {First(r)}) = n
        /\ First(r) \in S
    BY <2>1, WithoutFirst
  <2>3. SumFunctionOnSet(f, r \ {First(r)}) = SumFunctionOnSet(g, r \ {First(r)})
    BY <2>2
  <2>. QED BY <2>1, <2>2, <2>3, SumUnfolds
<1>3. T = Nat
  <2>. HIDE DEF T
  <2>1. T \in SUBSET Nat
    BY DEF T
  <2>. QED BY <1>1, <1>2, <2>1, NatInduct
<1>. QED BY <1>3, FS_CardinalityType

---------------------------------------------------------------------------
(* Where an event's updates are among those of its message                 *)

Update == [address : Address \cup {NoAddress}, token : Token \cup {NoToken}, delta : Int]

LEMMA EventUpdates ==
    ASSUME NEW e \in Event
    PROVE  /\ Updates(e) \in Seq(Update)
           /\ Skipped(e) \/ e.value = BadValue => Updates(e) = << >>
           /\ ~Skipped(e) /\ e.value # BadValue =>
                /\ Func(e) = "mint" => Updates(e) = <<UpdateOf(e.to, e, e.value)>>
                /\ Func(e) = "burn" => Updates(e) = <<UpdateOf(e.from, e, -e.value)>>
                /\ Func(e) \notin {"mint", "burn"} =>
                     Updates(e) = <<UpdateOf(e.from, e, -e.value), UpdateOf(e.to, e, e.value)>>
<1>1. CASE Skipped(e) \/ e.value = BadValue
  <2>1. Updates(e) = << >>
    BY <1>1 DEF Updates
  <2>2. << >> \in Seq(Update)
    OBVIOUS
  <2>. QED BY <1>1, <2>1, <2>2
<1>2. CASE ~Skipped(e) /\ e.value # BadValue
  <2>1. e.value \in Int /\ -e.value \in Int
    BY <1>2 DEF Event
  <2>2. UpdateOf(e.to, e, e.value) \in Update /\ UpdateOf(e.from, e, -e.value) \in Update
    BY <2>1 DEF Event, Update, UpdateOf
  <2>3. CASE Func(e) = "mint"
    <3>1. Updates(e) = <<UpdateOf(e.to, e, e.value)>>
      BY <1>2, <2>3 DEF Updates
    <3>. QED BY <1>2, <2>2, <2>3, <3>1
  <2>4. CASE Func(e) = "burn"
    <3>1. Updates(e) = <<UpdateOf(e.from, e, -e.value)>>
      BY <1>2, <2>4 DEF Updates
    <3>. QED BY <1>2, <2>2, <2>4, <3>1
  <2>5. CASE Func(e) \notin {"mint", "burn"}
    <3>1. Updates(e) = <<UpdateOf(e.from, e, -e.value), UpdateOf(e.to, e, e.value)>>
      BY <1>2, <2>5 DEF Updates
    <3>. QED BY <1>2, <2>2, <2>5, <3>1
  <2>. QED BY <2>3, <2>4, <2>5
<1>. QED BY <1>1, <1>2

LEMMA TxPlaces ==
    ASSUME NEW tx, tx.events \in Seq(Event)
    PROVE  /\ TxUpdates(tx) \in Seq(Update)
           /\ TxUpdatesTo(tx, 0) = << >>
           /\ \A j \in 0 .. Len(tx.events) : /\ Len(TxUpdatesTo(tx, j)) \in Nat
                                             /\ Len(TxUpdatesTo(tx, j)) <= Len(TxUpdates(tx))
           /\ \A j \in 1 .. Len(tx.events) :
                /\ Len(TxUpdatesTo(tx, j))
                     = Len(TxUpdatesTo(tx, j - 1)) + Len(Updates(tx.events[j]))
                /\ \A k \in 1 .. Len(Updates(tx.events[j])) :
                     TxUpdates(tx)[Len(TxUpdatesTo(tx, j - 1)) + k] = Updates(tx.events[j])[k]
<1>. DEFINE s == [j \in DOMAIN tx.events |-> Updates(tx.events[j])]
            n == Len(tx.events)
<1>1. n \in Nat /\ DOMAIN tx.events = 1 .. n
  OBVIOUS
<1>2. \A j \in 1 .. n : s[j] = Updates(tx.events[j]) /\ s[j] \in Seq(Update)
  BY <1>1, EventUpdates
<1>3. \A j : TxUpdatesTo(tx, j) = Joined(s, j)
  BY DEF TxUpdatesTo
<1>. HIDE DEF s, n
<1>4. /\ \A k \in 0 .. n : /\ Joined(s, k) \in Seq(Update)
                           /\ Len(Joined(s, k)) <= Len(Joined(s, n))
      /\ \A k \in 1 .. n :
           /\ Len(Joined(s, k)) = Len(Joined(s, k - 1)) + Len(s[k])
           /\ \A j \in 1 .. Len(s[k]) : Joined(s, n)[Len(Joined(s, k - 1)) + j] = s[k][j]
  <2>1. SequencesOf(Update, s, n)
    BY <1>2 DEF SequencesOf
  <2>2. Placed(Update, s, n)
    BY <1>1, <2>1, JoinedPlaces
  <2>. QED BY <2>2 DEF Placed
<1>5. TxUpdates(tx) = Joined(s, n) /\ TxUpdates(tx) \in Seq(Update)
  BY <1>1, <1>3, <1>4 DEF TxUpdates, n
<1>6. Joined(s, 0) = << >>
  BY JoinedUnfolds
<1>7. \A j \in 0 .. n : /\ Len(TxUpdatesTo(tx, j)) \in Nat
                        /\ Len(TxUpdatesTo(tx, j)) <= Len(TxUpdates(tx))
  BY <1>3, <1>4, <1>5
<1>8. \A j \in 1 .. n :
        /\ Len(TxUpdatesTo(tx, j)) = Len(TxUpdatesTo(tx, j - 1)) + Len(Updates(tx.events[j]))
        /\ \A k \in 1 .. Len(Updates(tx.events[j])) :
             TxUpdates(tx)[Len(TxUpdatesTo(tx, j - 1)) + k] = Updates(tx.events[j])[k]
  <2>. SUFFICES ASSUME NEW j \in 1 .. n
                PROVE  /\ Len(TxUpdatesTo(tx, j))
                            = Len(TxUpdatesTo(tx, j - 1)) + Len(Updates(tx.events[j]))
                       /\ \A k \in 1 .. Len(Updates(tx.events[j])) :
                            TxUpdates(tx)[Len(TxUpdatesTo(tx, j - 1)) + k]
                              = Updates(tx.events[j])[k]
    OBVIOUS
  <2>1. s[j] = Updates(tx.events[j])
    BY <1>2
  <2>2. TxUpdatesTo(tx, j) = Joined(s, j) /\ TxUpdatesTo(tx, j - 1) = Joined(s, j - 1)
    BY <1>3
  <2>3. /\ Len(Joined(s, j)) = Len(Joined(s, j - 1)) + Len(s[j])
        /\ \A k \in 1 .. Len(s[j]) : Joined(s, n)[Len(Joined(s, j - 1)) + k] = s[j][k]
    BY <1>4
  <2>. QED BY <1>5, <2>1, <2>2, <2>3
<1>. QED BY <1>3, <1>5, <1>6, <1>7, <1>8 DEF n

LEMMA MessagePlaces ==
    ASSUME NEW m \in Messages
    PROVE  /\ AllUpdates(m) \in Seq(Update)
           /\ UpdatesTo(m, 0) = << >>
           /\ \A i \in 0 .. Len(m.txs) : /\ Len(UpdatesTo(m, i)) \in Nat
                                         /\ Len(UpdatesTo(m, i)) <= Len(AllUpdates(m))
           /\ \A i \in 1 .. Len(m.txs) :
                /\ Len(UpdatesTo(m, i)) = Len(UpdatesTo(m, i - 1)) + Len(TxUpdates(m.txs[i]))
                /\ \A k \in 1 .. Len(TxUpdates(m.txs[i])) :
                     AllUpdates(m)[Len(UpdatesTo(m, i - 1)) + k] = TxUpdates(m.txs[i])[k]
<1>. DEFINE s == [i \in DOMAIN m.txs |-> TxUpdates(m.txs[i])]
            n == Len(m.txs)
<1>1. n \in Nat /\ DOMAIN m.txs = 1 .. n
  BY MessageShape
<1>2. \A i \in 1 .. n : s[i] = TxUpdates(m.txs[i]) /\ s[i] \in Seq(Update)
  BY <1>1, MessageShape, TxPlaces
<1>3. \A i : UpdatesTo(m, i) = Joined(s, i)
  BY DEF UpdatesTo
<1>. HIDE DEF s, n
<1>4. /\ \A k \in 0 .. n : /\ Joined(s, k) \in Seq(Update)
                           /\ Len(Joined(s, k)) <= Len(Joined(s, n))
      /\ \A k \in 1 .. n :
           /\ Len(Joined(s, k)) = Len(Joined(s, k - 1)) + Len(s[k])
           /\ \A j \in 1 .. Len(s[k]) : Joined(s, n)[Len(Joined(s, k - 1)) + j] = s[k][j]
  <2>1. SequencesOf(Update, s, n)
    BY <1>2 DEF SequencesOf
  <2>2. Placed(Update, s, n)
    BY <1>1, <2>1, JoinedPlaces
  <2>. QED BY <2>2 DEF Placed
<1>5. AllUpdates(m) = Joined(s, n) /\ AllUpdates(m) \in Seq(Update)
  BY <1>1, <1>3, <1>4 DEF AllUpdates, n
<1>6. Joined(s, 0) = << >>
  BY JoinedUnfolds
<1>7. \A i \in 0 .. n : /\ Len(UpdatesTo(m, i)) \in Nat
                        /\ Len(UpdatesTo(m, i)) <= Len(AllUpdates(m))
  BY <1>3, <1>4, <1>5
<1>8. \A i \in 1 .. n :
        /\ Len(UpdatesTo(m, i)) = Len(UpdatesTo(m, i - 1)) + Len(TxUpdates(m.txs[i]))
        /\ \A k \in 1 .. Len(TxUpdates(m.txs[i])) :
             AllUpdates(m)[Len(UpdatesTo(m, i - 1)) + k] = TxUpdates(m.txs[i])[k]
  <2>. SUFFICES ASSUME NEW i \in 1 .. n
                PROVE  /\ Len(UpdatesTo(m, i))
                            = Len(UpdatesTo(m, i - 1)) + Len(TxUpdates(m.txs[i]))
                       /\ \A k \in 1 .. Len(TxUpdates(m.txs[i])) :
                            AllUpdates(m)[Len(UpdatesTo(m, i - 1)) + k]
                              = TxUpdates(m.txs[i])[k]
    OBVIOUS
  <2>1. s[i] = TxUpdates(m.txs[i])
    BY <1>2
  <2>2. UpdatesTo(m, i) = Joined(s, i) /\ UpdatesTo(m, i - 1) = Joined(s, i - 1)
    BY <1>3
  <2>3. /\ Len(Joined(s, i)) = Len(Joined(s, i - 1)) + Len(s[i])
        /\ \A k \in 1 .. Len(s[i]) : Joined(s, n)[Len(Joined(s, i - 1)) + k] = s[i][k]
    BY <1>4
  <2>. QED BY <1>5, <2>1, <2>2, <2>3
<1>. QED BY <1>3, <1>5, <1>6, <1>7, <1>8 DEF n

\* How many updates of m come before the j-th event of its i-th transaction.
UpdatesBefore(m, i, j) ==
    Len(UpdatesTo(m, i - 1))
    + (IF i <= Len(m.txs) THEN Len(TxUpdatesTo(m.txs[i], j - 1)) ELSE 0)

LEMMA BeforeFirst ==
    ASSUME NEW m \in Messages PROVE UpdatesBefore(m, 1, 1) = 0
<1>1. Len(m.txs) \in Nat /\ Len(UpdatesTo(m, 0)) = 0
  <2>1. Len(<< >>) = 0
    OBVIOUS
  <2>. QED BY <2>1, MessageShape, MessagePlaces
<1>2. ASSUME 1 <= Len(m.txs) PROVE Len(TxUpdatesTo(m.txs[1], 0)) = 0
  <2>1. Len(<< >>) = 0
    OBVIOUS
  <2>2. m.txs[1].events \in Seq(Event)
    BY <1>1, <1>2, MessageShape
  <2>. QED BY <2>1, <2>2, TxPlaces
<1>. QED BY <1>1, <1>2 DEF UpdatesBefore

LEMMA BeforeNextEvent ==
    ASSUME NEW m \in Messages, NEW i \in 1 .. Len(m.txs), NEW j \in 1 .. Len(m.txs[i].events)
    PROVE  LET u == Updates(m.txs[i].events[j]) IN
           /\ UpdatesBefore(m, i, j) \in Nat
           /\ UpdatesBefore(m, i, j + 1) = UpdatesBefore(m, i, j) + Len(u)
           /\ UpdatesBefore(m, i, j + 1) <= Len(AllUpdates(m))
           /\ \A k \in 1 .. Len(u) : AllUpdates(m)[UpdatesBefore(m, i, j) + k] = u[k]
<1>. DEFINE tx == m.txs[i]
            u == Updates(tx.events[j])
            a == Len(UpdatesTo(m, i - 1))
            b == Len(TxUpdatesTo(tx, j - 1))
<1>1. Len(m.txs) \in Nat /\ tx.events \in Seq(Event) /\ Len(tx.events) \in Nat
      /\ tx.events[j] \in Event
  BY MessageShape
<1>2. i - 1 \in 0 .. Len(m.txs) /\ i \in 0 .. Len(m.txs) /\ i <= Len(m.txs)
      /\ j - 1 \in 0 .. Len(tx.events) /\ j \in 0 .. Len(tx.events) /\ (j + 1) - 1 = j
  BY <1>1
<1>3. a \in Nat /\ Len(UpdatesTo(m, i)) = a + Len(TxUpdates(tx))
      /\ Len(UpdatesTo(m, i)) <= Len(AllUpdates(m))
      /\ \A k \in 1 .. Len(TxUpdates(tx)) : AllUpdates(m)[a + k] = TxUpdates(tx)[k]
  BY <1>2, MessagePlaces
<1>4. b \in Nat /\ Len(TxUpdatesTo(tx, j)) = b + Len(u)
      /\ Len(TxUpdatesTo(tx, j)) <= Len(TxUpdates(tx))
      /\ \A k \in 1 .. Len(u) : TxUpdates(tx)[b + k] = u[k]
  BY <1>1, <1>2, TxPlaces
<1>5. Len(u) \in Nat /\ Len(TxUpdates(tx)) \in Nat /\ Len(AllUpdates(m)) \in Nat
  <2>1. u \in Seq(Update)
    BY <1>1, EventUpdates
  <2>2. TxUpdates(tx) \in Seq(Update)
    BY <1>1, TxPlaces
  <2>3. AllUpdates(m) \in Seq(Update)
    BY MessagePlaces
  <2>. HIDE DEF u, tx
  <2>. QED BY <2>1, <2>2, <2>3
<1>6. UpdatesBefore(m, i, j) = a + b /\ UpdatesBefore(m, i, j + 1) = a + Len(TxUpdatesTo(tx, j))
  BY <1>2 DEF UpdatesBefore
<1>. HIDE DEF a, b, u, tx
<1>7. ASSUME NEW k \in 1 .. Len(u) PROVE AllUpdates(m)[(a + b) + k] = u[k]
  <2>1. b + k \in 1 .. Len(TxUpdates(tx))
    BY <1>4, <1>5, WithinNext
  <2>2. a + (b + k) = (a + b) + k
    BY <1>3, <1>4, <1>5
  <2>3. AllUpdates(m)[a + (b + k)] = TxUpdates(tx)[b + k]
    BY <1>3, <2>1
  <2>. QED BY <1>4, <2>2, <2>3
<1>8. /\ UpdatesBefore(m, i, j) \in Nat
      /\ UpdatesBefore(m, i, j + 1) = UpdatesBefore(m, i, j) + Len(u)
      /\ UpdatesBefore(m, i, j + 1) <= Len(AllUpdates(m))
  BY <1>3, <1>4, <1>5, <1>6
<1>. QED BY <1>6, <1>7, <1>8 DEF u, tx

LEMMA BeforeNextTx ==
    ASSUME NEW m \in Messages, NEW i \in 1 .. Len(m.txs)
    PROVE  /\ UpdatesBefore(m, i, Len(m.txs[i].events) + 1) = Len(UpdatesTo(m, i))
           /\ UpdatesBefore(m, i + 1, 1) = Len(UpdatesTo(m, i))
<1>. DEFINE tx == m.txs[i]
<1>1. Len(m.txs) \in Nat /\ tx.events \in Seq(Event) /\ Len(tx.events) \in Nat
  <2>1. m.txs \in Seq(Tx) /\ tx.events \in Seq(Event)
    BY MessageShape
  <2>. QED BY <2>1
<1>2. i <= Len(m.txs) /\ (i + 1) - 1 = i /\ (Len(tx.events) + 1) - 1 = Len(tx.events)
  BY <1>1
<1>3. Len(UpdatesTo(m, i)) = Len(UpdatesTo(m, i - 1)) + Len(TxUpdates(tx))
  BY MessagePlaces
<1>4. UpdatesBefore(m, i, Len(tx.events) + 1) = Len(UpdatesTo(m, i))
  BY <1>2, <1>3 DEF UpdatesBefore, TxUpdates
<1>5. ASSUME i + 1 <= Len(m.txs) PROVE Len(TxUpdatesTo(m.txs[i + 1], 0)) = 0
  <2>1. Len(<< >>) = 0
    OBVIOUS
  <2>2. i + 1 \in 1 .. Len(m.txs)
    BY <1>1, <1>5
  <2>3. m.txs[i + 1].events \in Seq(Event)
    BY <2>2, MessageShape
  <2>. QED BY <2>1, <2>3, TxPlaces
<1>6. Len(UpdatesTo(m, i)) \in Nat
  BY <1>1, MessagePlaces
<1>7. UpdatesBefore(m, i + 1, 1) = Len(UpdatesTo(m, i))
  BY <1>2, <1>5, <1>6 DEF UpdatesBefore
<1>. QED BY <1>4, <1>7

LEMMA BeforeEnd ==
    ASSUME NEW m \in Messages, NEW j
    PROVE  UpdatesBefore(m, Len(m.txs) + 1, j) = Len(AllUpdates(m))
<1>1. Len(m.txs) \in Nat /\ Len(AllUpdates(m)) \in Nat
  BY MessageShape, MessagePlaces
<1>2. (Len(m.txs) + 1) - 1 = Len(m.txs) /\ ~(Len(m.txs) + 1 <= Len(m.txs))
  BY <1>1
<1>. QED BY <1>1, <1>2 DEF UpdatesBefore, AllUpdates

---------------------------------------------------------------------------
(* Where a worker is in its block                                          *)

Busy(w) == pc[w] \notin {"idle", "stopped"}

\* The loop indices run to one past the last transaction and the last event.
Bounded(w) ==
    /\ pc[w] \in {"addBlock", "addTransactions"} => ti[w] = 1
    /\ Busy(w) => /\ ti[w] <= Len(msg[w].txs) + 1
                  /\ MoreTxs(w) => ei[w] <= Len(CurrentTx(w).events) + 1

\* The updates that come before the worker's next one.
DoneBy(w) == UpdatesBefore(msg[w], ti[w], ei[w])
             + (IF pc[w] = "incTo" /\ Func(CurrentEvent(w)) # "mint" THEN 1 ELSE 0)
Counted(w) == pc[w] \in Owning => executed[HeightOf(w)] = DoneBy(w)

BoundedInv == \A w \in Worker : Bounded(w)
CountedInv == \A w \in Worker : Counted(w)

LEMMA EventsLen ==
    ASSUME NEW m \in Messages, NEW i \in 1 .. Len(m.txs)
    PROVE  Len(m.txs[i].events) \in Nat
<1>. DEFINE s == m.txs[i].events
<1>1. s \in Seq(Event)
  BY MessageShape
<1>. HIDE DEF s
<1>2. Len(s) \in Nat
  BY <1>1
<1>. QED BY <1>2 DEF s

LEMMA BusyFacts ==
    ASSUME TypeInv, NEW w \in Worker, Busy(w)
    PROVE  /\ msg[w] \in Messages /\ HeightOf(w) \in Height
           /\ ti[w] \in Nat /\ ti[w] > 0 /\ ei[w] \in Nat /\ ei[w] > 0
           /\ Len(msg[w].txs) \in Nat
           /\ MoreTxs(w) => /\ ti[w] \in 1 .. Len(msg[w].txs)
                            /\ Len(CurrentTx(w).events) \in Nat
           /\ MoreEvents(w) => ei[w] \in 1 .. Len(CurrentTx(w).events)
<1>1. /\ msg[w] \in Messages /\ HeightOf(w) \in Height
      /\ ti[w] \in Nat /\ ti[w] > 0 /\ ei[w] \in Nat /\ ei[w] > 0
  BY HeldFacts DEF TypeInv, TypeOK, LoopTypes, LoopOK, WorkerOK, Busy
<1>2. Len(msg[w].txs) \in Nat
  BY <1>1, MessageShape
<1>3. ASSUME MoreTxs(w) PROVE ti[w] \in 1 .. Len(msg[w].txs)
  BY <1>1, <1>2, <1>3 DEF MoreTxs
<1>4. ASSUME MoreTxs(w) PROVE Len(CurrentTx(w).events) \in Nat
  <2>1. CurrentTx(w).events \in Seq(Event)
    BY <1>4, HeldFacts DEF Busy
  <2>. QED BY <2>1
<1>5. ASSUME MoreEvents(w) PROVE ei[w] \in 1 .. Len(CurrentTx(w).events)
  BY <1>1, <1>4, <1>5 DEF MoreEvents
<1>. QED BY <1>1, <1>2, <1>3, <1>4, <1>5

\* How the loop indices move.
LEMMA GotoBounded ==
    ASSUME LoopTypes, NEW w \in Worker, Busy(w), Bounded(w), NEW s, Goto(w, s),
           s = "addTransactions" => ti[w] = 1, s # "addBlock"
    PROVE  Bounded(w)'
<1>1. pc'[w] = s /\ msg'[w] = msg[w] /\ ti'[w] = ti[w] /\ ei'[w] = ei[w]
  BY DEF LoopTypes, Goto
<1>. QED BY <1>1 DEF Bounded, Busy, MoreTxs, CurrentTx

LEMMA NextEventBounded ==
    ASSUME TypeInv, NEW w \in Worker, Busy(w), Bounded(w), MoreEvents(w), NextEvent(w)
    PROVE  Bounded(w)'
<1>1. pc'[w] = "parse" /\ msg'[w] = msg[w] /\ ti'[w] = ti[w] /\ ei'[w] = ei[w] + 1
  BY DEF TypeInv, TypeOK, LoopTypes, NextEvent
<1>2. MoreTxs(w) /\ ei[w] + 1 <= Len(CurrentTx(w).events) + 1
  BY BusyFacts DEF MoreEvents
<1>. QED BY <1>1, <1>2 DEF Bounded, Busy, MoreTxs, CurrentTx

LEMMA NextTxBounded ==
    ASSUME TypeInv, NEW w \in Worker, Busy(w), MoreTxs(w), NextTx(w)
    PROVE  Bounded(w)'
<1>1. pc'[w] = "parse" /\ msg'[w] = msg[w] /\ ti'[w] = ti[w] + 1 /\ ei'[w] = 1
  BY DEF TypeInv, TypeOK, LoopTypes, NextTx
<1>2. ti[w] + 1 <= Len(msg[w].txs) + 1
  BY BusyFacts DEF MoreTxs
<1>3. ASSUME ti[w] + 1 <= Len(msg[w].txs)
      PROVE  1 <= Len(msg[w].txs[ti[w] + 1].events) + 1
  <2>1. ti[w] + 1 \in 1 .. Len(msg[w].txs) /\ msg[w] \in Messages
    BY <1>3, BusyFacts
  <2>. DEFINE n == Len(msg[w].txs[ti[w] + 1].events)
  <2>2. n \in Nat
    BY <2>1, EventsLen
  <2>3. 1 <= n + 1
    <3>. HIDE DEF n
    <3>. QED BY <2>2
  <2>. QED BY <2>3
<1>. QED BY <1>1, <1>2, <1>3 DEF Bounded, Busy, MoreTxs, CurrentTx

LEMMA AtRestBounded ==
    ASSUME NEW w \in Worker, pc'[w] \in {"idle", "stopped"} PROVE Bounded(w)'
BY DEF Bounded, Busy

LEMMA BoundedStep ==
    ASSUME TypeInv, BoundedInv, [Next]_vars PROVE BoundedInv'
<1>0. LoopTypes
  BY DEF TypeInv, TypeOK
<1>1. ASSUME NEW w \in Worker, pc'[w] = pc[w], msg'[w] = msg[w], ti'[w] = ti[w], ei'[w] = ei[w]
      PROVE  Bounded(w)'
  BY <1>1 DEF BoundedInv, Bounded, Busy, MoreTxs, CurrentTx
<1>2. CASE UNCHANGED loopVars
  BY <1>1, <1>2 DEF loopVars, BoundedInv
<1>3. CASE Crash \/ SendOnClosed
  BY <1>3, AtRestBounded DEF Crash, SendOnClosed, Restart, BoundedInv
<1>4. ASSUME NEW w \in Worker, WorkerStep(w) PROVE Bounded(w)'
  <2>0. Bounded(w)
    BY DEF BoundedInv
  <2>1. ASSUME Leave(w) \/ Fails(w) \/ Goto(w, "stopped") PROVE Bounded(w)'
    BY <1>0, <2>1, AtRestBounded DEF Leave, Fails, Goto, LoopTypes
  <2>2. CASE TakeJob(w)
    <3>1. pc'[w] = "addBlock" /\ ti'[w] = 1 /\ ei'[w] = 1 /\ msg'[w] \in Messages
      BY <1>0, <2>2 DEF TakeJob, LoopTypes, TypeInv, TypeOK, ChannelTypes
    <3>. DEFINE m == msg'[w]
    <3>2. Len(m.txs) \in Nat
      BY <3>1, MessageShape
    <3>3. ASSUME 1 <= Len(m.txs) PROVE 1 <= Len(m.txs[1].events) + 1
      <4>1. 1 \in 1 .. Len(m.txs) /\ m \in Messages
        BY <3>1, <3>2, <3>3
      <4>. HIDE DEF m
      <4>2. Len(m.txs[1].events) \in Nat
        BY <4>1, EventsLen
      <4>. QED BY <4>2
    <3>. QED BY <3>1, <3>2, <3>3 DEF Bounded, Busy, MoreTxs, CurrentTx
  <2>3. CASE StopWorker(w) \/ CallFails(w) \/ SkipBlock(w) \/ FinishBlock(w) \/ RejectValue(w)
    BY <2>1, <2>3 DEF StopWorker, CallFails, SkipBlock, FinishBlock, RejectValue
  <2>4. CASE AddBlock(w) \/ AddTransactions(w)
    <3>1. Busy(w) /\ ti[w] = 1
      BY <2>0, <2>4 DEF AddBlock, AddTransactions, Busy, Bounded
    <3>. QED BY <1>0, <2>0, <2>1, <2>4, <3>1, GotoBounded DEF AddBlock, AddTransactions
  <2>5. CASE EndOfEvents(w) \/ BeginEvent(w)
    <3>1. Busy(w)
      BY <2>5 DEF EndOfEvents, BeginEvent, Parsing, Busy
    <3>. QED BY <1>0, <2>0, <2>5, <3>1, GotoBounded, NextTxBounded DEF EndOfEvents, BeginEvent
  <2>6. CASE SkipEvent(w)
    BY <2>0, <2>6, NextEventBounded DEF SkipEvent, Parsing, Busy
  <2>7. CASE GetFrom(w) \/ GetTo(w) \/ AddFrom(w) \/ AddTo(w)
    <3>1. Busy(w)
      BY <2>7 DEF GetFrom, GetTo, AddFrom, AddTo, Busy
    <3>. QED BY <1>0, <2>0, <2>1, <2>7, <3>1, GotoBounded
             DEF GetFrom, GetTo, AddFrom, AddTo, GetAccount, AddAccount, AfterFrom, AfterTo
  <2>8. CASE IncFrom(w) \/ IncTo(w)
    <3>1. Busy(w) /\ pc[w] \in Handling
      BY <2>8 DEF IncFrom, IncTo, Busy, Handling
    <3>2. MoreEvents(w)
      BY <3>1, HandlingFacts
    <3>. QED BY <1>0, <2>0, <2>1, <2>8, <3>1, <3>2, GotoBounded, NextEventBounded
             DEF IncFrom, IncTo, Increment
  <2>9. CASE AddTransfers(w)
    <3>1. Busy(w) /\ MoreTxs(w)
      BY <2>9 DEF AddTransfers, Busy, TypeInv, LoopOK, WorkerOK
    <3>. QED BY <2>1, <2>9, <3>1, NextTxBounded DEF AddTransfers
  <2>. QED BY <1>4, <2>2, <2>3, <2>4, <2>5, <2>6, <2>7, <2>8, <2>9 DEF WorkerStep
<1>5. ASSUME NEW w \in Worker, WorkerStep(w) PROVE BoundedInv'
  BY <1>1, <1>4, <1>5, OthersStay DEF BoundedInv
<1>. QED BY <1>2, <1>3, <1>5 DEF Next, Environment, Deliver, Cancel, CloseWorkCh, vars

\* The update a worker is about to execute is the next one of its message.
NextUpdate(w) == IF pc[w] = "incFrom" THEN UpdateOf(From(w), CurrentEvent(w), -CurrentEvent(w).value)
                 ELSE UpdateOf(To(w), CurrentEvent(w), CurrentEvent(w).value)
LastUpdate(w) == pc[w] = "incTo" \/ Func(CurrentEvent(w)) = "burn"

LEMMA IncrementFacts ==
    ASSUME TypeInv, KnownRowsInv, CountedInv, NEW w \in Worker, pc[w] \in {"incFrom", "incTo"}
    PROVE  /\ executed[HeightOf(w)] \in Nat
           /\ executed[HeightOf(w)] + 1 <= Len(AllUpdates(msg[w]))
           /\ AllUpdates(msg[w])[executed[HeightOf(w)] + 1] = NextUpdate(w)
           /\ executed[HeightOf(w)] + 1 =
                IF LastUpdate(w) THEN UpdatesBefore(msg[w], ti[w], ei[w] + 1)
                ELSE UpdatesBefore(msg[w], ti[w], ei[w]) + 1
<1>. DEFINE e == CurrentEvent(w)
            m == msg[w]
            u == Updates(e)
            b == UpdatesBefore(m, ti[w], ei[w])
            n == Len(AllUpdates(m))
<1>1. /\ MoreTxs(w) /\ MoreEvents(w) /\ m \in Messages /\ e \in Event
      /\ ~Skipped(e) /\ e.value # BadValue /\ Busy(w) /\ pc[w] \in Owning
      /\ HeightOf(w) \in Height
  BY HandlingFacts DEF Handling, Busy, Owning, RepositoryCalls
<1>2. ti[w] \in 1 .. Len(m.txs) /\ ei[w] \in 1 .. Len(m.txs[ti[w]].events)
      /\ e = m.txs[ti[w]].events[ei[w]]
  BY <1>1, BusyFacts DEF CurrentTx, CurrentEvent
<1>3. /\ b \in Nat /\ UpdatesBefore(m, ti[w], ei[w] + 1) = b + Len(u)
      /\ UpdatesBefore(m, ti[w], ei[w] + 1) <= n
      /\ \A k \in 1 .. Len(u) : AllUpdates(m)[b + k] = u[k]
  <2>. DEFINE i == ti[w]
              j == ei[w]
              v == Updates(m.txs[i].events[j])
  <2>1. m \in Messages /\ i \in 1 .. Len(m.txs) /\ j \in 1 .. Len(m.txs[i].events)
    BY <1>1, <1>2
  <2>2. u = v
    BY <1>2
  <2>. HIDE DEF m, i, j, u, b
  <2>3. /\ UpdatesBefore(m, i, j) \in Nat
        /\ UpdatesBefore(m, i, j + 1) = UpdatesBefore(m, i, j) + Len(v)
        /\ UpdatesBefore(m, i, j + 1) <= Len(AllUpdates(m))
        /\ \A k \in 1 .. Len(v) : AllUpdates(m)[UpdatesBefore(m, i, j) + k] = v[k]
    BY <2>1, BeforeNextEvent
  <2>. HIDE DEF v
  <2>. QED BY <2>2, <2>3 DEF b, i, j
<1>4. executed[HeightOf(w)] = b + (IF pc[w] = "incTo" /\ Func(e) # "mint" THEN 1 ELSE 0)
  BY <1>1 DEF CountedInv, Counted, DoneBy
<1>5. n \in Nat
  <2>1. AllUpdates(m) \in Seq(Update)
    BY <1>1, MessagePlaces
  <2>. QED BY <2>1
<1>6. /\ pc[w] = "incFrom" => Func(e) # "mint"
      /\ pc[w] = "incTo" => Func(e) # "burn"
  BY DEF KnownRowsInv, KnownRows
<1>7. /\ Func(e) = "mint" => u = <<UpdateOf(e.to, e, e.value)>>
      /\ Func(e) = "burn" => u = <<UpdateOf(e.from, e, -e.value)>>
      /\ Func(e) \notin {"mint", "burn"} =>
           u = <<UpdateOf(e.from, e, -e.value), UpdateOf(e.to, e, e.value)>>
  BY <1>1, EventUpdates
<1>8. NextUpdate(w) = IF pc[w] = "incFrom" THEN UpdateOf(e.from, e, -e.value)
                      ELSE UpdateOf(e.to, e, e.value)
  BY DEF NextUpdate, From, To
<1>. HIDE DEF b, u, m, n, e
<1>9. CASE pc[w] = "incTo" /\ Func(e) = "mint"
  <2>1. Len(u) = 1 /\ u[1] = NextUpdate(w)
    BY <1>7, <1>8, <1>9
  <2>2. executed[HeightOf(w)] = b /\ LastUpdate(w)
    BY <1>3, <1>4, <1>9 DEF LastUpdate
  <2>3. AllUpdates(m)[b + 1] = NextUpdate(w)
    BY <1>3, <2>1
  <2>. QED BY <1>3, <2>1, <2>2, <2>3 DEF m, n
<1>10. CASE pc[w] = "incFrom" /\ Func(e) = "burn"
  <2>1. Len(u) = 1 /\ u[1] = NextUpdate(w)
    BY <1>7, <1>8, <1>10
  <2>2. executed[HeightOf(w)] = b /\ LastUpdate(w)
    BY <1>3, <1>4, <1>10 DEF LastUpdate, e
  <2>3. AllUpdates(m)[b + 1] = NextUpdate(w)
    BY <1>3, <2>1
  <2>. QED BY <1>3, <2>1, <2>2, <2>3 DEF m, n
<1>11. CASE pc[w] = "incFrom" /\ Func(e) \notin {"mint", "burn"}
  <2>1. Len(u) = 2 /\ u[1] = NextUpdate(w)
    BY <1>7, <1>8, <1>11
  <2>2. executed[HeightOf(w)] = b /\ ~LastUpdate(w)
    BY <1>3, <1>4, <1>11 DEF LastUpdate, e
  <2>3. AllUpdates(m)[b + 1] = NextUpdate(w)
    BY <1>3, <2>1
  <2>4. b + 1 <= n
    BY <1>3, <1>5, <2>1
  <2>5. executed[HeightOf(w)] + 1 = UpdatesBefore(m, ti[w], ei[w]) + 1
    BY <2>2 DEF b
  <2>. QED BY <1>3, <2>2, <2>3, <2>4, <2>5 DEF m, n
<1>12. CASE pc[w] = "incTo" /\ Func(e) \notin {"mint", "burn"}
  <2>1. Len(u) = 2 /\ u[2] = NextUpdate(w)
    BY <1>7, <1>8, <1>12
  <2>2. executed[HeightOf(w)] = b + 1 /\ LastUpdate(w)
    BY <1>3, <1>4, <1>12 DEF LastUpdate
  <2>3. AllUpdates(m)[b + 2] = NextUpdate(w)
    BY <1>3, <2>1
  <2>4. executed[HeightOf(w)] \in Nat /\ executed[HeightOf(w)] + 1 = b + 2
    BY <1>3, <2>2
  <2>5. UpdatesBefore(m, ti[w], ei[w] + 1) = b + 2 /\ b + 2 <= n
    BY <1>3, <2>1
  <2>. QED BY <2>2, <2>3, <2>4, <2>5 DEF m, n
<1>. QED BY <1>6, <1>9, <1>10, <1>11, <1>12

\* A worker writes the history and the transactions of its own block only.
LEMMA WorkerWrites ==
    ASSUME TypeInv, NEW w \in Worker, WorkerStep(w)
    PROVE  /\ \/ UNCHANGED <<blocks, claim>>
              \/ AddBlock(w)
           /\ \/ executed' = executed
              \/ /\ pc[w] \in {"incFrom", "incTo"}
                 /\ executed' = [executed EXCEPT ![HeightOf(w)] = @ + 1]
           /\ \/ transactions' = transactions
              \/ AddTransactions(w)
<1>1. CASE AddBlock(w) \/ AddTransactions(w)
  BY <1>1 DEF AddBlock, AddTransactions, history
<1>2. CASE IncFrom(w) \/ IncTo(w)
  BY <1>2 DEF IncFrom, IncTo, Increment
<1>3. CASE ~AddBlock(w) /\ ~AddTransactions(w) /\ ~IncFrom(w) /\ ~IncTo(w)
  BY <1>3 DEF WorkerStep, TakeJob, StopWorker, CallFails, SkipBlock, FinishBlock, EndOfEvents,
              SkipEvent, RejectValue, BeginEvent, Parsing, GetFrom, AddFrom, GetTo, AddTo,
              AddTransfers, GetAccount, AddAccount, dbVars, history
<1>. QED BY <1>1, <1>2, <1>3

LEMMA OtherBlocksStay ==
    ASSUME TypeInv, OwnerInv, NEW w \in Worker, WorkerStep(w), NEW v \in Worker \ {w},
           pc[v] \in Owning
    PROVE  /\ executed'[HeightOf(v)] = executed[HeightOf(v)]
           /\ transactions'[HeightOf(v)] = transactions[HeightOf(v)]
<1>0. executed \in [Height -> Nat] /\ transactions \in [Height -> Seq(Tx)]
  BY DEF TypeInv, TypeOK, HistoryTypes, TableTypes
<1>1. HeightOf(v) \in Height /\ Owns(v, HeightOf(v))
  BY HeldFacts DEF Owns, Owning, RepositoryCalls
<1>2. ASSUME pc[w] \in Owning PROVE HeightOf(w) # HeightOf(v)
  BY <1>1, <1>2 DEF OwnerInv, OneOwnerPerBlock, Owns
<1>3. executed'[HeightOf(v)] = executed[HeightOf(v)]
  BY <1>0, <1>1, <1>2, WorkerWrites DEF Owning, RepositoryCalls
<1>4. transactions'[HeightOf(v)] = transactions[HeightOf(v)]
  <2>1. CASE AddTransactions(w)
    BY <1>0, <1>1, <1>2, <2>1 DEF AddTransactions, InsertTransactions, Owning, RepositoryCalls
  <2>. QED BY <2>1, WorkerWrites
<1>. QED BY <1>3, <1>4

\* How a worker's count moves with its loop indices.
LEMMA GotoCounted ==
    ASSUME LoopTypes, NEW w \in Worker, NEW s, Goto(w, s),
           pc[w] \in Owning \ {"incFrom", "incTo"}, Counted(w), executed' = executed,
           s = "incTo" => Func(CurrentEvent(w)) = "mint"
    PROVE  Counted(w)'
<1>1. pc'[w] = s /\ msg'[w] = msg[w] /\ ti'[w] = ti[w] /\ ei'[w] = ei[w]
  BY DEF LoopTypes, Goto, Owning, RepositoryCalls
<1>2. CurrentEvent(w)' = CurrentEvent(w) /\ HeightOf(w)' = HeightOf(w)
  BY <1>1 DEF CurrentEvent, CurrentTx, HeightOf
<1>3. DoneBy(w) = UpdatesBefore(msg[w], ti[w], ei[w]) + 0
  BY DEF DoneBy
<1>4. DoneBy(w)' = UpdatesBefore(msg[w], ti[w], ei[w]) + 0
  BY <1>1, <1>2 DEF DoneBy
<1>. QED BY <1>2, <1>3, <1>4 DEF Counted

\* A worker that begins with its block has executed nothing.
LEMMA BeginCounted ==
    ASSUME TypeInv, NEW w \in Worker, Busy(w), ti[w] = 1, ei[w] = 1, NEW s, Goto(w, s),
           s # "incTo", executed'[HeightOf(w)] = 0
    PROVE  Counted(w)'
<1>1. pc'[w] = s /\ msg'[w] = msg[w] /\ ti'[w] = 1 /\ ei'[w] = 1
  BY DEF TypeInv, TypeOK, LoopTypes, Goto
<1>2. DoneBy(w)' = UpdatesBefore(msg[w], 1, 1) + 0
  BY <1>1 DEF DoneBy
<1>3. UpdatesBefore(msg[w], 1, 1) = 0
  BY BusyFacts, BeforeFirst
<1>. QED BY <1>1, <1>2, <1>3 DEF Counted, HeightOf

LEMMA NextEventCounted ==
    ASSUME TypeInv, NEW w \in Worker, NextEvent(w), Busy(w), MoreEvents(w),
           executed'[HeightOf(w)] = UpdatesBefore(msg[w], ti[w], ei[w] + 1)
    PROVE  Counted(w)'
<1>1. pc'[w] = "parse" /\ msg'[w] = msg[w] /\ ti'[w] = ti[w] /\ ei'[w] = ei[w] + 1
  BY DEF TypeInv, TypeOK, LoopTypes, NextEvent
<1>2. DoneBy(w)' = UpdatesBefore(msg[w], ti[w], ei[w] + 1) + 0
  BY <1>1 DEF DoneBy
<1>3. UpdatesBefore(msg[w], ti[w], ei[w] + 1) \in Nat
  <2>1. /\ msg[w] \in Messages /\ ti[w] \in 1 .. Len(msg[w].txs)
        /\ ei[w] \in 1 .. Len(msg[w].txs[ti[w]].events)
    BY BusyFacts DEF MoreEvents, CurrentTx
  <2>. DEFINE b == UpdatesBefore(msg[w], ti[w], ei[w])
              c == UpdatesBefore(msg[w], ti[w], ei[w] + 1)
              u == Updates(msg[w].txs[ti[w]].events[ei[w]])
  <2>2. b \in Nat /\ c = b + Len(u)
    BY <2>1, BeforeNextEvent
  <2>3. u \in Seq(Update)
    BY <2>1, MessageShape, EventUpdates
  <2>. HIDE DEF b, c, u
  <2>4. Len(u) \in Nat
    BY <2>3
  <2>5. c \in Nat
    BY <2>2, <2>4
  <2>. QED BY <2>5 DEF c
<1>. QED BY <1>1, <1>2, <1>3 DEF Counted, HeightOf

\* After a transaction's last event all of its updates are executed.
LEMMA EndOfTx ==
    ASSUME TypeInv, NEW w \in Worker, MoreTxs(w), ~MoreEvents(w), Bounded(w), Counted(w),
           pc[w] \in Owning \ {"incTo"}
    PROVE  executed[HeightOf(w)] = Len(UpdatesTo(msg[w], ti[w]))
<1>. DEFINE m == msg[w]
            i == ti[w]
            n == Len(m.txs[i].events)
<1>1. Busy(w)
  BY DEF Busy, Owning, RepositoryCalls
<1>2. m \in Messages /\ i \in 1 .. Len(m.txs) /\ ei[w] \in Nat /\ n \in Nat
      /\ ei[w] <= n + 1 /\ ~(ei[w] <= n)
  BY <1>1, BusyFacts DEF Bounded, MoreEvents, CurrentTx
<1>3. ei[w] = n + 1
  <2>. HIDE DEF n
  <2>. QED BY <1>2
<1>4. UpdatesBefore(m, i, n + 1) = Len(UpdatesTo(m, i))
  <2>. HIDE DEF m, i
  <2>. QED BY <1>2, BeforeNextTx DEF n
<1>5. Len(UpdatesTo(m, i)) \in Nat
  <2>1. i \in 0 .. Len(m.txs)
    BY <1>2
  <2>. QED BY <1>2, <2>1, MessagePlaces
<1>6. DoneBy(w) = UpdatesBefore(m, i, ei[w]) + 0
  BY DEF DoneBy
<1>7. executed[HeightOf(w)] = UpdatesBefore(m, i, ei[w]) + 0
  BY <1>6 DEF Counted
<1>. HIDE DEF m, i, n
<1>8. executed[HeightOf(w)] = Len(UpdatesTo(m, i))
  BY <1>3, <1>4, <1>5, <1>7
<1>. QED BY <1>8 DEF m, i

LEMMA NextTxCounted ==
    ASSUME TypeInv, NEW w \in Worker, NextTx(w), MoreTxs(w), ~MoreEvents(w),
           Bounded(w), Counted(w), pc[w] \in Owning \ {"incTo"}, executed' = executed
    PROVE  Counted(w)'
<1>. DEFINE m == msg[w]
            i == ti[w]
<1>1. pc'[w] = "parse" /\ msg'[w] = msg[w] /\ ti'[w] = ti[w] + 1 /\ ei'[w] = 1
  BY DEF TypeInv, TypeOK, LoopTypes, NextTx
<1>2. m \in Messages /\ i \in 1 .. Len(m.txs)
  BY BusyFacts DEF Busy, Owning, RepositoryCalls
<1>3. UpdatesBefore(m, i + 1, 1) = Len(UpdatesTo(m, i))
  <2>. HIDE DEF m, i
  <2>. QED BY <1>2, BeforeNextTx
<1>4. Len(UpdatesTo(m, i)) \in Nat
  <2>1. i \in 0 .. Len(m.txs)
    BY <1>2
  <2>. QED BY <1>2, <2>1, MessagePlaces
<1>5. DoneBy(w)' = UpdatesBefore(m, i + 1, 1) + 0
  BY <1>1 DEF DoneBy
<1>6. HeightOf(w)' = HeightOf(w)
  BY <1>1 DEF HeightOf
<1>7. executed[HeightOf(w)] = Len(UpdatesTo(m, i))
  BY EndOfTx
<1>8. DoneBy(w)' = Len(UpdatesTo(m, i))
  <2>. HIDE DEF m, i
  <2>. QED BY <1>3, <1>4, <1>5
<1>. QED BY <1>6, <1>7, <1>8 DEF Counted

LEMMA IncrementCounted ==
    ASSUME TypeInv, KnownRowsInv, CountedInv, NEW w \in Worker, IncFrom(w) \/ IncTo(w)
    PROVE  Counted(w)'
<1>0. /\ LoopTypes /\ Busy(w) /\ pc[w] \in {"incFrom", "incTo"} /\ MoreEvents(w)
      /\ HeightOf(w) \in Height /\ executed \in [Height -> Nat]
  BY HandlingFacts DEF IncFrom, IncTo, Handling, Busy, TypeInv, TypeOK, HistoryTypes
<1>1. executed'[HeightOf(w)] = executed[HeightOf(w)] + 1
  BY <1>0 DEF IncFrom, IncTo, Increment
<1>2. CASE Fails(w)
  BY <1>0, <1>2, LeaveKeeps DEF Fails, Counted, Owning, RepositoryCalls
<1>3. CASE LastUpdate(w) /\ NextEvent(w)
  BY <1>0, <1>1, <1>3, IncrementFacts, NextEventCounted
<1>4. CASE ~LastUpdate(w) /\ Goto(w, "incTo")
  <2>1. pc'[w] = "incTo" /\ msg'[w] = msg[w] /\ ti'[w] = ti[w] /\ ei'[w] = ei[w]
    BY <1>0, <1>4 DEF LoopTypes, Goto
  <2>2. CurrentEvent(w)' = CurrentEvent(w) /\ HeightOf(w)' = HeightOf(w)
    BY <2>1 DEF CurrentEvent, CurrentTx, HeightOf
  <2>3. Func(CurrentEvent(w)) # "mint"
    BY <1>0, <1>4 DEF LastUpdate, KnownRowsInv, KnownRows
  <2>4. DoneBy(w)' = UpdatesBefore(msg[w], ti[w], ei[w]) + 1
    BY <2>1, <2>2, <2>3 DEF DoneBy
  <2>. QED BY <1>0, <1>1, <1>4, <2>2, <2>4, IncrementFacts DEF Counted
<1>5. Fails(w) \/ (LastUpdate(w) /\ NextEvent(w)) \/ (~LastUpdate(w) /\ Goto(w, "incTo"))
  BY DEF IncFrom, IncTo, Increment, LastUpdate
<1>. QED BY <1>2, <1>3, <1>4, <1>5

\* Before a block is inserted nothing was executed or written for it.
FreshInv == \A h \in Height \ blocks : executed[h] = 0 /\ transactions[h] = << >>

LEMMA CountedWorkerStep ==
    ASSUME TypeInv, KnownRowsInv, BoundedInv, CountedInv, FreshInv,
           NEW w \in Worker, WorkerStep(w)
    PROVE  Counted(w)'
<1>0. LoopTypes /\ Bounded(w) /\ Counted(w)
  BY DEF TypeInv, TypeOK, BoundedInv, CountedInv
<1>1. ASSUME Leave(w) \/ Fails(w) \/ Goto(w, "stopped") \/ TakeJob(w) PROVE Counted(w)'
  BY <1>0, <1>1 DEF Leave, Fails, Goto, TakeJob, LoopTypes, Counted, Owning, RepositoryCalls
<1>2. CASE StopWorker(w) \/ CallFails(w) \/ SkipBlock(w) \/ FinishBlock(w) \/ RejectValue(w)
  BY <1>1, <1>2 DEF StopWorker, CallFails, SkipBlock, FinishBlock, RejectValue
<1>3. CASE AddBlock(w)
  <2>1. Busy(w) /\ ti[w] = 1 /\ ei[w] = 1 /\ HeightOf(w) \in Height
    BY <1>0, <1>3, BusyFacts DEF AddBlock, Busy, Bounded, TypeInv, LoopOK, WorkerOK
  <2>2. executed'[HeightOf(w)] = 0
    BY <1>3, <2>1 DEF AddBlock, BlockExists, FreshInv
  <2>. QED BY <1>1, <1>3, <2>1, <2>2, BeginCounted DEF AddBlock
<1>4. CASE AddTransactions(w)
  <2>1. Goto(w, "parse") \/ Fails(w)
    BY <1>4 DEF AddTransactions
  <2>. QED BY <1>0, <1>1, <1>4, <2>1, GotoCounted
           DEF AddTransactions, history, Owning, RepositoryCalls
<1>5. CASE EndOfEvents(w)
  <2>1. /\ MoreTxs(w) /\ ~MoreEvents(w) /\ executed' = executed
        /\ pc[w] \in Owning \ {"incFrom", "incTo"}
    BY <1>5 DEF EndOfEvents, Parsing, Owning, RepositoryCalls
  <2>2. NextTx(w) \/ Goto(w, "addTransfers")
    BY <1>5 DEF EndOfEvents
  <2>. QED BY <1>0, <2>1, <2>2, NextTxCounted, GotoCounted
<1>6. CASE SkipEvent(w)
  <2>1. /\ Busy(w) /\ MoreEvents(w) /\ Skipped(CurrentEvent(w)) /\ executed' = executed
        /\ NextEvent(w) /\ pc[w] = "parse" /\ MoreTxs(w)
    BY <1>6 DEF SkipEvent, Parsing, Busy, MoreEvents
  <2>. DEFINE m == msg[w]
              i == ti[w]
              j == ei[w]
              u == Updates(m.txs[i].events[j])
  <2>2. m \in Messages /\ i \in 1 .. Len(m.txs) /\ j \in 1 .. Len(m.txs[i].events)
    BY <2>1, BusyFacts DEF CurrentTx
  <2>3. m.txs[i].events[j] = CurrentEvent(w) /\ CurrentEvent(w) \in Event
    BY <2>1, <2>2, MessageShape DEF CurrentEvent, CurrentTx
  <2>4. u = << >> /\ Len(<< >>) = 0
    BY <2>1, <2>3, EventUpdates
  <2>5. UpdatesBefore(m, i, j) \in Nat
        /\ UpdatesBefore(m, i, j + 1) = UpdatesBefore(m, i, j) + Len(u)
    <3>. HIDE DEF m, i, j
    <3>. QED BY <2>2, BeforeNextEvent
  <2>6. UpdatesBefore(m, i, j + 1) = UpdatesBefore(m, i, j)
    <3>. HIDE DEF m, i, j, u
    <3>. QED BY <2>4, <2>5
  <2>7. executed[HeightOf(w)] = UpdatesBefore(m, i, j) + 0
    BY <1>0, <2>1 DEF Counted, DoneBy, Owning
  <2>8. executed[HeightOf(w)] = UpdatesBefore(m, i, j + 1)
    <3>. HIDE DEF m, i, j, u
    <3>. QED BY <2>5, <2>6, <2>7
  <2>. QED BY <2>1, <2>8, NextEventCounted
<1>7. CASE BeginEvent(w)
  <2>1. executed' = executed /\ pc[w] \in Owning \ {"incFrom", "incTo"}
    BY <1>7 DEF BeginEvent, Parsing, Owning, RepositoryCalls
  <2>2. Goto(w, "getTo") \/ Goto(w, "getFrom")
    BY <1>7 DEF BeginEvent
  <2>. QED BY <1>0, <2>1, <2>2, GotoCounted
<1>8. CASE GetFrom(w) \/ GetTo(w) \/ AddFrom(w) \/ AddTo(w)
  <2>1. executed' = executed /\ pc[w] \in Owning \ {"incFrom", "incTo"}
    BY <1>8 DEF GetFrom, GetTo, AddFrom, AddTo, GetAccount, AddAccount, history, Owning,
                RepositoryCalls
  <2>2. Leave(w) \/ Fails(w)
        \/ \E s : Goto(w, s) /\ (s = "incTo" => Func(CurrentEvent(w)) = "mint")
    BY <1>8 DEF GetFrom, GetTo, AddFrom, AddTo, GetAccount, AddAccount, AfterFrom, AfterTo
  <2>. QED BY <1>0, <1>1, <2>1, <2>2, GotoCounted
<1>9. CASE IncFrom(w) \/ IncTo(w)
  BY <1>9, IncrementCounted
<1>10. CASE AddTransfers(w)
  <2>1. /\ MoreTxs(w) /\ ~MoreEvents(w) /\ executed' = executed
        /\ pc[w] \in Owning \ {"incFrom", "incTo"}
    BY <1>10 DEF AddTransfers, TypeInv, LoopOK, WorkerOK, history, Owning, RepositoryCalls
  <2>2. NextTx(w) \/ Leave(w) \/ Fails(w)
    BY <1>10 DEF AddTransfers
  <2>. QED BY <1>0, <1>1, <2>1, <2>2, NextTxCounted
<1>. QED BY <1>1, <1>2, <1>3, <1>4, <1>5, <1>6, <1>7, <1>8, <1>9, <1>10 DEF WorkerStep

\* A step is a worker's, or it leaves tables and history alone and the workers
\* where they are or all idle.
LEMMA StepKinds ==
    ASSUME [Next]_vars
    PROVE  \/ \E w \in Worker : WorkerStep(w)
           \/ /\ UNCHANGED <<dbVars, history>>
              /\ UNCHANGED loopVars \/ \A w \in Worker : pc'[w] = "idle"
BY DEF Next, Environment, Deliver, Cancel, Crash, SendOnClosed, Restart, CloseWorkCh, vars

LEMMA CountedStep ==
    ASSUME TypeInv, OwnerInv, KnownRowsInv, BoundedInv, CountedInv, FreshInv, [Next]_vars
    PROVE  CountedInv'
<1>1. ASSUME NEW w \in Worker, executed' = executed,
             pc'[w] = pc[w], msg'[w] = msg[w], ti'[w] = ti[w], ei'[w] = ei[w]
      PROVE  Counted(w)'
  BY <1>1 DEF CountedInv, Counted, DoneBy, CurrentEvent, CurrentTx, HeightOf
<1>2. ASSUME NEW w \in Worker, WorkerStep(w), NEW v \in Worker \ {w} PROVE Counted(v)'
  <2>1. pc'[v] = pc[v] /\ msg'[v] = msg[v] /\ ti'[v] = ti[v] /\ ei'[v] = ei[v]
    BY <1>2, OthersStay
  <2>2. pc[v] \in Owning => executed'[HeightOf(v)] = executed[HeightOf(v)]
    BY <1>2, OtherBlocksStay
  <2>. QED BY <2>1, <2>2 DEF CountedInv, Counted, DoneBy, CurrentEvent, CurrentTx, HeightOf
<1>3. ASSUME NEW w \in Worker, WorkerStep(w) PROVE CountedInv'
  BY <1>2, <1>3, CountedWorkerStep DEF CountedInv
<1>4. CASE UNCHANGED <<dbVars, history>> /\ UNCHANGED loopVars
  BY <1>1, <1>4 DEF history, loopVars, CountedInv
<1>5. CASE \A w \in Worker : pc'[w] = "idle"
  BY <1>5 DEF CountedInv, Counted, Owning, RepositoryCalls
<1>. QED BY <1>3, <1>4, <1>5, StepKinds

\* History and transactions of a block without a row: nobody owns it.
LEMMA FreshStep ==
    ASSUME TypeInv, OwnerInv, FreshInv, [Next]_vars PROVE FreshInv'
<1>. SUFFICES ASSUME NEW h \in Height \ blocks'
              PROVE  executed'[h] = 0 /\ transactions'[h] = << >>
  BY DEF FreshInv
<1>1. blocks \subseteq blocks'
  BY OwnerSteps, AddBlockOwners, FinishBlockOwners DEF Quiet
<1>2. \A w \in Worker : ~Owns(w, h)
  BY <1>1 DEF OwnerInv, OneOwnerPerBlock
<1>3. executed'[h] = executed[h] /\ transactions'[h] = transactions[h]
  BY <1>2, WritesByOwner
<1>. QED BY <1>1, <1>3 DEF FreshInv

\* Claims stay, and the executed updates of a block only grow.
LEMMA HistoryGrows ==
    ASSUME TypeInv, OwnerInv, [Next]_vars
    PROVE  /\ blocks \subseteq blocks'
           /\ \A h \in blocks : /\ h \in Height /\ claim'[h] = claim[h]
                              /\ executed[h] <= executed'[h]
<1>0. executed \in [Height -> Nat] /\ claim \in [Height -> Messages \cup {NoMessage}]
      /\ blocks \subseteq Height
  BY DEF TypeInv, TypeOK, TableTypes, HistoryTypes
<1>1. blocks \subseteq blocks' /\ \A h \in blocks : claim'[h] = claim[h]
  <2>1. CASE Quiet
    BY <2>1 DEF Quiet
  <2>2. ASSUME NEW w \in Worker, AddBlock(w)
        PROVE  blocks \subseteq blocks' /\ \A h \in blocks : claim'[h] = claim[h]
    BY <1>0, <2>2, AddBlockOwners
  <2>3. ASSUME NEW w \in Worker, FinishBlock(w)
        PROVE  blocks \subseteq blocks' /\ \A h \in blocks : claim'[h] = claim[h]
    BY <2>3, FinishBlockOwners
  <2>. QED BY <2>1, <2>2, <2>3, OwnerSteps
<1>2. ASSUME NEW h \in blocks PROVE executed[h] <= executed'[h]
  <2>1. CASE executed' = executed
    BY <1>0, <2>1
  <2>2. ASSUME NEW w \in Worker, executed' = [executed EXCEPT ![HeightOf(w)] = @ + 1]
        PROVE  executed[h] <= executed'[h]
    BY <1>0, <2>2
  <2>. QED BY <2>1, <2>2, StepKinds, WorkerWrites DEF history
<1>. QED BY <1>0, <1>1, <1>2

\* A claimed block's count never exceeds what its message prescribes.
ClaimedInv == \A h \in blocks : /\ claim[h] \in Messages
                                /\ executed[h] <= Len(AllUpdates(claim[h]))

LEMMA ClaimedStep ==
    ASSUME TypeInv, OwnerInv, KnownRowsInv, CountedInv, FreshInv, ClaimedInv, [Next]_vars
    PROVE  ClaimedInv'
<1>. SUFFICES ASSUME NEW h \in blocks'
              PROVE  claim'[h] \in Messages /\ executed'[h] <= Len(AllUpdates(claim'[h]))
  BY DEF ClaimedInv, AllUpdates, UpdatesTo, Joined, TxUpdates, TxUpdatesTo
<1>0. executed \in [Height -> Nat] /\ claim \in [Height -> Messages \cup {NoMessage}]
      /\ blocks \subseteq Height
  BY DEF TypeInv, TypeOK, TableTypes, HistoryTypes
<1>1. CASE h \in blocks
  <2>1. claim'[h] = claim[h] /\ claim[h] \in Messages
    BY <1>1, HistoryGrows DEF ClaimedInv
  <2>2. CASE executed'[h] = executed[h]
    BY <1>1, <2>1, <2>2 DEF ClaimedInv
  <2>3. CASE executed'[h] # executed[h]
    <3>1. PICK w \in Worker : /\ pc[w] \in {"incFrom", "incTo"} /\ WorkerStep(w)
                              /\ executed' = [executed EXCEPT ![HeightOf(w)] = @ + 1]
      BY <2>3, StepKinds, WorkerWrites DEF history
    <3>2. h = HeightOf(w) /\ executed'[h] = executed[h] + 1
      BY <1>0, <1>1, <2>3, <3>1
    <3>3. claim[h] = msg[w]
      BY <1>0, <1>1, <3>1, <3>2 DEF OwnerInv, OneOwnerPerBlock, Owns, Owning, RepositoryCalls
    <3>. QED BY <2>1, <3>1, <3>2, <3>3, IncrementFacts
  <2>. QED BY <2>2, <2>3
<1>2. CASE h \notin blocks
  <2>1. PICK w \in Worker : AddBlock(w)
    BY <1>2, OwnerSteps, FinishBlockOwners DEF Quiet
  <2>0. msg[w] \in Messages /\ HeightOf(w) \in Height
    BY <2>1, HeldFacts DEF AddBlock
  <2>1a. executed' = executed /\ claim' = [claim EXCEPT ![HeightOf(w)] = msg[w]]
    BY <2>1 DEF AddBlock
  <2>1b. h = HeightOf(w)
    BY <1>2, <2>1 DEF AddBlock, InsertBlock
  <2>2. h = HeightOf(w) /\ h \in Height /\ claim'[h] = msg[w] /\ msg[w] \in Messages
        /\ executed' = executed
    BY <1>0, <2>0, <2>1a, <2>1b
  <2>3. executed'[h] = 0
    BY <1>2, <2>2 DEF FreshInv
  <2>4. Len(AllUpdates(msg[w])) \in Nat
    <3>. DEFINE s == AllUpdates(msg[w])
    <3>1. s \in Seq(Update)
      BY <2>2, MessagePlaces
    <3>. HIDE DEF s
    <3>2. Len(s) \in Nat
      BY <3>1
    <3>. QED BY <3>2 DEF s
  <2>. QED BY <2>2, <2>3, <2>4
<1>. QED BY <1>1, <1>2

ProgressInv == BoundedInv /\ CountedInv /\ FreshInv /\ ClaimedInv
LedgerBase == TypeInv /\ OwnerInv /\ KnownRowsInv /\ ProgressInv

LEMMA LedgerBaseInit == Init => LedgerBase
<1>. SUFFICES ASSUME Init PROVE LedgerBase
  OBVIOUS
<1>1. OwnerInv /\ KnownRowsInv
  BY DEF Init, DBInit, OwnerInv, OneOwnerPerBlock, Owns, Owning, RepositoryCalls,
         KnownRowsInv, KnownRows
<1>2. BoundedInv /\ CountedInv
  BY DEF Init, BoundedInv, Bounded, Busy, CountedInv, Counted, Owning, RepositoryCalls
<1>3. FreshInv /\ ClaimedInv
  BY DEF Init, DBInit, FreshInv, ClaimedInv
<1>. QED BY <1>1, <1>2, <1>3, TypeInvInit DEF LedgerBase, ProgressInv

LEMMA LedgerBaseStep == LedgerBase /\ [Next]_vars => LedgerBase'
BY TypeInvStep, OwnerInvStep, KnownRowsStep, BoundedStep, CountedStep, FreshStep, ClaimedStep
   DEF LedgerBase, ProgressInv

---------------------------------------------------------------------------
(* What is written of a block besides its balance updates                  *)

Recorded(tx) == TransferRows(tx) \in ToSet(transfers[tx.hash]) \cup {{}}

\* The rows a worker has behind it: the block's transactions, and the transfers
\* of the transactions it is past.
Written(w) ==
    pc[w] \in Owning =>
        /\ transactions[HeightOf(w)] = IF pc[w] = "addTransactions" THEN << >> ELSE msg[w].txs
        /\ \A i \in 1 .. Len(msg[w].txs) : i < ti[w] => Recorded(msg[w].txs[i])
WrittenInv == \A w \in Worker : Written(w)

LEMMA RecordedStays ==
    ASSUME TypeInv, [Next]_vars, NEW tx, tx.hash \in Hash, Recorded(tx)
    PROVE  Recorded(tx)'
<1>1. CASE transfers' = transfers
  BY <1>1 DEF Recorded
<1>2. ASSUME NEW x \in Hash, NEW rows \in SUBSET TransferRow, InsertTransfers(x, rows)
      PROVE  Recorded(tx)'
  <2>. DEFINE s == transfers[tx.hash]
              r == TransferRows(tx)
  <2>0. transfers \in [Hash -> Seq(SUBSET TransferRow)]
    BY DEF TypeInv, TypeOK, TableTypes
  <2>1. s \in Seq(SUBSET TransferRow)
    BY <2>0
  <2>2. transfers'[tx.hash] \in {s, Append(s, rows)}
    BY <2>0, <1>2 DEF InsertTransfers
  <2>3. r \in ToSet(s) \cup {{}}
    BY DEF Recorded
  <2>4. ToSet(s) \subseteq ToSet(Append(s, rows))
    <3>. HIDE DEF s
    <3>. QED BY <2>1 DEF ToSet
  <2>. HIDE DEF s, r
  <2>5. r \in ToSet(transfers'[tx.hash]) \cup {{}}
    BY <2>2, <2>3, <2>4
  <2>. QED BY <2>5 DEF Recorded, r
<1>. QED BY <1>1, <1>2, TransferSteps

LEMMA InsertRecords ==
    ASSUME TypeInv, NEW tx, tx.hash \in Hash, InsertTransfers(tx.hash, TransferRows(tx))
    PROVE  Recorded(tx)'
<1>. DEFINE s == transfers[tx.hash]
            r == TransferRows(tx)
<1>0. transfers \in [Hash -> Seq(SUBSET TransferRow)]
  BY DEF TypeInv, TypeOK, TableTypes
<1>1. s \in Seq(SUBSET TransferRow)
  BY <1>0
<1>2. transfers'[tx.hash] = Append(s, r)
  BY <1>0 DEF InsertTransfers
<1>. HIDE DEF s, r
<1>3. Len(Append(s, r)) \in DOMAIN Append(s, r) /\ Append(s, r)[Len(Append(s, r))] = r
  BY <1>1
<1>4. r \in ToSet(transfers'[tx.hash])
  BY <1>2, <1>3 DEF ToSet
<1>. QED BY <1>4 DEF Recorded, r

\* A worker that stays in its block, past the transactions' insert.
LEMMA GoesOnWritten ==
    ASSUME TypeInv, [Next]_vars, NEW w \in Worker, Written(w), pc[w] \in Owning,
           pc[w] # "addTransactions", pc'[w] # "addTransactions", msg'[w] = msg[w],
           transactions' = transactions,
           \/ ti'[w] = ti[w]
           \/ ti'[w] = ti[w] + 1 /\ \E tx : tx = CurrentTx(w) /\ Recorded(tx)'
    PROVE  Written(w)'
<1>1. Busy(w) /\ HeightOf(w)' = HeightOf(w)
  BY DEF Busy, Owning, RepositoryCalls, HeightOf
<1>2. msg[w] \in Messages /\ ti[w] \in Nat
  BY <1>1, BusyFacts
<1>3. ASSUME NEW i \in 1 .. Len(msg[w].txs), i < ti'[w] PROVE Recorded(msg[w].txs[i])'
  <2>1. msg[w].txs[i].hash \in Hash
    BY <1>2, MessageShape
  <2>2. CASE i < ti[w]
    BY <2>1, <2>2, RecordedStays DEF Written
  <2>3. CASE ~(i < ti[w])
    <3>1. i = ti[w] /\ ti'[w] # ti[w]
      BY <1>2, <1>3, <2>3
    <3>2. PICK tx : tx = CurrentTx(w) /\ Recorded(tx)'
      BY <3>1
    <3>3. tx = msg[w].txs[i]
      BY <3>1, <3>2 DEF CurrentTx
    <3>. QED BY <3>2, <3>3
  <2>. QED BY <2>2, <2>3
<1>. QED BY <1>1, <1>3 DEF Written

LEMMA BeginWritten ==
    ASSUME TypeInv, BoundedInv, WrittenInv, FreshInv, NEW w \in Worker,
           AddBlock(w) \/ AddTransactions(w)
    PROVE  Written(w)'
<1>0. /\ LoopTypes /\ Busy(w) /\ ti[w] = 1 /\ transactions \in [Height -> Seq(Tx)]
      /\ HeightOf(w) \in Height /\ msg[w].txs \in Seq(Tx)
  <2>1. LoopTypes /\ Busy(w) /\ ti[w] = 1 /\ transactions \in [Height -> Seq(Tx)]
    BY DEF TypeInv, TypeOK, TableTypes, AddBlock, AddTransactions, Busy, BoundedInv, Bounded
  <2>. QED BY <2>1, HeldFacts DEF Busy
<1>1. CASE Fails(w)
  BY <1>0, <1>1, LeaveKeeps DEF Fails, Written, Owning, RepositoryCalls
<1>2. ASSUME NEW s, Goto(w, s), s # "addTransactions",
             transactions'[HeightOf(w)] = msg[w].txs
      PROVE  Written(w)'
  <2>1. pc'[w] = s /\ msg'[w] = msg[w] /\ ti'[w] = 1
    BY <1>0, <1>2 DEF LoopTypes, Goto
  <2>. QED BY <1>2, <2>1 DEF Written, HeightOf
<1>3. CASE AddBlock(w)
  <2>1. transactions' = transactions /\ transactions[HeightOf(w)] = << >>
    BY <1>0, <1>3 DEF AddBlock, FreshInv, BlockExists
  <2>2. CASE Goto(w, "parse") /\ msg[w].txs = << >>
    BY <1>2, <2>1, <2>2
  <2>3. CASE Goto(w, "addTransactions")
    <3>1. pc'[w] = "addTransactions" /\ msg'[w] = msg[w] /\ ti'[w] = 1
      BY <1>0, <2>3 DEF LoopTypes, Goto
    <3>. QED BY <2>1, <3>1 DEF Written, HeightOf
  <2>. QED BY <1>1, <1>3, <2>2, <2>3 DEF AddBlock
<1>4. CASE AddTransactions(w)
  <2>1. transactions[HeightOf(w)] = << >>
    BY <1>4 DEF AddTransactions, WrittenInv, Written, Owning, RepositoryCalls
  <2>2. transactions'[HeightOf(w)] = << >> \o msg[w].txs
    BY <1>0, <1>4, <2>1 DEF AddTransactions, InsertTransactions
  <2>3. << >> \o msg[w].txs = msg[w].txs
    <3>. DEFINE s == msg[w].txs
    <3>1. s \in Seq(Tx)
      BY <1>0
    <3>. HIDE DEF s
    <3>2. << >> \o s = s
      BY <3>1
    <3>. QED BY <3>2 DEF s
  <2>. QED BY <1>1, <1>2, <1>4, <2>2, <2>3 DEF AddTransactions
<1>. QED BY <1>3, <1>4

LEMMA WrittenWorkerStep ==
    ASSUME TypeInv, BoundedInv, WrittenInv, FreshInv, [Next]_vars,
           NEW w \in Worker, WorkerStep(w)
    PROVE  Written(w)'
<1>0. LoopTypes /\ Written(w)
  BY DEF TypeInv, TypeOK, WrittenInv
<1>1. ASSUME Leave(w) \/ Fails(w) \/ Goto(w, "stopped") \/ TakeJob(w) PROVE Written(w)'
  BY <1>0, <1>1 DEF Leave, Fails, Goto, TakeJob, LoopTypes, Written, Owning, RepositoryCalls
<1>2. CASE StopWorker(w) \/ CallFails(w) \/ SkipBlock(w) \/ FinishBlock(w) \/ RejectValue(w)
           \/ TakeJob(w)
  BY <1>1, <1>2 DEF StopWorker, CallFails, SkipBlock, FinishBlock, RejectValue
<1>3. CASE AddBlock(w) \/ AddTransactions(w)
  BY <1>3, BeginWritten
<1>4. ASSUME pc[w] \in Owning, pc[w] # "addTransactions", transactions' = transactions
      PROVE  /\ \A s : Goto(w, s) /\ s # "addTransactions" => Written(w)'
             /\ NextEvent(w) => Written(w)'
             /\ NextTx(w) /\ (\E tx : tx = CurrentTx(w) /\ Recorded(tx)') => Written(w)'
  <2>1. ASSUME NEW s, Goto(w, s), s # "addTransactions" PROVE Written(w)'
    <3>1. pc'[w] # "addTransactions" /\ msg'[w] = msg[w] /\ ti'[w] = ti[w]
      BY <1>0, <2>1 DEF LoopTypes, Goto
    <3>. QED BY <1>0, <1>4, <3>1, GoesOnWritten
  <2>2. ASSUME NextEvent(w) PROVE Written(w)'
    <3>1. pc'[w] # "addTransactions" /\ msg'[w] = msg[w] /\ ti'[w] = ti[w]
      BY <1>0, <2>2 DEF LoopTypes, NextEvent
    <3>. QED BY <1>0, <1>4, <3>1, GoesOnWritten
  <2>3. ASSUME NextTx(w), \E tx : tx = CurrentTx(w) /\ Recorded(tx)' PROVE Written(w)'
    <3>1. pc'[w] # "addTransactions" /\ msg'[w] = msg[w] /\ ti'[w] = ti[w] + 1
      BY <1>0, <2>3 DEF LoopTypes, NextTx
    <3>. QED BY <1>0, <1>4, <2>3, <3>1, GoesOnWritten
  <2>. QED BY <2>1, <2>2, <2>3
<1>5. CASE SkipEvent(w) \/ BeginEvent(w)
  <2>1. pc[w] \in Owning /\ pc[w] # "addTransactions" /\ transactions' = transactions
    BY <1>5 DEF SkipEvent, BeginEvent, Parsing, Owning, dbVars
  <2>2. NextEvent(w) \/ Goto(w, "getTo") \/ Goto(w, "getFrom")
    BY <1>5 DEF SkipEvent, BeginEvent
  <2>. QED BY <1>4, <2>1, <2>2
<1>6. CASE GetFrom(w) \/ GetTo(w) \/ AddFrom(w) \/ AddTo(w) \/ IncFrom(w) \/ IncTo(w)
  <2>1. pc[w] \in Owning /\ pc[w] # "addTransactions" /\ transactions' = transactions
    BY <1>6 DEF GetFrom, GetTo, AddFrom, AddTo, IncFrom, IncTo, GetAccount, AddAccount,
                Increment, Owning, RepositoryCalls, dbVars
  <2>2. \/ Leave(w) \/ Fails(w) \/ NextEvent(w)
        \/ \E s \in {"addFrom", "addTo", "getTo", "incFrom", "incTo"} : Goto(w, s)
    BY <1>6 DEF GetFrom, GetTo, AddFrom, AddTo, IncFrom, IncTo, GetAccount, AddAccount,
                Increment, AfterFrom, AfterTo
  <2>. QED BY <1>1, <1>4, <2>1, <2>2
<1>7. CASE EndOfEvents(w) \/ AddTransfers(w)
  <2>1. pc[w] \in Owning /\ pc[w] # "addTransactions" /\ transactions' = transactions
    BY <1>7 DEF EndOfEvents, AddTransfers, Parsing, Owning, RepositoryCalls, dbVars
  <2>2. MoreTxs(w)
    BY <1>7 DEF EndOfEvents, AddTransfers, TypeInv, LoopOK, WorkerOK
  <2>3. PICK tx : tx = CurrentTx(w)
    OBVIOUS
  <2>4. tx.hash \in Hash
    BY <2>1, <2>2, <2>3, HeldFacts DEF Owning, RepositoryCalls
  <2>5. \/ Leave(w) \/ Fails(w) \/ Goto(w, "addTransfers")
        \/ NextTx(w) /\ (TransferRows(tx) = {} \/ InsertTransfers(tx.hash, TransferRows(tx)))
    BY <1>7, <2>3 DEF EndOfEvents, AddTransfers
  <2>6. TransferRows(tx) = {} => Recorded(tx)'
    BY DEF Recorded
  <2>7. InsertTransfers(tx.hash, TransferRows(tx)) => Recorded(tx)'
    BY <2>4, InsertRecords
  <2>. QED BY <1>1, <1>4, <2>1, <2>3, <2>5, <2>6, <2>7
<1>. QED BY <1>2, <1>3, <1>5, <1>6, <1>7 DEF WorkerStep

LEMMA WrittenStep ==
    ASSUME TypeInv, OwnerInv, BoundedInv, WrittenInv, FreshInv, [Next]_vars
    PROVE  WrittenInv'
<1>1. ASSUME NEW v \in Worker, pc'[v] = pc[v], msg'[v] = msg[v], ti'[v] = ti[v],
             pc[v] \in Owning => transactions'[HeightOf(v)] = transactions[HeightOf(v)]
      PROVE  Written(v)'
  <2>. SUFFICES ASSUME pc[v] \in Owning PROVE Written(v)'
    BY <1>1 DEF Written
  <2>1. msg[v] \in Messages
    BY HeldFacts DEF Owning, RepositoryCalls
  <2>2. ASSUME NEW i \in 1 .. Len(msg[v].txs), i < ti[v] PROVE Recorded(msg[v].txs[i])'
    <3>1. msg[v].txs[i].hash \in Hash /\ Recorded(msg[v].txs[i])
      BY <2>1, <2>2, MessageShape DEF WrittenInv, Written
    <3>2. PICK tx : tx = msg[v].txs[i]
      OBVIOUS
    <3>3. Recorded(tx)' 
      BY <3>1, <3>2, RecordedStays
    <3>. QED BY <1>1, <3>2, <3>3
  <2>3. \A i \in 1 .. Len(msg'[v].txs) : i < ti'[v] => Recorded(msg[v].txs[i])'
    BY <1>1, <2>2
  <2>. QED BY <1>1, <2>3 DEF WrittenInv, Written, HeightOf
<1>2. ASSUME NEW w \in Worker, WorkerStep(w) PROVE WrittenInv'
  <2>1. ASSUME NEW v \in Worker \ {w} PROVE Written(v)'
    BY <1>1, <1>2, OthersStay, OtherBlocksStay
  <2>. QED BY <1>2, <2>1, WrittenWorkerStep DEF WrittenInv
<1>3. CASE UNCHANGED <<dbVars, history>> /\ UNCHANGED loopVars
  BY <1>1, <1>3 DEF dbVars, loopVars, WrittenInv
<1>4. CASE \A w \in Worker : pc'[w] = "idle"
  BY <1>4 DEF WrittenInv, Written, Owning, RepositoryCalls
<1>. QED BY <1>2, <1>3, <1>4, StepKinds

---------------------------------------------------------------------------
(* Indexed blocks and recorded transfers                                   *)

\* What IndexedIsWhole says of the counts and rows a block has; that its updates
\* found their rows follows from the balances' invariant below.
WholeCore ==
    \A h \in indexed :
        /\ transactions[h] = claim[h].txs
        /\ executed[h] = Len(AllUpdates(claim[h]))
        /\ \A i \in DOMAIN claim[h].txs : Recorded(claim[h].txs[i])

LEMMA WholeStep ==
    ASSUME LedgerBase, WrittenInv, WholeCore, [Next]_vars PROVE WholeCore'
<1>0. TypeInv /\ OwnerInv /\ BoundedInv /\ CountedInv /\ ClaimedInv
  BY DEF LedgerBase, ProgressInv
<1>. SUFFICES ASSUME NEW h \in indexed', NEW m, m = claim'[h]
              PROVE  /\ transactions'[h] = m.txs
                     /\ executed'[h] = Len(AllUpdates(m))
                     /\ \A i \in DOMAIN m.txs : Recorded(m.txs[i])'
  BY DEF WholeCore, Recorded, AllUpdates, UpdatesTo, Joined, TxUpdates, TxUpdatesTo
<1>1. CASE h \in indexed
  <2>1. h \in blocks /\ h \in Height /\ m = claim[h] /\ m \in Messages
    BY <1>0, <1>1, HistoryGrows DEF OwnerInv, ClaimedInv
  <2>2. \A w \in Worker : ~Owns(w, h)
    BY <1>0, <1>1, <2>1 DEF OwnerInv, OneOwnerPerBlock
  <2>3. executed'[h] = executed[h] /\ transactions'[h] = transactions[h]
    BY <1>0, <2>1, <2>2, WritesByOwner
  <2>4. ASSUME NEW i \in DOMAIN m.txs PROVE Recorded(m.txs[i])'
    <3>0. m.txs \in Seq(Tx)
      BY <2>1, MessageShape
    <3>1. i \in 1 .. Len(m.txs) /\ m.txs[i].hash \in Hash
      <4>1. i \in 1 .. Len(m.txs)
        BY <3>0
      <4>. QED BY <2>1, <4>1, MessageShape
    <3>2. Recorded(m.txs[i])
      BY <1>1, <2>1 DEF WholeCore, Recorded
    <3>. QED BY <1>0, <3>1, <3>2, RecordedStays
  <2>5. transactions[h] = m.txs /\ executed[h] = Len(AllUpdates(m))
    BY <1>1, <2>1 DEF WholeCore
  <2>. QED BY <2>3, <2>4, <2>5
<1>2. CASE h \notin indexed
  <2>1. PICK w \in Worker : FinishBlock(w)
    BY <1>0, <1>2, OwnerSteps, AddBlockOwners DEF Quiet
  <2>2. /\ pc[w] = "parse" /\ ~MoreTxs(w) /\ h = HeightOf(w) /\ h \in Height
        /\ UNCHANGED <<executed, transactions, transfers, claim>>
    BY <1>0, <1>2, <2>1, FinishBlockOwners DEF FinishBlock, Parsing, dbVars
  <2>3. Busy(w) /\ pc[w] \in Owning /\ pc[w] # "addTransactions" /\ Owns(w, h)
    BY <2>2 DEF Busy, Owning, RepositoryCalls, Owns
  <2>4. m = msg[w] /\ m \in Messages
    BY <1>0, <2>2, <2>3, BusyFacts DEF OwnerInv, OneOwnerPerBlock
  <2>5. ti[w] = Len(m.txs) + 1 /\ Len(m.txs) \in Nat
    BY <1>0, <2>2, <2>3, <2>4, BusyFacts DEF BoundedInv, Bounded, MoreTxs
  <2>6. executed[h] = Len(AllUpdates(m))
    <3>1. executed[h] = UpdatesBefore(m, Len(m.txs) + 1, ei[w]) + 0
      BY <1>0, <2>2, <2>3, <2>4, <2>5 DEF CountedInv, Counted, DoneBy
    <3>2. UpdatesBefore(m, Len(m.txs) + 1, ei[w]) = Len(AllUpdates(m))
      BY <2>4, BeforeEnd
    <3>3. executed[h] \in Nat
      BY <1>0, <2>2 DEF TypeInv, TypeOK, HistoryTypes
    <3>4. Len(AllUpdates(m)) \in Nat
      <4>. DEFINE s == AllUpdates(m)
      <4>1. s \in Seq(Update)
        BY <2>4, MessagePlaces
      <4>. HIDE DEF s
      <4>2. Len(s) \in Nat
        BY <4>1
      <4>. QED BY <4>2 DEF s
    <3>. QED BY <3>1, <3>2, <3>3, <3>4
  <2>7. transactions[h] = m.txs /\ \A i \in 1 .. Len(m.txs) : i < ti[w] => Recorded(m.txs[i])
    BY <2>2, <2>3, <2>4 DEF WrittenInv, Written
  <2>8. ASSUME NEW i \in DOMAIN m.txs PROVE Recorded(m.txs[i])'
    <3>1. i \in 1 .. Len(m.txs) /\ i < ti[w]
      BY <2>4, <2>5, MessageShape
    <3>. QED BY <2>2, <2>7, <3>1 DEF Recorded
  <2>. QED BY <2>2, <2>6, <2>7, <2>8
<1>. QED BY <1>1, <1>2

WholeInv == LedgerBase /\ WrittenInv /\ WholeCore

LEMMA WholeInvInit == Init => WholeInv
<1>. SUFFICES ASSUME Init PROVE WholeInv
  OBVIOUS
<1>1. WrittenInv /\ WholeCore
  BY DEF Init, WrittenInv, Written, Owning, RepositoryCalls, WholeCore
<1>. QED BY <1>1, LedgerBaseInit DEF WholeInv

LEMMA WholeInvStep == WholeInv /\ [Next]_vars => WholeInv'
BY LedgerBaseStep, WrittenStep, WholeStep DEF WholeInv, LedgerBase, ProgressInv

\* A claimed block whose transaction of hash x has all its updates executed.
Backed(x) == \E h \in blocks : \E i \in DOMAIN claim[h].txs :
                 claim[h].txs[i].hash = x /\ executed[h] >= Len(UpdatesTo(claim[h], i))

LEMMA BackedStays ==
    ASSUME LedgerBase, [Next]_vars, NEW x, Backed(x) PROVE Backed(x)'
<1>0. TypeInv /\ OwnerInv /\ ClaimedInv
  BY DEF LedgerBase, ProgressInv
<1>0a. PICK h \in blocks : \E i \in DOMAIN claim[h].txs :
         claim[h].txs[i].hash = x /\ executed[h] >= Len(UpdatesTo(claim[h], i))
  BY DEF Backed
<1>1. PICK i \in DOMAIN claim[h].txs :
        claim[h].txs[i].hash = x /\ executed[h] >= Len(UpdatesTo(claim[h], i))
  BY <1>0a
<1>2. PICK m \in Messages : m = claim[h]
  BY <1>0 DEF ClaimedInv
<1>3. h \in blocks' /\ claim'[h] = m /\ executed[h] <= executed'[h]
      /\ executed[h] \in Nat /\ executed'[h] \in Nat
  <2>1. h \in blocks' /\ claim'[h] = m /\ executed[h] <= executed'[h] /\ h \in Height
    BY <1>0, <1>2, HistoryGrows
  <2>. QED BY <1>0, <2>1, TypeInvStep DEF TypeInv, TypeOK, HistoryTypes
<1>4. Len(UpdatesTo(m, i)) \in Nat
  <2>1. i \in 1 .. Len(m.txs)
    BY <1>2, MessageShape
  <2>. QED BY <2>1, MessagePlaces
<1>5. executed'[h] >= Len(UpdatesTo(m, i))
  <2>. DEFINE n == Len(UpdatesTo(m, i))
  <2>1. executed[h] >= n /\ n \in Nat
    BY <1>1, <1>2, <1>4
  <2>. HIDE DEF n
  <2>2. executed'[h] >= n
    BY <1>3, <2>1
  <2>. QED BY <2>2 DEF n
<1>6. h \in blocks' /\ i \in DOMAIN claim'[h].txs /\ claim'[h].txs[i].hash = x
      /\ executed'[h] >= Len(UpdatesTo(claim'[h], i))
  BY <1>1, <1>2, <1>3, <1>5
<1>. QED BY <1>6 DEF Backed, UpdatesTo, Joined, TxUpdates, TxUpdatesTo

LEMMA FollowStep ==
    ASSUME LedgerBase, TransfersFollowBalances, [Next]_vars PROVE TransfersFollowBalances'
<1>0. TypeInv /\ OwnerInv /\ BoundedInv /\ CountedInv /\ ClaimedInv
  BY DEF LedgerBase, ProgressInv
<1>. SUFFICES ASSUME NEW x \in Hash, transfers'[x] # << >> PROVE Backed(x)'
  BY DEF TransfersFollowBalances, Backed, UpdatesTo, Joined, TxUpdates, TxUpdatesTo
<1>1. CASE transfers[x] # << >>
  <2>1. Backed(x)
    BY <1>1 DEF TransfersFollowBalances, Backed
  <2>. QED BY <2>1, BackedStays
<1>2. CASE transfers[x] = << >>
  <2>1. PICK w \in Worker : AddTransfers(w) /\ InsertTransfers(CurrentTx(w).hash,
                                                               TransferRows(CurrentTx(w)))
    BY <1>2 DEF Next, Environment, Deliver, Cancel, Crash, SendOnClosed, Restart, CloseWorkCh,
                vars, WorkerStep, TakeJob, StopWorker, CallFails, AddBlock, SkipBlock,
                AddTransactions, FinishBlock, EndOfEvents, SkipEvent, RejectValue, BeginEvent,
                Parsing, GetFrom, AddFrom, GetTo, AddTo, IncFrom, IncTo, GetAccount, AddAccount,
                Increment, AddTransfers, dbVars
  <2>2. pc[w] = "addTransfers" /\ UNCHANGED <<blocks, claim, executed>>
    BY <2>1 DEF AddTransfers, history
  <2>3. Busy(w) /\ pc[w] \in Owning \ {"incTo"} /\ MoreTxs(w) /\ ~MoreEvents(w)
    BY <2>2 DEF Busy, Owning, RepositoryCalls, TypeInv, LoopOK, WorkerOK, LedgerBase
  <2>4. executed[HeightOf(w)] = Len(UpdatesTo(msg[w], ti[w]))
    BY <1>0, <2>3, EndOfTx DEF BoundedInv, CountedInv
  <2>5. x = CurrentTx(w).hash
    BY <1>0, <1>2, <2>1 DEF InsertTransfers, TypeInv, TypeOK, TableTypes
  <2>6. HeightOf(w) \in blocks /\ claim[HeightOf(w)] = msg[w]
    BY <1>0, <2>3, BusyFacts DEF OwnerInv, OneOwnerPerBlock, Owns
  <2>7. ti[w] \in DOMAIN msg[w].txs /\ executed[HeightOf(w)] \in Nat
    <3>1. msg[w].txs \in Seq(Tx) /\ ti[w] \in 1 .. Len(msg[w].txs) /\ HeightOf(w) \in Height
      BY <1>0, <2>3, BusyFacts, HeldFacts DEF Busy
    <3>. QED BY <1>0, <3>1 DEF TypeInv, TypeOK, HistoryTypes
  <2>8. Backed(x)
    <3>. DEFINE n == Len(UpdatesTo(msg[w], ti[w]))
    <3>. HIDE DEF n
    <3>1. executed[HeightOf(w)] >= n
      BY <2>4, <2>7 DEF n
    <3>. QED BY <2>5, <2>6, <2>7, <3>1 DEF Backed, CurrentTx, n
  <2>. QED BY <2>8, BackedStays
<1>. QED BY <1>1, <1>2

\* A recorded transfer never runs ahead of the balances: whichever worker wrote
\* it for whichever block, that block's updates up to the end of the transfer's
\* transaction were executed before.
THEOREM TransfersAreBacked == Spec => []TransfersFollowBalances
<1>1. Init => LedgerBase /\ TransfersFollowBalances
  BY LedgerBaseInit DEF Init, DBInit, TransfersFollowBalances
<1>2. LedgerBase /\ TransfersFollowBalances /\ [Next]_vars
        => LedgerBase' /\ TransfersFollowBalances'
  BY LedgerBaseStep, FollowStep
<1>. QED BY <1>1, <1>2, PTL DEF Spec

---------------------------------------------------------------------------
(* Transfers are recorded once for each place                              *)

PlaceOf(h, i, x) == h \in blocks /\ i \in DOMAIN claim[h].txs /\ claim[h].txs[i].hash = x

LEMMA CarriedPlaces == \A x, p : p \in Carried(x) <=> \E h, i : p = <<h, i>> /\ PlaceOf(h, i, x)
BY DEF Carried, PlaceOf

LEMMA PlaceFacts ==
    ASSUME LedgerBase, NEW x, NEW p \in Carried(x)
    PROVE  /\ p[1] \in blocks /\ claim[p[1]] \in Messages /\ p[2] \in Nat
           /\ p = <<p[1], p[2]>> /\ PlaceOf(p[1], p[2], x)
<1>1. PICK h, i : p = <<h, i>> /\ PlaceOf(h, i, x)
  BY CarriedPlaces
<1>2. h \in blocks /\ claim[h] \in Messages /\ i \in DOMAIN claim[h].txs
  BY <1>1 DEF PlaceOf, LedgerBase, ProgressInv, ClaimedInv
<1>3. i \in Nat
  BY <1>2, MessageShape
<1>. QED BY <1>1, <1>2, <1>3

\* The places that no worker has before it.
Passed(x) == {p \in Carried(x) : \A w \in Worker : Owns(w, p[1]) => p[2] < ti[w]}

OnceInv == \A x \in Hash : /\ IsFiniteSet(Carried(x))
                           /\ Len(transfers[x]) <= Cardinality(Passed(x))

\* Who owns a claimed block after a step owned it before, and did not go back.
LEMMA OwnersGoOn ==
    ASSUME LedgerBase, [Next]_vars, NEW w \in Worker, NEW h \in blocks, Owns(w, h)'
    PROVE  Owns(w, h) /\ ti[w] <= ti'[w] /\ ti[w] \in Nat /\ ti'[w] \in Nat
<1>0. TypeInv /\ OwnerInv /\ LoopTypes /\ LoopTypes' /\ h \in Height
  BY TypeInvStep DEF LedgerBase, TypeInv, TypeOK, TableTypes
<1>1. Owns(w, h)
  <2>1. CASE KeepsOwners
    BY <2>1 DEF KeepsOwners, Owns, HeightOf
  <2>2. ASSUME NEW v \in Worker, AddBlock(v) PROVE Owns(w, h)
    BY <1>0, <2>2, AddBlockOwners DEF Owns, HeightOf
  <2>. QED BY <1>0, <2>1, <2>2, OwnerSteps, FinishBlockOwners DEF Quiet
<1>2. ti'[w] \in {ti[w], ti[w] + 1}
  <2>1. ASSUME WorkerStep(w) PROVE ti'[w] \in {ti[w], ti[w] + 1}
    <3>1. TakeJob(w) \/ Leave(w) \/ NextEvent(w) \/ NextTx(w) \/ \E s : Goto(w, s)
      BY <2>1 DEF WorkerStep, StopWorker, CallFails, AddBlock, SkipBlock, AddTransactions,
                  FinishBlock, EndOfEvents, SkipEvent, RejectValue, BeginEvent, GetFrom,
                  AddFrom, GetTo, AddTo, IncFrom, IncTo, AddTransfers, GetAccount, AddAccount,
                  Increment, Fails
    <3>2. ~TakeJob(w) /\ ~Leave(w)
      BY <1>0 DEF LoopTypes, TakeJob, Leave, Owns, Owning, RepositoryCalls
    <3>. QED BY <1>0, <3>1, <3>2 DEF LoopTypes, NextEvent, NextTx, Goto
  <2>2. ASSUME NEW v \in Worker \ {w}, WorkerStep(v) PROVE ti'[w] = ti[w]
    BY <1>0, <2>2, OthersStay
  <2>3. CASE UNCHANGED loopVars
    BY <2>3 DEF loopVars
  <2>4. CASE \A v \in Worker : pc'[v] = "idle"
    BY <2>4 DEF Owns, Owning, RepositoryCalls
  <2>. QED BY <2>1, <2>2, <2>3, <2>4, StepKinds
<1>. QED BY <1>0, <1>1, <1>2 DEF LoopTypes

\* A place stays, and so does its having been passed.
LEMMA PlacesStay ==
    ASSUME LedgerBase, [Next]_vars, NEW x
    PROVE  Carried(x) \subseteq Carried(x)' /\ Passed(x) \subseteq Passed(x)'
<1>0. TypeInv /\ OwnerInv
  BY DEF LedgerBase
<1>1. ASSUME NEW p \in Carried(x) PROVE p \in Carried(x)'
  <2>1. PICK h, i : p = <<h, i>> /\ PlaceOf(h, i, x)
    BY CarriedPlaces
  <2>2. h \in blocks' /\ claim'[h] = claim[h]
    BY <1>0, <2>1, HistoryGrows DEF PlaceOf
  <2>. QED BY <2>1, <2>2 DEF Carried, PlaceOf
<1>2. ASSUME NEW p \in Passed(x) PROVE p \in Passed(x)'
  <2>1. p \in Carried(x) /\ p \in Carried(x)'
    BY <1>1 DEF Passed
  <2>2. p[1] \in blocks /\ p[2] \in Nat
    BY <2>1, PlaceFacts
  <2>3. ASSUME NEW w \in Worker, Owns(w, p[1])' PROVE p[2] < ti'[w]
    <3>1. Owns(w, p[1]) /\ ti[w] <= ti'[w] /\ ti[w] \in Nat /\ ti'[w] \in Nat
      BY <2>2, <2>3, OwnersGoOn
    <3>2. p[2] < ti[w]
      BY <3>1 DEF Passed
    <3>. QED BY <2>2, <3>1, <3>2
  <2>. QED BY <2>1, <2>3 DEF Passed
<1>. QED BY <1>1, <1>2

\* A step claims one message at most, so the places stay finitely many.
LEMMA PlacesStayFinite ==
    ASSUME LedgerBase, [Next]_vars, NEW x, IsFiniteSet(Carried(x))
    PROVE  IsFiniteSet(Carried(x)')
<1>0. TypeInv /\ OwnerInv
  BY DEF LedgerBase
<1>1. CASE UNCHANGED <<blocks, claim>>
  BY <1>1 DEF Carried
<1>2. ASSUME NEW w \in Worker, AddBlock(w) PROVE IsFiniteSet(Carried(x)')
  <2>1. PICK h, m : h = HeightOf(w) /\ m = msg[w]
    OBVIOUS
  <2>2. blocks' = blocks \cup {h} /\ h \in Height /\ claim' = [claim EXCEPT ![h] = m]
    BY <1>0, <1>2, <2>1, AddBlockOwners
  <2>3. m \in Messages
    BY <1>0, <1>2, <2>1, BusyFacts DEF AddBlock, Busy
  <2>4. DOMAIN m.txs = 1 .. Len(m.txs) /\ Len(m.txs) \in Nat
    BY <2>3, MessageShape
  <2>5. PICK T : T = {h} \X (1 .. Len(m.txs))
    OBVIOUS
  <2>6. IsFiniteSet(T)
    <3>1. IsFiniteSet({h})
      BY FS_Singleton
    <3>2. ASSUME NEW n \in Nat PROVE IsFiniteSet(1 .. n)
      <4>1. 1 \in Int /\ n \in Int
        OBVIOUS
      <4>. QED BY <4>1, FS_Interval
    <3>. QED BY <2>4, <2>5, <3>1, <3>2, FS_Product
  <2>7. ASSUME NEW p \in Carried(x)' PROVE p \in Carried(x) \cup T
    <3>1. PICK g, i : /\ p = <<g, i>> /\ g \in blocks'
                      /\ i \in DOMAIN claim'[g].txs /\ claim'[g].txs[i].hash = x
      BY DEF Carried
    <3>2. claim'[g] = IF g = h THEN m ELSE claim[g]
      BY <1>0, <2>2, <3>1 DEF TypeInv, TypeOK, TableTypes, HistoryTypes
    <3>3. CASE g = h
      BY <2>4, <2>5, <3>1, <3>2, <3>3
    <3>4. CASE g # h
      BY <2>2, <3>1, <3>2, <3>4, CarriedPlaces DEF PlaceOf
    <3>. QED BY <3>3, <3>4
  <2>8. IsFiniteSet(Carried(x) \cup T)
    BY <2>6, FS_Union
  <2>. QED BY <2>7, <2>8, FS_Subset
<1>. QED BY <1>0, <1>1, <1>2, OwnerSteps, FinishBlockOwners DEF Quiet

\* An AddTransfers passes the place its transfers are recorded for.
LEMMA RecordingPasses ==
    ASSUME LedgerBase, [Next]_vars, NEW w \in Worker, AddTransfers(w),
           NEW x, x = CurrentTx(w).hash, InsertTransfers(x, TransferRows(CurrentTx(w)))
    PROVE  \E p \in Passed(x)' : p \notin Passed(x)
<1>0. TypeInv /\ OwnerInv /\ ClaimedInv /\ LoopTypes
  BY DEF LedgerBase, ProgressInv, TypeInv, TypeOK
<1>1. PICK h, i : h = HeightOf(w) /\ i = ti[w]
  OBVIOUS
<1>2. pc[w] \in Owning /\ Busy(w) /\ MoreTxs(w) /\ UNCHANGED <<blocks, claim>>
  BY <1>0 DEF AddTransfers, Busy, Owning, RepositoryCalls, TypeInv, LoopOK, WorkerOK, history
<1>3. Owns(w, h) /\ h \in Height /\ h \in blocks /\ claim[h] = msg[w]
  BY <1>0, <1>1, <1>2, BusyFacts DEF OwnerInv, OneOwnerPerBlock, Owns
<1>4. i \in DOMAIN msg[w].txs /\ i \in Nat
  BY <1>0, <1>1, <1>2, BusyFacts, MessageShape
<1>5. PlaceOf(h, i, x)
  BY <1>1, <1>3, <1>4 DEF PlaceOf, CurrentTx
<1>6. PICK p : p = <<h, i>>
  OBVIOUS
<1>7. p \notin Passed(x)
  BY <1>1, <1>3, <1>4, <1>6 DEF Passed
<1>8. p \in Passed(x)'
  <2>1. p \in Carried(x)'
    BY <1>5, <1>6, CarriedPlaces, PlacesStay
  <2>2. ASSUME NEW v \in Worker, Owns(v, h)' PROVE i < ti'[v]
    <3>1. v = w
      <4>1. Owns(v, h)
        BY <1>3, <2>2, OwnersGoOn
      <4>. QED BY <1>0, <1>3, <4>1 DEF OwnerInv, OneOwnerPerBlock
    <3>2. ~Leave(w)
      BY <1>0, <2>2, <3>1, LeaveKeeps DEF Owns, Owning, RepositoryCalls
    <3>3. NextTx(w)
      BY <3>2 DEF AddTransfers, Fails
    <3>. QED BY <1>0, <1>1, <1>4, <3>1, <3>3 DEF NextTx, LoopTypes
  <2>. QED BY <1>6, <2>1, <2>2 DEF Passed
<1>. QED BY <1>7, <1>8

LEMMA OnceStep == ASSUME LedgerBase, OnceInv, [Next]_vars PROVE OnceInv'
<1>0. transfers \in [Hash -> Seq(SUBSET TransferRow)]
  BY DEF LedgerBase, TypeInv, TypeOK, TableTypes
<1>. SUFFICES ASSUME NEW x \in Hash
              PROVE  /\ IsFiniteSet(Carried(x)')
                     /\ Len(transfers'[x]) <= Cardinality(Passed(x)')
  BY DEF OnceInv, Carried, Passed, Owns, HeightOf
<1>1. IsFiniteSet(Carried(x)')
  BY PlacesStayFinite DEF OnceInv
<1>2. PICK P, Q : P = Passed(x) /\ Q = Passed(x)'
  OBVIOUS
<1>3. IsFiniteSet(Q) /\ P \subseteq Q /\ IsFiniteSet(P)
  <2>1. Q \subseteq Carried(x)' /\ P \subseteq Q
    BY <1>2, PlacesStay DEF Passed
  <2>. QED BY <1>1, <2>1, FS_Subset
<1>4. /\ Len(transfers[x]) \in Nat /\ Len(transfers[x]) <= Cardinality(P)
      /\ Cardinality(P) \in Nat /\ Cardinality(Q) \in Nat /\ Cardinality(P) <= Cardinality(Q)
  BY <1>0, <1>2, <1>3, FS_Subset, FS_CardinalityType DEF OnceInv
<1>5. CASE transfers'[x] = transfers[x]
  BY <1>1, <1>2, <1>4, <1>5
<1>6. CASE transfers'[x] # transfers[x]
  <2>1. PICK w \in Worker : AddTransfers(w) /\ InsertTransfers(CurrentTx(w).hash,
                                                               TransferRows(CurrentTx(w)))
    BY <1>6 DEF Next, Environment, Deliver, Cancel, Crash, SendOnClosed, Restart, CloseWorkCh,
                vars, WorkerStep, TakeJob, StopWorker, CallFails, AddBlock, SkipBlock,
                AddTransactions, FinishBlock, EndOfEvents, SkipEvent, RejectValue, BeginEvent,
                Parsing, GetFrom, AddFrom, GetTo, AddTo, IncFrom, IncTo, GetAccount, AddAccount,
                Increment, AddTransfers, dbVars
  <2>2. x = CurrentTx(w).hash
    BY <1>0, <1>6, <2>1 DEF InsertTransfers
  <2>3. Len(transfers'[x]) = Len(transfers[x]) + 1
    <3>. DEFINE s == transfers[x]
                r == TransferRows(CurrentTx(w))
    <3>1. s \in Seq(SUBSET TransferRow) /\ transfers'[x] = Append(s, r)
      BY <1>0, <2>1, <2>2 DEF InsertTransfers
    <3>. HIDE DEF s, r
    <3>2. Len(Append(s, r)) = Len(s) + 1
      BY <3>1
    <3>. QED BY <3>1, <3>2 DEF s
  <2>4. PICK p : p \in Q /\ p \notin P
    BY <1>2, <2>1, <2>2, RecordingPasses
  <2>5. Cardinality(P \cup {p}) = Cardinality(P) + 1
    BY <1>3, <2>4, FS_AddElement
  <2>6. Cardinality(P \cup {p}) <= Cardinality(Q)
    BY <1>3, <2>4, FS_Subset
  <2>. QED BY <1>1, <1>2, <1>4, <2>3, <2>5, <2>6
<1>. QED BY <1>5, <1>6

\* A transaction's transfers are recorded at most once for each place of a
\* claimed message it stands at: no redelivery, race, failure after the insert or
\* crash records them again.
THEOREM TransfersAreRecordedOnce == Spec => []TransfersOnce
<1>1. LedgerBase /\ OnceInv => TransfersOnce
  <2>. SUFFICES ASSUME LedgerBase, OnceInv, NEW x \in Hash
                PROVE  Len(transfers[x]) <= Cardinality(Carried(x))
    BY DEF TransfersOnce
  <2>1. Passed(x) \subseteq Carried(x) /\ IsFiniteSet(Carried(x))
    BY DEF Passed, OnceInv
  <2>2. /\ Cardinality(Passed(x)) <= Cardinality(Carried(x))
        /\ Cardinality(Passed(x)) \in Nat /\ Cardinality(Carried(x)) \in Nat
    BY <2>1, FS_Subset, FS_CardinalityType
  <2>3. Len(transfers[x]) \in Nat
    BY DEF LedgerBase, TypeInv, TypeOK, TableTypes
  <2>. QED BY <2>2, <2>3 DEF OnceInv
<1>2. Init => LedgerBase /\ OnceInv
  <2>. SUFFICES ASSUME Init PROVE OnceInv
    BY LedgerBaseInit
  <2>. SUFFICES ASSUME NEW x \in Hash
                PROVE  IsFiniteSet(Carried(x)) /\ Len(transfers[x]) <= Cardinality(Passed(x))
    BY DEF OnceInv
  <2>1. Carried(x) = {} /\ Passed(x) = {}
    BY DEF Init, DBInit, Carried, Passed
  <2>2. transfers[x] = << >>
    BY DEF Init, DBInit
  <2>3. Len(transfers[x]) = 0
    BY <2>2
  <2>. QED BY <2>1, <2>3, FS_EmptySet
<1>3. LedgerBase /\ OnceInv /\ [Next]_vars => LedgerBase' /\ OnceInv'
  BY LedgerBaseStep, OnceStep
<1>. QED BY <1>1, <1>2, <1>3, PTL DEF Spec

---------------------------------------------------------------------------
(* Balances                                                                *)

\* One more summand.
LEMMA SumOfMore ==
    ASSUME NEW f, NEW g, IsFiniteSet(DOMAIN f), NEW x, x \notin DOMAIN f,
           DOMAIN g = DOMAIN f \cup {x}, \A i \in DOMAIN f : f[i] \in Int /\ g[i] = f[i],
           g[x] \in Int
    PROVE  SumFunction(g) = SumFunction(f) + g[x]
<1>. DEFINE S == DOMAIN f
<1>1. \A i \in S \cup {x} : g[i] \in Int
  OBVIOUS
<1>2. SumFunctionOnSet(g, S \cup {x}) = SumFunctionOnSet(g, S) + g[x]
  BY <1>1, SumAdd
<1>3. SumFunctionOnSet(g, S) = SumFunctionOnSet(f, S)
  BY SumSame
<1>. QED BY <1>2, <1>3 DEF SumFunction

LEMMA SumOfNone == ASSUME NEW f, DOMAIN f = {} PROVE SumFunction(f) = 0
BY FS_EmptySet, SumUnfolds DEF SumFunction

Deltas(a, t) == [x \in ExecutedOn(a, t) |-> UpdateAt(x).delta]

LEMMA ExecutedPlaces ==
    \A x : x \in Executed <=> \E h \in blocks : \E n \in 1 .. executed[h] : x = <<h, n>>
BY DEF Executed

LEMMA UpdatesTyped == ASSUME LedgerBase, NEW x \in Executed PROVE UpdateAt(x) \in Update
<1>0. ClaimedInv /\ executed \in [Height -> Nat] /\ blocks \subseteq Height
  BY DEF LedgerBase, ProgressInv, TypeInv, TypeOK, TableTypes, HistoryTypes
<1>1. PICK h \in blocks : \E n \in 1 .. executed[h] : x = <<h, n>>
  BY ExecutedPlaces
<1>2. PICK n \in 1 .. executed[h] : x = <<h, n>>
  BY <1>1
<1>. DEFINE s == AllUpdates(claim[h])
<1>3. claim[h] \in Messages /\ executed[h] <= Len(s)
  BY <1>0 DEF ClaimedInv
<1>4. s \in Seq(Update) /\ executed[h] \in Nat
  BY <1>0, <1>3, MessagePlaces
<1>. HIDE DEF s
<1>5. n \in 1 .. Len(s)
  BY <1>3, <1>4
<1>6. s[n] \in Update
  BY <1>4, <1>5
<1>. QED BY <1>2, <1>6 DEF UpdateAt, s

LEMMA UpdateAtNext == \A x : UpdateAt(x)' = AllUpdates(claim'[x[1]])[x[2]]
BY DEF UpdateAt, AllUpdates, UpdatesTo, Joined, TxUpdates, TxUpdatesTo

\* What was executed stays executed.
LEMMA ExecutedStays ==
    ASSUME LedgerBase, [Next]_vars, NEW x \in Executed
    PROVE  x \in Executed' /\ UpdateAt(x)' = UpdateAt(x)
<1>0. TypeInv /\ OwnerInv /\ executed \in [Height -> Nat]
  BY DEF LedgerBase, TypeInv, TypeOK, HistoryTypes
<1>1. PICK h \in blocks : \E n \in 1 .. executed[h] : x = <<h, n>>
  BY ExecutedPlaces
<1>2. PICK n \in 1 .. executed[h] : x = <<h, n>>
  BY <1>1
<1>3. h \in blocks' /\ h \in Height /\ claim'[h] = claim[h] /\ executed[h] <= executed'[h]
  BY <1>0, HistoryGrows
<1>4. executed'[h] \in Nat /\ executed[h] \in Nat
  BY <1>0, <1>3, TypeInvStep DEF TypeInv, TypeOK, HistoryTypes
<1>5. n \in 1 .. executed'[h]
  BY <1>3, <1>4
<1>6. x \in Executed'
  BY <1>2, <1>3, <1>5 DEF Executed
<1>7. UpdateAt(x)' = UpdateAt(x)
  <2>1. x[1] = h /\ claim'[x[1]] = claim[x[1]]
    BY <1>2, <1>3
  <2>. QED BY <2>1, UpdateAtNext DEF UpdateAt
<1>. QED BY <1>6, <1>7

\* The steps that execute an update, that insert an account, and the others.
LEMMA LedgerSteps ==
    ASSUME [Next]_vars
    PROVE  \/ \E w \in Worker : IncFrom(w) \/ IncTo(w)
           \/ /\ executed' = executed
              /\ \/ accounts' = accounts
                 \/ \E a, t : AddAccountAllowed(a, t) /\ InsertAccount(a, t)
<1>1. ASSUME NEW w \in Worker, AddFrom(w) \/ AddTo(w)
      PROVE  /\ executed' = executed
             /\ \/ accounts' = accounts
                \/ \E a, t : AddAccountAllowed(a, t) /\ InsertAccount(a, t)
  BY <1>1 DEF AddFrom, AddTo, AddAccount, history
<1>2. ASSUME NEW w \in Worker, WorkerStep(w), ~AddFrom(w), ~AddTo(w), ~IncFrom(w), ~IncTo(w)
      PROVE  executed' = executed /\ accounts' = accounts
  BY <1>2 DEF WorkerStep, TakeJob, StopWorker, CallFails, AddBlock, SkipBlock, AddTransactions,
              FinishBlock, EndOfEvents, SkipEvent, RejectValue, BeginEvent, Parsing, GetFrom,
              GetTo, AddTransfers, GetAccount, dbVars, history
<1>3. CASE UNCHANGED <<dbVars, history>>
  BY <1>3 DEF dbVars, history
<1>. QED BY <1>1, <1>2, <1>3, StepKinds

LEMMA NothingExecuted ==
    ASSUME LedgerBase, [Next]_vars, executed' = executed PROVE Executed' = Executed
<1>0. TypeInv /\ OwnerInv /\ FreshInv /\ executed \in [Height -> Nat]
  BY DEF LedgerBase, ProgressInv, TypeInv, TypeOK, HistoryTypes
<1>1. ASSUME NEW x \in Executed' PROVE x \in Executed
  <2>1. PICK h \in blocks' : \E n \in 1 .. executed'[h] : x = <<h, n>>
    BY DEF Executed
  <2>2. PICK n \in 1 .. executed'[h] : x = <<h, n>>
    BY <2>1
  <2>3. h \in Height
    BY <1>0, TypeInvStep DEF TypeInv, TypeOK, TableTypes
  <2>4. n \in 1 .. executed[h] /\ executed[h] # 0
    BY <1>0, <2>3
  <2>5. h \in blocks
    BY <1>0, <2>3, <2>4 DEF FreshInv
  <2>. QED BY <2>2, <2>4, <2>5, ExecutedPlaces
<1>2. \A x \in Executed : x \in Executed'
  BY ExecutedStays
<1>. QED BY <1>1, <1>2

\* An increment executes the one update it names.
LEMMA OneExecuted ==
    ASSUME LedgerBase, [Next]_vars, NEW w \in Worker, IncFrom(w) \/ IncTo(w)
    PROVE  \E x : /\ x \notin Executed /\ Executed' = Executed \cup {x}
                  /\ UpdateAt(x)' = NextUpdate(w)
<1>0. /\ TypeInv /\ OwnerInv /\ KnownRowsInv /\ CountedInv
      /\ executed \in [Height -> Nat] /\ blocks \subseteq Height
  BY DEF LedgerBase, ProgressInv, TypeInv, TypeOK, HistoryTypes, TableTypes
<1>1. PICK h : h = HeightOf(w)
  OBVIOUS
<1>2. pc[w] \in {"incFrom", "incTo"} /\ pc[w] \in Owning /\ UNCHANGED <<blocks, claim>>
  BY DEF IncFrom, IncTo, Increment, Owning, RepositoryCalls
<1>3. executed' = [executed EXCEPT ![h] = @ + 1]
  BY <1>1 DEF IncFrom, IncTo, Increment
<1>4. h \in blocks /\ claim[h] = msg[w] /\ h \in Height
  BY <1>0, <1>1, <1>2, HeldFacts DEF OwnerInv, OneOwnerPerBlock, Owns
<1>5. PICK n \in Nat : n = executed[h]
  BY <1>0, <1>4
<1>6. executed'[h] = n + 1 /\ \A g \in blocks \ {h} : executed'[g] = executed[g]
  BY <1>0, <1>3, <1>4, <1>5
<1>. DEFINE x == <<h, n + 1>>
<1>7. x \notin Executed
  BY <1>5, ExecutedPlaces
<1>8. Executed' = Executed \cup {x}
  <2>1. \A y \in Executed : y \in Executed'
    BY ExecutedStays
  <2>2. x \in Executed'
    <3>1. n + 1 \in 1 .. executed'[h] /\ h \in blocks'
      BY <1>2, <1>4, <1>6
    <3>. QED BY <3>1 DEF Executed
  <2>3. ASSUME NEW y \in Executed', y # x PROVE y \in Executed
    <3>1. PICK g \in blocks : \E k \in 1 .. executed'[g] : y = <<g, k>>
      BY <1>2 DEF Executed
    <3>2. PICK k \in 1 .. executed'[g] : y = <<g, k>>
      BY <3>1
    <3>3. k \in 1 .. executed[g]
      BY <1>5, <1>6, <2>3, <3>2
    <3>. QED BY <3>2, <3>3, ExecutedPlaces
  <2>. QED BY <2>1, <2>2, <2>3
<1>9. UpdateAt(x)' = NextUpdate(w)
  <2>1. AllUpdates(msg[w])[n + 1] = NextUpdate(w)
    BY <1>0, <1>1, <1>2, <1>5, IncrementFacts
  <2>2. claim'[h] = msg[w]
    BY <1>2, <1>4
  <2>3. x[1] = h /\ x[2] = n + 1
    OBVIOUS
  <2>. HIDE DEF x
  <2>. QED BY <2>1, <2>2, <2>3, UpdateAtNext
<1>. QED BY <1>7, <1>8, <1>9

\* Every executed update of a named account finds its row: an account is
\* inserted before its first update, never after.
RowsOfUpdates == \A x \in Executed : HasAccount(UpdateAt(x).address, UpdateAt(x).token)
Balanced == \A r \in accounts : r.amount = Explained(r.address, r.token)
BalanceInv == IsFiniteSet(Executed) /\ RowsOfUpdates /\ Balanced

LEMMA RowsStay ==
    ASSUME RowsPersist, NEW a, NEW t, HasAccount(a, t) PROVE HasAccount(a, t)'
BY DEF RowsPersist, HasAccount

\* The sum of an account whose executed updates a step leaves as they are.
LEMMA ExplainedStays ==
    ASSUME LedgerBase, [Next]_vars, NEW a, NEW t,
           \A x \in Executed' \ Executed : ~(UpdateAt(x)'.address = a /\ UpdateAt(x)'.token = t)
    PROVE  Explained(a, t)' = Explained(a, t)
<1>1. ExecutedOn(a, t)' = ExecutedOn(a, t)
  BY ExecutedStays DEF ExecutedOn
<1>2. \A x \in ExecutedOn(a, t) : UpdateAt(x)' = UpdateAt(x)
  BY ExecutedStays DEF ExecutedOn
<1>3. Deltas(a, t)' = Deltas(a, t)
  BY <1>1, <1>2 DEF Deltas
<1>. QED BY <1>3 DEF Explained, Deltas

LEMMA ExplainedGrows ==
    ASSUME LedgerBase, [Next]_vars, IsFiniteSet(Executed), NEW u \in Update,
           NEW x, x \notin Executed, Executed' = Executed \cup {x}, UpdateAt(x)' = u
    PROVE  Explained(u.address, u.token)' = Explained(u.address, u.token) + u.delta
<1>. DEFINE S == ExecutedOn(u.address, u.token)
<1>1. ExecutedOn(u.address, u.token)' = S \cup {x} /\ x \notin S
  BY ExecutedStays DEF ExecutedOn
<1>2. IsFiniteSet(S)
  BY FS_Subset DEF ExecutedOn
<1>3. PICK f, g : f = Deltas(u.address, u.token) /\ g = Deltas(u.address, u.token)'
  OBVIOUS
<1>4. DOMAIN f = S /\ DOMAIN g = S \cup {x}
  BY <1>1, <1>3 DEF Deltas
<1>5. ASSUME NEW i \in S PROVE f[i] \in Int /\ g[i] = f[i]
  <2>1. i \in Executed
    BY DEF ExecutedOn
  <2>2. f[i] = UpdateAt(i).delta /\ g[i] = UpdateAt(i)'.delta
    BY <1>1, <1>3 DEF Deltas
  <2>3. UpdateAt(i)' = UpdateAt(i) /\ UpdateAt(i) \in Update
    BY <2>1, ExecutedStays, UpdatesTyped
  <2>. QED BY <2>2, <2>3 DEF Update
<1>6. g[x] = u.delta /\ u.delta \in Int
  BY <1>1, <1>3 DEF Deltas, Update
<1>. HIDE DEF S
<1>7. SumFunction(g) = SumFunction(f) + g[x]
  BY <1>1, <1>2, <1>4, <1>5, <1>6, SumOfMore
<1>. QED BY <1>3, <1>6, <1>7 DEF Explained, Deltas

LEMMA IncrementNamesUpdate ==
    ASSUME TypeInv, NEW w \in Worker, IncFrom(w) \/ IncTo(w)
    PROVE  /\ NextUpdate(w) \in Update
           /\ IncrementAccountBalance(NextUpdate(w).address, NextUpdate(w).token,
                                      NextUpdate(w).delta)
<1>1. pc[w] \in {"incFrom", "incTo"} /\ pc[w] \in Handling
  BY DEF IncFrom, IncTo, Handling
<1>2. CurrentEvent(w) \in Event /\ CurrentEvent(w).value \in Int
  BY <1>1, HandlingFacts
<1>3. NextUpdate(w) \in Update
  BY <1>2 DEF NextUpdate, UpdateOf, Update, Event, From, To
<1>4. CASE IncFrom(w)
  BY <1>3, <1>4 DEF IncFrom, Increment, NextUpdate, UpdateOf, TokenOf
<1>5. CASE IncTo(w)
  BY <1>3, <1>5 DEF IncTo, Increment, NextUpdate, UpdateOf, TokenOf
<1>. QED BY <1>3, <1>4, <1>5

LEMMA BalanceIncrement ==
    ASSUME LedgerBase, BalanceInv, [Next]_vars, NEW w \in Worker, IncFrom(w) \/ IncTo(w)
    PROVE  BalanceInv'
<1>0. TypeInv /\ KnownRowsInv /\ RowsPersist /\ accounts \subseteq AccountRow
  BY RowsPersistStep DEF LedgerBase, TypeInv, TypeOK, TableTypes
<1>1. PICK u \in Update : u = NextUpdate(w) /\ IncrementAccountBalance(u.address, u.token, u.delta)
  BY <1>0, IncrementNamesUpdate
<1>2. PICK x : x \notin Executed /\ Executed' = Executed \cup {x} /\ UpdateAt(x)' = u
  BY <1>1, OneExecuted
<1>3. IsFiniteSet(Executed')
  BY <1>2, FS_AddElement DEF BalanceInv
<1>4. RowsOfUpdates'
  <2>. SUFFICES ASSUME NEW y \in Executed'
                PROVE  HasAccount(UpdateAt(y).address, UpdateAt(y).token)'
    BY DEF RowsOfUpdates
  <2>0. PICK v : v = UpdateAt(y)'
    OBVIOUS
  <2>1. HasAccount(v.address, v.token)
    <3>1. CASE y \in Executed
      BY <2>0, <3>1, ExecutedStays DEF BalanceInv, RowsOfUpdates
    <3>2. CASE y = x
      <4>1. v = NextUpdate(w)
        BY <1>1, <1>2, <2>0, <3>2
      <4>2. CASE IncFrom(w)
        <5>1. HasAccount(From(w), TokenOf(w))
          BY <1>0, <4>2 DEF KnownRowsInv, KnownRows, IncFrom
        <5>. QED BY <4>1, <4>2, <5>1 DEF NextUpdate, UpdateOf, TokenOf, IncFrom
      <4>3. CASE IncTo(w)
        <5>1. HasAccount(To(w), TokenOf(w))
          BY <1>0, <4>3 DEF KnownRowsInv, KnownRows, IncTo
        <5>. QED BY <4>1, <4>3, <5>1 DEF NextUpdate, UpdateOf, TokenOf, IncTo
      <4>. QED BY <4>2, <4>3
    <3>. QED BY <1>2, <3>1, <3>2
  <2>2. HasAccount(v.address, v.token)'
    BY <1>0, <2>1, RowsStay
  <2>. QED BY <2>0, <2>2 DEF HasAccount
<1>5. Balanced'
  <2>. SUFFICES ASSUME NEW r \in accounts'
                PROVE  r.amount = Explained(r.address, r.token)'
    BY DEF Balanced
  <2>1. PICK s \in accounts : r = IF s.address = u.address /\ s.token = u.token
                                    THEN [s EXCEPT !.amount = @ + u.delta] ELSE s
    BY <1>1 DEF IncrementAccountBalance
  <2>2. r.address = s.address /\ r.token = s.token /\ s \in AccountRow
    BY <1>0, <2>1 DEF AccountRow
  <2>3. s.amount = Explained(s.address, s.token)
    BY DEF BalanceInv, Balanced
  <2>4. CASE s.address = u.address /\ s.token = u.token
    <3>1. r.amount = s.amount + u.delta
      BY <2>1, <2>2, <2>4 DEF AccountRow
    <3>2. Explained(u.address, u.token)' = Explained(u.address, u.token) + u.delta
      BY <1>2, ExplainedGrows DEF BalanceInv
    <3>. QED BY <2>2, <2>3, <2>4, <3>1, <3>2
  <2>5. CASE ~(s.address = u.address /\ s.token = u.token)
    <3>1. Explained(s.address, s.token)' = Explained(s.address, s.token)
      BY <1>2, <2>5, ExplainedStays
    <3>. QED BY <2>1, <2>3, <2>5, <3>1
  <2>. QED BY <2>4, <2>5
<1>. QED BY <1>3, <1>4, <1>5 DEF BalanceInv

LEMMA BalanceOther ==
    ASSUME LedgerBase, BalanceInv, [Next]_vars, executed' = executed,
           \/ accounts' = accounts
           \/ \E a, t : AddAccountAllowed(a, t) /\ InsertAccount(a, t)
    PROVE  BalanceInv'
<1>0. TypeInv /\ RowsPersist
  BY RowsPersistStep DEF LedgerBase
<1>1. Executed' = Executed
  BY NothingExecuted
<1>2. \A a, t : Explained(a, t)' = Explained(a, t)
  BY <1>1, ExplainedStays
<1>3. RowsOfUpdates'
  <2>. SUFFICES ASSUME NEW y \in Executed'
                PROVE  HasAccount(UpdateAt(y).address, UpdateAt(y).token)'
    BY DEF RowsOfUpdates
  <2>0. PICK v : v = UpdateAt(y)'
    OBVIOUS
  <2>1. HasAccount(v.address, v.token)
    BY <1>1, <2>0, ExecutedStays DEF BalanceInv, RowsOfUpdates
  <2>2. HasAccount(v.address, v.token)'
    BY <1>0, <2>1, RowsStay
  <2>. QED BY <2>0, <2>2 DEF HasAccount
<1>4. Balanced'
  <2>. SUFFICES ASSUME NEW r \in accounts'
                PROVE  r.amount = Explained(r.address, r.token)'
    BY DEF Balanced
  <2>1. CASE r \in accounts
    BY <1>2, <2>1 DEF BalanceInv, Balanced
  <2>2. CASE r \notin accounts
    <3>1. PICK a, t : AddAccountAllowed(a, t) /\ r = [address |-> a, token |-> t, amount |-> 0]
      BY <2>2 DEF InsertAccount
    <3>2. ExecutedOn(a, t) = {}
      BY <3>1 DEF ExecutedOn, BalanceInv, RowsOfUpdates, HasAccount, AddAccountAllowed
    <3>3. Explained(a, t) = 0
      BY <3>2, SumOfNone DEF Explained
    <3>. QED BY <1>2, <3>1, <3>3
  <2>. QED BY <2>1, <2>2
<1>. QED BY <1>1, <1>3, <1>4 DEF BalanceInv

LEMMA BalanceInvInit == Init => BalanceInv
<1>. SUFFICES ASSUME Init PROVE BalanceInv
  OBVIOUS
<1>1. Executed = {}
  BY DEF Init, DBInit, Executed
<1>. QED BY <1>1, FS_EmptySet DEF Init, DBInit, BalanceInv, RowsOfUpdates, Balanced

LEMMA BalanceInvStep == LedgerBase /\ BalanceInv /\ [Next]_vars => BalanceInv'
BY LedgerSteps, BalanceIncrement, BalanceOther

\* No balance update of a named account is lost, doubled or misdirected, whatever
\* workers, errors, crashes and redeliveries interleave: a balance is the sum of
\* the executed updates, a block's executed updates are a prefix of what it
\* prescribes, and each that names an address and a token found its row.
THEOREM BalancesAreExplained == Spec => []BalancesExplained
<1>1. LedgerBase /\ BalanceInv => BalancesExplained
  BY DEF LedgerBase, ProgressInv, ClaimedInv, BalanceInv, Balanced, RowsOfUpdates,
         BalancesExplained
<1>2. Init => LedgerBase /\ BalanceInv
  BY LedgerBaseInit, BalanceInvInit
<1>3. LedgerBase /\ BalanceInv /\ [Next]_vars => LedgerBase' /\ BalanceInv'
  BY LedgerBaseStep, BalanceInvStep
<1>. QED BY <1>1, <1>2, <1>3, PTL DEF Spec

---------------------------------------------------------------------------
(* Whole blocks                                                            *)

LEMMA IndexedIsExecuted ==
    ASSUME LedgerBase, WholeCore, NEW h \in indexed, NEW u \in ToSet(AllUpdates(claim[h]))
    PROVE  \E x \in Executed : UpdateAt(x) = u
<1>. DEFINE s == AllUpdates(claim[h])
<1>1. h \in blocks /\ claim[h] \in Messages
  BY DEF LedgerBase, ProgressInv, OwnerInv, ClaimedInv
<1>2. s \in Seq(Update) /\ executed[h] = Len(s)
  BY <1>1, MessagePlaces DEF WholeCore
<1>3. u \in ToSet(s)
  OBVIOUS
<1>. HIDE DEF s
<1>4. PICK n \in 1 .. Len(s) : u = s[n]
  BY <1>2, <1>3 DEF ToSet
<1>5. <<h, n>> \in Executed
  BY <1>1, <1>2, ExecutedPlaces
<1>6. UpdateAt(<<h, n>>) = u
  BY <1>4 DEF UpdateAt, s
<1>. QED BY <1>5, <1>6

\* A block that was processed without an error left nothing out: its
\* transactions and every transaction's transfers are in their tables, every
\* update was executed, and the ones that name an address and a token found
\* that account's row.
THEOREM IndexedBlocksAreWhole == Spec => []IndexedIsWhole
<1>1. WholeInv /\ BalanceInv => IndexedIsWhole
  BY IndexedIsExecuted DEF WholeInv, BalanceInv, RowsOfUpdates, WholeCore, Recorded, IndexedIsWhole
<1>2. Init => WholeInv /\ BalanceInv
  BY WholeInvInit, BalanceInvInit
<1>3. WholeInv /\ BalanceInv /\ [Next]_vars => WholeInv' /\ BalanceInv'
  BY WholeInvStep, BalanceInvStep DEF WholeInv
<1>. QED BY <1>1, <1>2, <1>3, PTL DEF Spec

==============================================================================
