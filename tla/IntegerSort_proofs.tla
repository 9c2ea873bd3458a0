------------------------- MODULE IntegerSort_proofs -------------------------
(***************************************************************************)
(* Why both versions of the IS benchmark sort: with threads, for every     *)
(* size of the problem, every seed, every number of threads and every      *)
(* order of their steps, with buckets or without; with processes, for      *)
(* every number of them that leaves each more than two keys an iteration.  *)
(*                                                                         *)
(* First what both versions of IS rest on.                                 *)
(* The keys: randlc() multiplies below 2^46, so the numbers of a run are   *)
(* powers of the multiplier times the seed; find_my_seed() comes to those  *)
(* of its thread, and together the threads make the keys of the serial     *)
(* code.                                                                   *)
(* The places: that of a key is the number of keys before it, in the order *)
(* of buckets and indices, so that no two keys have the same; the rank of  *)
(* a value is the number of keys up to it.  What the loops over threads    *)
(* and buckets add up are sizes of sets that are apart.                    *)
(*                                                                         *)
(* Then the OpenMP version.                                                *)
(* The invariant says for every thread how much of its share of the work   *)
(* of a region is done: what it has made, counted, pointed to, moved,      *)
(* ranked or sorted.  What it needs of the others is behind a barrier      *)
(* (Barriers).  A thread that moves a key puts it where the number of keys *)
(* before it says (Pointed), which no other key of anybody has.            *)
(*                                                                         *)
(* Last the MPI version.                                                   *)
(* Every process makes its part of the keys of the serial code, so that    *)
(* all of them have KeysAt(first_number, r) in call r of rank().  The      *)
(* buckets are dealt out in order: a process has all the keys of its       *)
(* values and those before it have all the lesser ones, so that its ranks  *)
(* and what the others have add up (LesserIs), and its keys are a range of *)
(* the places of all.  The invariant MpiInv says where the processes are   *)
(* to each other (Lockstep), that totals, buffers, keys and ranks are those*)
(* of the call a process has come to, what it has sent to the next one     *)
(* (LastSent) and how many test keys it has found right (Credited).        *)
(***************************************************************************)
EXTENDS OmpSort, MpiSort, FiniteSetTheorems, FunctionTheorems, WellFoundedInduction, TLAPS

-----------------------------------------------------------------------------
(* Induction over numbers, and iteration.                                  *)

\* The order of the numbers, as a relation.
Less == {ss \in Nat \X Nat : ss[1] < ss[2]}

\* A set of numbers that is not empty has a least one.
LEMMA LeastNumber ==
  ASSUME NEW T \in SUBSET Nat, T # {}
  PROVE  \E x \in T : \A y \in T : x <= y
<1>1. Less = OpToRel(<, Nat)
  BY DEF Less, OpToRel
<1>2. PICK x \in T : \A y \in T : ~(<<y, x>> \in Less)
  BY <1>1, NatLessThanWellFounded, WFMin
<1>3. ASSUME NEW y \in T PROVE x <= y
  <2>1. x \in Nat /\ y \in Nat
    OBVIOUS
  <2>2. ~(<<y, x>> \in Less)
    BY <1>2
  <2>3. ~(y < x)
    BY <2>1, <2>2 DEF Less
  <2> QED  BY <2>1, <2>3
<1> QED  BY <1>3

\* A set of numbers with zero and, with each number, the next: all of them.
LEMMA Induct ==
  ASSUME NEW S \in SUBSET Nat, 0 \in S, \A n \in S : n + 1 \in S
  PROVE  S = Nat
<1> SUFFICES ASSUME Nat \ S # {} PROVE FALSE
  OBVIOUS
<1>1. PICK x \in Nat \ S : \A y \in Nat \ S : x <= y
  BY LeastNumber
<1>2. x # 0
  OBVIOUS
<1>3. x - 1 \in Nat /\ ~(x <= x - 1)
  BY <1>2
<1>4. x - 1 \in S
  BY <1>1, <1>3
<1>5. (x - 1) + 1 = x
  OBVIOUS
<1> QED  BY <1>4, <1>5

\* What comes of v0 by applying F again and again, F being told how often it
\* has been applied.
Iterates(it, V, v0, F) ==
  /\ it \in [Nat -> V]
  /\ it[0] = v0
  /\ \A n \in Nat : it[n + 1] = F[<<n, it[n]>>]

\* What F makes of v0, again and again, is there for every number of times.
LEMMA IterationExists ==
  ASSUME NEW V, NEW v0 \in V, NEW F \in [Nat \X V -> V]
  PROVE  \E it : Iterates(it, V, v0, F)
<1> DEFINE OK(n, g) == /\ g \in [0 .. n -> V] /\ g[0] = v0
                       /\ \A i \in 0 .. n - 1 : g[i + 1] = F[<<i, g[i]>>]
<1>1. \A n \in Nat : \E g : OK(n, g)
  <2> DEFINE S == {n \in Nat : \E g : OK(n, g)}
  <2>1. 0 \in S
    <3>1. OK(0, [i \in 0 .. 0 |-> v0])
      OBVIOUS
    <3> QED  BY <3>1
  <2>2. ASSUME NEW n \in S PROVE n + 1 \in S
    <3>1. PICK g : OK(n, g)
      OBVIOUS
    <3>2. n \in 0 .. n /\ g[n] \in V
      BY <3>1
    <3> DEFINE h == [i \in 0 .. n + 1 |-> IF i \in 0 .. n THEN g[i] ELSE F[<<n, g[n]>>]]
    <3>3. h \in [0 .. n + 1 -> V]
      BY <3>1, <3>2
    <3>4. h[0] = v0
      BY <3>1
    <3>5. ASSUME NEW i \in 0 .. n PROVE h[i + 1] = F[<<i, h[i]>>]
      <4>1. CASE i = n
        <5>1. h[i + 1] = F[<<n, g[n]>>]
          BY <4>1
        <5>2. h[i] = g[n]
          BY <4>1
        <5> QED  BY <4>1, <5>1, <5>2
      <4>2. CASE i # n
        <5>1. i \in 0 .. n - 1
          BY <4>2
        <5>2. h[i + 1] = g[i + 1] /\ h[i] = g[i]
          BY <5>1
        <5> QED  BY <5>1, <5>2, <3>1
      <4> QED  BY <4>1, <4>2
    <3>6. OK(n + 1, h)
      <4> HIDE DEF h
      <4>1. (n + 1) - 1 = n
        OBVIOUS
      <4> QED  BY <3>3, <3>4, <3>5, <4>1
    <3>7. n + 1 \in Nat
      OBVIOUS
    <3> HIDE DEF h, OK
    <3> QED  BY <3>6, <3>7
  <2>3. S = Nat
    <3> HIDE DEF OK
    <3>1. S \in SUBSET Nat
      OBVIOUS
    <3> HIDE DEF S
    <3> QED  BY <2>1, <2>2, <3>1, Induct
  <2> QED  BY <2>3
\* Two of them agree as far as both go.
<1>2. ASSUME NEW n \in Nat, NEW m \in Nat, n <= m, NEW g, NEW h, OK(n, g), OK(m, h)
      PROVE  \A i \in 0 .. n : g[i] = h[i]
  <2> DEFINE S == {i \in Nat : i <= n => g[i] = h[i]}
  <2>1. 0 \in S
    BY <1>2
  <2>2. ASSUME NEW i \in S PROVE i + 1 \in S
    <3> SUFFICES ASSUME i + 1 <= n PROVE g[i + 1] = h[i + 1]
      OBVIOUS
    <3>1. i \in 0 .. n - 1 /\ i \in 0 .. m - 1 /\ i <= n
      BY <1>2
    <3>2. g[i] = h[i]
      BY <3>1
    <3>3. g[i + 1] = F[<<i, g[i]>>] /\ h[i + 1] = F[<<i, h[i]>>]
      BY <1>2, <3>1
    <3> QED  BY <3>2, <3>3
  <2>3. S = Nat
    <3>1. S \in SUBSET Nat
      OBVIOUS
    <3> HIDE DEF S
    <3> QED  BY <2>1, <2>2, <3>1, Induct
  <2> QED  BY <2>3
<1> DEFINE G(n) == CHOOSE g : OK(n, g)
<1>3. \A n \in Nat : OK(n, G(n))
  <2> HIDE DEF OK
  <2> QED  BY <1>1
<1> DEFINE it == [n \in Nat |-> G(n)[n]]
<1>4. it \in [Nat -> V]
  <2>1. ASSUME NEW n \in Nat PROVE G(n)[n] \in V
    <3>1. n \in 0 .. n
      OBVIOUS
    <3> HIDE DEF G
    <3> QED  BY <1>3, <3>1
  <2> HIDE DEF G
  <2> QED  BY <2>1
<1>5. it[0] = v0
  <2>1. it[0] = G(0)[0]
    OBVIOUS
  <2> HIDE DEF G
  <2> QED  BY <1>3, <2>1
<1>6. ASSUME NEW n \in Nat PROVE it[n + 1] = F[<<n, it[n]>>]
  <2>1. it[n + 1] = G(n + 1)[n + 1] /\ it[n] = G(n)[n]
    <3>1. n + 1 \in Nat
      OBVIOUS
    <3> HIDE DEF G
    <3> QED  BY <3>1
  <2> HIDE DEF it, G
  <2>2. OK(n + 1, G(n + 1)) /\ OK(n, G(n))
    BY <1>3
  <2>3. n \in 0 .. (n + 1) - 1 /\ n \in 0 .. n /\ n <= n + 1 /\ n + 1 \in Nat
    OBVIOUS
  <2>4. G(n + 1)[n + 1] = F[<<n, G(n + 1)[n]>>]
    BY <2>2, <2>3
  <2>5. G(n)[n] = G(n + 1)[n]
    <3> HIDE DEF OK
    <3> QED  BY <1>2, <2>2, <2>3
  <2> QED  BY <2>1, <2>4, <2>5
<1> HIDE DEF it
<1>7. Iterates(it, V, v0, F)
  BY <1>4, <1>5, <1>6 DEF Iterates
<1> QED  BY <1>7

\* There is only one.
LEMMA IterationIs ==
  ASSUME NEW V, NEW v0, NEW F, NEW it, Iterates(it, V, v0, F), NEW n \in Nat,
         NEW f, f[0] = v0, \A i \in 0 .. n - 1 : f[i] \in V => f[i + 1] = F[<<i, f[i]>>]
  PROVE  \A i \in 0 .. n : f[i] = it[i]
<1> DEFINE S == {i \in Nat : i <= n => f[i] = it[i]}
<1>1. 0 \in S
  BY DEF Iterates
<1>2. ASSUME NEW i \in S PROVE i + 1 \in S
  <2> SUFFICES ASSUME i + 1 <= n PROVE f[i + 1] = it[i + 1]
    OBVIOUS
  <2>1. i \in 0 .. n - 1 /\ i \in Nat /\ f[i] = it[i] /\ it[i] \in V
    BY DEF Iterates
  <2>2. f[i + 1] = F[<<i, f[i]>>] /\ it[i + 1] = F[<<i, it[i]>>]
    BY <2>1 DEF Iterates
  <2> QED  BY <2>1, <2>2
<1>3. S = Nat
  <2>1. S \in SUBSET Nat
    OBVIOUS
  <2> HIDE DEF S
  <2> QED  BY <1>1, <1>2, <2>1, Induct
<1> QED  BY <1>3

-----------------------------------------------------------------------------
(* Sums and cardinalities.                                                 *)

\* The sum of one entry more is the sum so far and that entry: the loops that
\* add up an array.
LEMMA SumStep ==
  ASSUME NEW n \in Nat, NEW f, \A i \in 0 .. n - 1 : f[i] \in Nat
  PROVE  /\ SumTo(f, 0) = 0
         /\ \A m \in 0 .. n : SumTo(f, m) \in Nat
         /\ \A m \in 0 .. n - 1 : SumTo(f, m + 1) = SumTo(f, m) + f[m]
<1> DEFINE F == [x \in Nat \X Nat |-> x[2] + IF x[1] \in 0 .. n - 1 THEN f[x[1]] ELSE 0]
<1>1. F \in [Nat \X Nat -> Nat]
  OBVIOUS
<1>2. \A i \in 0 .. n - 1, v \in Nat : F[<<i, v>>] = v + f[i]
  OBVIOUS
<1> HIDE DEF F
<1>3. PICK it : Iterates(it, Nat, 0, F)
  BY <1>1, IterationExists
<1>4. it \in [Nat -> Nat] /\ it[0] = 0 /\ \A i \in 0 .. n - 1 : it[i + 1] = it[i] + f[i]
  <2>1. it \in [Nat -> Nat] /\ it[0] = 0
    BY <1>3 DEF Iterates
  <2>2. ASSUME NEW i \in 0 .. n - 1 PROVE it[i + 1] = it[i] + f[i]
    <3>1. i \in Nat /\ it[i] \in Nat
      BY <2>1
    <3>2. it[i + 1] = F[<<i, it[i]>>]
      BY <1>3, <3>1 DEF Iterates
    <3> QED  BY <1>2, <3>1, <3>2
  <2> QED  BY <2>1, <2>2
<1>5. ASSUME NEW m \in 0 .. n PROVE SumTo(f, m) = it[m]
  <2> DEFINE Sums(g) == g = [i \in 0 .. m |-> IF i = 0 THEN 0 ELSE g[i - 1] + f[i - 1]]
             h == [i \in 0 .. m |-> it[i]]
             sum == CHOOSE g : Sums(g)
  <2>1. Sums(h)
    <3>1. ASSUME NEW i \in 0 .. m PROVE it[i] = IF i = 0 THEN 0 ELSE h[i - 1] + f[i - 1]
      <4>1. CASE i = 0
        BY <1>4, <4>1
      <4>2. CASE i # 0
        <5>1. i - 1 \in 0 .. n - 1 /\ i - 1 \in 0 .. m /\ (i - 1) + 1 = i
          BY <4>2
        <5>2. it[(i - 1) + 1] = it[i - 1] + f[i - 1]
          BY <1>4, <5>1
        <5>3. h[i - 1] = it[i - 1]
          BY <5>1
        <5> QED  BY <4>2, <5>1, <5>2, <5>3
      <4> QED  BY <4>1, <4>2
    <3> QED  BY <3>1
  <2>2. Sums(sum)
    <3> HIDE DEF Sums, h
    <3> QED  BY <2>1
  <2>3. SumTo(f, m) = sum[m]
    BY DEF SumTo
  <2> HIDE DEF sum, h
  <2>4. sum[0] = 0
    BY <2>2
  <2>5. ASSUME NEW i \in 0 .. m - 1, sum[i] \in Nat PROVE sum[i + 1] = F[<<i, sum[i]>>]
    <3>1. i + 1 \in 0 .. m /\ i + 1 # 0 /\ (i + 1) - 1 = i /\ i \in 0 .. n - 1
      OBVIOUS
    <3>2. sum[i + 1] = sum[i] + f[i]
      BY <2>2, <3>1
    <3> QED  BY <1>2, <2>5, <3>1, <3>2
  <2>6. m \in Nat /\ m \in 0 .. m
    OBVIOUS
  <2> HIDE DEF Sums
  <2>7. \A i \in 0 .. m : sum[i] = it[i]
    BY <1>3, <2>4, <2>5, <2>6, IterationIs
  <2> QED  BY <2>3, <2>6, <2>7
<1>6. 0 \in 0 .. n /\ \A m \in 0 .. n - 1 : m \in 0 .. n /\ m + 1 \in 0 .. n
  OBVIOUS
<1>7. \A m \in 0 .. n : it[m] \in Nat
  BY <1>4
<1> QED  BY <1>4, <1>5, <1>6, <1>7

\* Sets that are apart.
LEMMA SizeOfTwo ==
  ASSUME NEW S, NEW T, IsFiniteSet(S), IsFiniteSet(T), S \cap T = {}
  PROVE  IsFiniteSet(S \cup T) /\ Cardinality(S \cup T) = Cardinality(S) + Cardinality(T)
<1>1. Cardinality(S) \in Nat /\ Cardinality(T) \in Nat /\ Cardinality(S \cap T) = 0
  BY FS_CardinalityType, FS_EmptySet
<1>2. /\ IsFiniteSet(S \cup T)
      /\ Cardinality(S \cup T) = Cardinality(S) + Cardinality(T) - Cardinality(S \cap T)
  BY FS_Union
<1> QED  BY <1>1, <1>2

\* U is made of n sets that are apart, of the sizes f tells.
Parts(f, A, n, U) ==
  /\ \A k \in 0 .. n - 1 : IsFiniteSet(A[k]) /\ f[k] = Cardinality(A[k])
  /\ \A k, l \in 0 .. n - 1 : k # l => A[k] \cap A[l] = {}
  /\ U = UNION {A[k] : k \in 0 .. n - 1}

\* The sizes of sets that are apart add up to that of their union.
LEMMA SumOfSizes ==
  ASSUME NEW n \in Nat, NEW f, NEW A, NEW whole, Parts(f, A, n, whole)
  PROVE  IsFiniteSet(whole) /\ SumTo(f, n) = Cardinality(whole)
<1>0. /\ \A i \in 0 .. n - 1 : IsFiniteSet(A[i]) /\ f[i] = Cardinality(A[i])
      /\ \A i, j \in 0 .. n - 1 : i # j => A[i] \cap A[j] = {}
      /\ whole = UNION {A[i] : i \in 0 .. n - 1}
  BY DEF Parts
<1> DEFINE U(m) == UNION {A[i] : i \in 0 .. m - 1}
           S == {m \in Nat : m <= n => IsFiniteSet(U(m)) /\ SumTo(f, m) = Cardinality(U(m))}
<1>1. \A i \in 0 .. n - 1 : f[i] \in Nat
  BY <1>0, FS_CardinalityType
<1>2. 0 \in S
  <2>1. U(0) = {}
    OBVIOUS
  <2>2. SumTo(f, 0) = 0
    BY <1>1, SumStep
  <2> QED  BY <2>1, <2>2, FS_EmptySet
<1>3. ASSUME NEW m \in S PROVE m + 1 \in S
  <2> SUFFICES ASSUME m + 1 <= n
               PROVE  IsFiniteSet(U(m + 1)) /\ SumTo(f, m + 1) = Cardinality(U(m + 1))
    OBVIOUS
  <2>1. m \in 0 .. n - 1 /\ m \in Nat /\ 0 .. (m + 1) - 1 = 0 .. m - 1 \cup {m}
    OBVIOUS
  <2>2. U(m + 1) = U(m) \cup A[m]
    BY <2>1
  <2>3. U(m) \cap A[m] = {}
    <3>1. \A i \in 0 .. m - 1 : i \in 0 .. n - 1 /\ i # m
      BY <2>1
    <3> QED  BY <1>0, <2>1, <3>1
  <2>4. IsFiniteSet(U(m)) /\ SumTo(f, m) = Cardinality(U(m))
    BY <2>1
  <2> HIDE DEF U
  <2>5. IsFiniteSet(A[m]) /\ f[m] = Cardinality(A[m])
    BY <1>0, <2>1
  <2>6. /\ IsFiniteSet(U(m) \cup A[m])
        /\ Cardinality(U(m) \cup A[m]) = Cardinality(U(m)) + Cardinality(A[m])
    BY <2>3, <2>4, <2>5, SizeOfTwo
  <2>8. SumTo(f, m + 1) = SumTo(f, m) + f[m]
    BY <1>1, <2>1, SumStep
  <2>9. Cardinality(U(m + 1)) = Cardinality(U(m)) + Cardinality(A[m])
    BY <2>2, <2>6
  <2> QED  BY <2>2, <2>4, <2>5, <2>6, <2>8, <2>9
<1>4. S = Nat
  <2>1. S \in SUBSET Nat
    OBVIOUS
  <2> HIDE DEF S
  <2> QED  BY <1>2, <1>3, <2>1, Induct
<1>5. n \in S /\ n <= n
  <2> HIDE DEF S
  <2> QED  BY <1>4
<1>6. IsFiniteSet(U(n)) /\ SumTo(f, n) = Cardinality(U(n))
  <2> HIDE DEF U
  <2> QED  BY <1>5
<1>7. whole = U(n)
  BY <1>0
<1> HIDE DEF U
<1> QED  BY <1>6, <1>7

\* A function that is one to one keeps sizes.
LEMMA SameSize ==
  ASSUME NEW S, IsFiniteSet(S), NEW f, \A x, y \in S : f[x] = f[y] => x = y
  PROVE  IsFiniteSet({f[x] : x \in S}) /\ Cardinality({f[x] : x \in S}) = Cardinality(S)
<1> DEFINE T == {f[x] : x \in S}
           g == [x \in S |-> f[x]]
<1>1. g \in [S -> T] /\ (\A x, y \in S : g[x] = g[y] => x = y) /\ \A t \in T : \E x \in S : g[x] = t
  OBVIOUS
<1>2. g \in Bijection(S, T)
  <2> HIDE DEF g, T
  <2> QED  BY <1>1, Fun_IsBij
<1>3. ExistsBijection(S, T)
  BY <1>2, Fun_ExistsBij
<1> QED  BY <1>3, FS_Bijection

\* In a strict order of a finite set the numbers of those before each of its
\* elements are all the numbers below its size, each once.
Strict(R, S) ==
  /\ \A x \in S : <<x, x>> \notin R
  /\ \A x, y, z \in S : <<x, y>> \in R /\ <<y, z>> \in R => <<x, z>> \in R
  /\ \A x, y \in S : x # y => <<x, y>> \in R \/ <<y, x>> \in R

\* The number of those before it is the place of an element: every number below
\* the size is the place of exactly one.
LEMMA Places ==
  ASSUME NEW S, IsFiniteSet(S), NEW R, Strict(R, S),
         NEW place, place = [x \in S |-> Cardinality({y \in S : <<y, x>> \in R})]
  PROVE  /\ place \in [S -> 0 .. Cardinality(S) - 1]
         /\ \A x, y \in S : <<x, y>> \in R => place[x] < place[y]
         /\ \A x, y \in S : place[x] = place[y] => x = y
         /\ \A k \in 0 .. Cardinality(S) - 1 : \E x \in S : place[x] = k
<1> DEFINE Before(x) == {y \in S : <<y, x>> \in R}
           N == Cardinality(S)
<1>1. N \in Nat
  BY FS_CardinalityType
<1>2. ASSUME NEW x \in S
      PROVE  IsFiniteSet(Before(x)) /\ Cardinality(Before(x)) \in Nat /\ Cardinality(Before(x)) < N
  <2>1. Before(x) \subseteq S /\ x \notin Before(x)
    BY DEF Strict
  <2>2. IsFiniteSet(Before(x)) /\ Cardinality(Before(x)) <= N /\ (N = Cardinality(Before(x)) => S = Before(x))
    <3> HIDE DEF Before
    <3> QED  BY <2>1, FS_Subset
  <2>3. Cardinality(Before(x)) \in Nat
    BY <2>2, FS_CardinalityType
  <2> HIDE DEF Before, N
  <2> QED  BY <1>1, <2>1, <2>2, <2>3
<1>3. ASSUME NEW x \in S, NEW y \in S, <<x, y>> \in R PROVE place[x] < place[y]
  <2>1. Before(x) \subseteq Before(y) /\ x \in Before(y) /\ x \notin Before(x)
    BY <1>3 DEF Strict
  <2>2. /\ Cardinality(Before(x)) <= Cardinality(Before(y))
        /\ Cardinality(Before(y)) = Cardinality(Before(x)) => Before(y) = Before(x)
    <3> HIDE DEF Before
    <3> QED  BY <1>2, <2>1, FS_Subset
  <2>3. place[x] = Cardinality(Before(x)) /\ place[y] = Cardinality(Before(y))
    OBVIOUS
  <2> HIDE DEF Before
  <2>4. Cardinality(Before(x)) # Cardinality(Before(y))
    BY <2>1, <2>2
  <2> QED  BY <1>2, <2>2, <2>3, <2>4
<1>4. place \in [S -> 0 .. N - 1]
  <2>1. \A x \in S : Cardinality(Before(x)) \in 0 .. N - 1
    <3> HIDE DEF Before, N
    <3> QED  BY <1>1, <1>2
  <2> HIDE DEF N
  <2> QED  BY <2>1
<1>5. ASSUME NEW x \in S, NEW y \in S, place[x] = place[y] PROVE x = y
  <2>1. place[x] \in 0 .. N - 1 /\ place[y] \in 0 .. N - 1
    BY <1>4
  <2>2. ~(<<x, y>> \in R) /\ ~(<<y, x>> \in R)
    <3> HIDE DEF N
    <3> QED  BY <1>1, <1>3, <1>5, <2>1
  <2> QED  BY <2>2 DEF Strict
<1>6. place \in Injection(S, 0 .. N - 1)
  <2> HIDE DEF N
  <2> QED  BY <1>4, <1>5, Fun_IsInj
<1>7. IsFiniteSet(0 .. N - 1) /\ Cardinality(0 .. N - 1) = N
  <2> HIDE DEF N
  <2>1. 0 \in Int /\ N - 1 \in Int
    BY <1>1
  <2>2. IsFiniteSet(0 .. N - 1) /\ Cardinality(0 .. N - 1) = IF 0 > N - 1 THEN 0 ELSE (N - 1) - 0 + 1
    BY <2>1, FS_Interval
  <2> QED  BY <1>1, <2>2
<1>8. place \in Surjection(S, 0 .. N - 1)
  BY <1>6, <1>7, FS_Injection
<1>9. \A k \in 0 .. N - 1 : \E x \in S : place[x] = k
  <2> HIDE DEF N
  <2> QED  BY <1>8 DEF Surjection
<1> QED  BY <1>3, <1>4, <1>5, <1>9

-----------------------------------------------------------------------------
(* Division and powers of two.                                             *)

\* A number is as often m as the quotient says, and the remainder.
LEMMA Division ==
  ASSUME NEW x \in Nat, NEW m \in Nat \ {0}
  PROVE  x = (x \div m) * m + (x % m) /\ x % m \in 0 .. m - 1 /\ x \div m \in Nat
OBVIOUS

\* The quotient and the remainder are the only numbers that do so.
LEMMA Remainder ==
  ASSUME NEW x \in Nat, NEW m \in Nat \ {0}, NEW q \in Nat, NEW r \in 0 .. m - 1, x = q * m + r
  PROVE  x % m = r /\ x \div m = q
<1> DEFINE p == x \div m
           s == x % m
<1>1. p \in Nat /\ s \in 0 .. m - 1 /\ q * m + r = p * m + s
  BY Division
<1> SUFFICES p = q /\ s = r
  OBVIOUS
<1> HIDE DEF p, s
<1>2. ASSUME q > p PROVE FALSE
  <2>1. q >= p + 1
    BY <1>1, <1>2
  <2>2. q * m >= (p + 1) * m
    BY <1>1, <2>1
  <2>3. (p + 1) * m = p * m + m
    BY <1>1
  <2> QED  BY <1>1, <2>2, <2>3
<1>3. ASSUME q < p PROVE FALSE
  <2>1. p >= q + 1
    BY <1>1, <1>3
  <2>2. p * m >= (q + 1) * m
    BY <1>1, <2>1
  <2>3. (q + 1) * m = q * m + m
    OBVIOUS
  <2> QED  BY <1>1, <2>2, <2>3
<1>4. p = q
  BY <1>1, <1>2, <1>3
<1> QED  BY <1>1, <1>4

\* A multiple of m does not count.
LEMMA Drop ==
  ASSUME NEW x \in Nat, NEW m \in Nat \ {0}, NEW k \in Nat
  PROVE  (k * m + x) % m = x % m
<1>0. PICK y : y = k * m + x
  OBVIOUS
<1>1. x = (x \div m) * m + (x % m) /\ x % m \in 0 .. m - 1 /\ x \div m \in Nat
  BY Division
<1> DEFINE q == x \div m
           r == x % m
<1>2. x = q * m + r /\ r \in 0 .. m - 1 /\ q \in Nat
  BY <1>1
<1> SUFFICES y % m = r
  BY <1>0
<1> HIDE DEF q, r
<1>3. y = (k + q) * m + r
  BY <1>0, <1>2
<1>4. y \in Nat /\ k + q \in Nat
  BY <1>0, <1>2
<1> QED  BY <1>2, <1>3, <1>4, Remainder

\* Power2 is 1 at first and doubles.
LEMMA Powers ==
  /\ Power2[0] = 1
  /\ \A n \in Nat : Power2[n] \in Nat \ {0} /\ Power2[n + 1] = 2 * Power2[n]
<1> DEFINE F == [x \in Nat \X Nat |-> 2 * x[2]]
           Doubles(g) == g = [n \in Nat |-> IF n = 0 THEN 1 ELSE 2 * g[n - 1]]
<1>1. F \in [Nat \X Nat -> Nat] /\ \A i, v \in Nat : F[<<i, v>>] = 2 * v
  OBVIOUS
<1> HIDE DEF F
<1>2. PICK it : Iterates(it, Nat, 1, F)
  BY <1>1, IterationExists
<1>3. Doubles(it)
  <2>1. ASSUME NEW n \in Nat, n # 0 PROVE it[n] = 2 * it[n - 1]
    <3>1. n - 1 \in Nat /\ (n - 1) + 1 = n
      BY <2>1
    <3>2. it[(n - 1) + 1] = F[<<n - 1, it[n - 1]>>] /\ it[n - 1] \in Nat
      BY <1>2, <3>1 DEF Iterates
    <3> QED  BY <1>1, <3>1, <3>2
  <2>2. it \in [Nat -> Nat] /\ it[0] = 1
    BY <1>2 DEF Iterates
  <2> QED  BY <2>1, <2>2
<1>4. Doubles(Power2)
  <2>1. Power2 = CHOOSE g : Doubles(g)
    BY DEF Power2
  <2> HIDE DEF Doubles
  <2> QED  BY <1>3, <2>1
<1>5. Power2[0] = 1
  BY <1>4
<1>6. \A n \in Nat : Power2[n + 1] = 2 * Power2[n]
  BY <1>4
<1>7. \A n \in Nat : Power2[n] \in Nat \ {0}
  <2> DEFINE S == {n \in Nat : Power2[n] \in Nat \ {0}}
  <2>1. 0 \in S
    BY <1>5
  <2>2. \A n \in S : n + 1 \in S
    <3> HIDE DEF Doubles
    <3> QED  BY <1>6
  <2>3. S \in SUBSET Nat
    OBVIOUS
  <2>4. S = Nat
    <3> HIDE DEF S
    <3> QED  BY <2>1, <2>2, <2>3, Induct
  <2> QED  BY <2>4
<1> QED  BY <1>5, <1>6, <1>7

\* The power of a sum is the product of the powers.
LEMMA PowersMultiply ==
  ASSUME NEW a \in Nat
  PROVE  \A b \in Nat : Power2[a + b] = Power2[a] * Power2[b]
<1> DEFINE S == {b \in Nat : Power2[a + b] = Power2[a] * Power2[b]}
<1>1. 0 \in S
  BY Powers
<1>2. ASSUME NEW b \in S PROVE b + 1 \in S
  <2>1. a + (b + 1) = (a + b) + 1 /\ a + b \in Nat
    OBVIOUS
  <2>2. Power2[a + (b + 1)] = 2 * Power2[a + b] /\ Power2[b + 1] = 2 * Power2[b]
    BY <2>1, Powers
  <2>3. Power2[a] \in Nat /\ Power2[b] \in Nat
    BY Powers
  <2>4. Power2[a + b] = Power2[a] * Power2[b]
    OBVIOUS
  <2>5. 2 * (Power2[a] * Power2[b]) = Power2[a] * (2 * Power2[b])
    BY <2>3
  <2> QED  BY <2>2, <2>4, <2>5
<1>3. S \in SUBSET Nat
  OBVIOUS
<1>4. S = Nat
  <2> HIDE DEF S
  <2> QED  BY <1>1, <1>2, <1>3, Induct
<1> QED  BY <1>4

\* The sizes of the problem are powers of two, so that the values divide evenly
\* into the buckets, and by four.
LEMMA Sizes ==
  /\ NUM_KEYS \in Nat /\ MAX_KEY \in Nat /\ NUM_BUCKETS \in Nat \ {0} /\ num_bucket_keys \in Nat \ {0}
  /\ Half \in Nat \ {0}
  /\ MAX_KEY = NUM_BUCKETS * num_bucket_keys
  /\ MAX_KEY = 4 * (MAX_KEY \div 4)
<1>1. /\ NUM_KEYS \in Nat /\ MAX_KEY \in Nat /\ NUM_BUCKETS \in Nat \ {0} /\ num_bucket_keys \in Nat \ {0}
      /\ Half \in Nat \ {0}
  <2>1. /\ TOTAL_KEYS_LOG_2 \in Nat /\ MAX_KEY_LOG_2 \in Nat /\ NUM_BUCKETS_LOG_2 \in Nat
        /\ MAX_KEY_LOG_2 - NUM_BUCKETS_LOG_2 \in Nat /\ HalfBits \in Nat
    BY SizesAssumption
  <2>2. \A n \in Nat : Power2[n] \in Nat \ {0}
    BY Powers
  <2> QED  BY <2>1, <2>2 DEF NUM_KEYS, MAX_KEY, NUM_BUCKETS, num_bucket_keys, Half
<1>2. MAX_KEY = NUM_BUCKETS * num_bucket_keys
  <2>1. /\ NUM_BUCKETS_LOG_2 \in Nat /\ MAX_KEY_LOG_2 - NUM_BUCKETS_LOG_2 \in Nat
        /\ NUM_BUCKETS_LOG_2 + (MAX_KEY_LOG_2 - NUM_BUCKETS_LOG_2) = MAX_KEY_LOG_2
    BY SizesAssumption
  <2> QED  BY <2>1, PowersMultiply DEF MAX_KEY, NUM_BUCKETS, num_bucket_keys
<1>3. MAX_KEY = 4 * (MAX_KEY \div 4)
  <2>1. MAX_KEY_LOG_2 - 2 \in Nat /\ ((MAX_KEY_LOG_2 - 2) + 1) + 1 = MAX_KEY_LOG_2
    BY SizesAssumption
  <2>2. Power2[((MAX_KEY_LOG_2 - 2) + 1) + 1] = 2 * (2 * Power2[MAX_KEY_LOG_2 - 2])
    <3>1. (MAX_KEY_LOG_2 - 2) + 1 \in Nat
      BY <2>1
    <3> QED  BY <2>1, <3>1, Powers
  <2>3. Power2[MAX_KEY_LOG_2 - 2] \in Nat
    BY <2>1, Powers
  <2>4. MAX_KEY = 4 * Power2[MAX_KEY_LOG_2 - 2]
    BY <2>1, <2>2, <2>3 DEF MAX_KEY
  <2> QED  BY <1>1, <2>3, <2>4
<1> QED  BY <1>1, <1>2, <1>3

-----------------------------------------------------------------------------
(* The random numbers.                                                     *)

\* randlc() makes numbers below 2^46.
Wrap == Half * Half

\* There are such numbers.
LEMMA WrapIsPositive == Wrap \in Nat \ {0}
<1>1. Half \in Nat /\ Half > 0
  BY Sizes
<1>2. Half * Half > 0
  BY <1>1
<1> QED  BY <1>1, <1>2 DEF Wrap

\* Multiplying in halves is multiplying.
LEMMA RandlcIs ==
  ASSUME NEW x \in Nat, NEW a \in Nat
  PROVE  randlc(x, a) = (x * a) % Wrap /\ randlc(x, a) \in 0 .. Wrap - 1
<1> DEFINE x1 == x \div Half
           x2 == x % Half
           a1 == a \div Half
           a2 == a % Half
           P == a1 * x2 + a2 * x1
           Z == P % Half
           p == P \div Half
<1>1. Half \in Nat /\ Half > 0 /\ Half \in Nat \ {0}
  BY Sizes
<1>2. x = x1 * Half + x2 /\ x1 \in Nat /\ x2 \in Nat
  BY <1>1, Division
<1>3. a = a1 * Half + a2 /\ a1 \in Nat /\ a2 \in Nat
  BY <1>1, Division
<1>4. randlc(x, a) = (Half * Z + a2 * x2) % (Half * Half)
  BY DEF randlc
<1> HIDE DEF x1, x2, a1, a2
<1>5. P \in Nat
  BY <1>2, <1>3
<1>6. P = p * Half + Z /\ Z \in Nat /\ p \in Nat
  <2> HIDE DEF P
  <2> QED  BY <1>1, <1>5, Division
<1> HIDE DEF Z, p
<1>7. x * a = (a1 * x1) * (Half * Half) + (Half * P + a2 * x2)
  BY <1>1, <1>2, <1>3
<1> HIDE DEF P
<1>8. Half * P = p * (Half * Half) + Half * Z
  BY <1>1, <1>6
<1>9. x * a = (a1 * x1 + p) * (Half * Half) + (Half * Z + a2 * x2)
  BY <1>1, <1>2, <1>3, <1>5, <1>6, <1>7, <1>8
<1>10. a1 * x1 + p \in Nat /\ Half * Z + a2 * x2 \in Nat
  BY <1>1, <1>2, <1>3, <1>6
<1>11. (x * a) % Wrap = (Half * Z + a2 * x2) % Wrap
  <2>1. PICK k \in Nat : k = a1 * x1 + p
    BY <1>10
  <2>2. PICK y \in Nat : y = Half * Z + a2 * x2
    BY <1>10
  <2>3. PICK m \in Nat \ {0} : m = Wrap
    BY WrapIsPositive
  <2>4. PICK w : w = x * a
    OBVIOUS
  <2>5. w = k * m + y
    BY <1>9, <2>1, <2>2, <2>3, <2>4 DEF Wrap
  <2>6. (k * m + y) % m = y % m
    BY Drop, Zenon
  <2> QED  BY <2>2, <2>3, <2>4, <2>5, <2>6
<1>12. x * a \in Nat
  OBVIOUS
<1>13. (x * a) % Wrap \in 0 .. Wrap - 1
  BY <1>12, WrapIsPositive, Division
<1> QED  BY <1>4, <1>11, <1>13 DEF Wrap

\* A remainder may be taken before a product as well as after it.
LEMMA TimesRemainder ==
  ASSUME NEW x \in Nat, NEW b \in Nat, NEW m \in Nat \ {0}
  PROVE  ((x % m) * b) % m = (x * b) % m
<1> DEFINE q == x \div m
           r == x % m
<1>1. x = q * m + r /\ q \in Nat /\ r \in Nat
  BY Division
<1> SUFFICES (r * b) % m = (x * b) % m
  OBVIOUS
<1> HIDE DEF q, r
<1>2. x * b = (q * b) * m + r * b
  BY <1>1
<1>3. q * b \in Nat /\ r * b \in Nat
  BY <1>1
<1>4. ((q * b) * m + r * b) % m = (r * b) % m
  BY <1>3, Drop, Zenon
<1> QED  BY <1>2, <1>4

\* randlc() makes numbers.
LEMMA RandlcNat == \A x, a \in Nat : randlc(x, a) \in Nat
<1> SUFFICES ASSUME NEW x \in Nat, NEW a \in Nat PROVE randlc(x, a) \in Nat
  OBVIOUS
<1>1. randlc(x, a) \in 0 .. Wrap - 1 /\ Wrap \in Nat
  BY RandlcIs, WrapIsPositive
<1> QED  BY <1>1

\* Two multipliers one after the other are one: their product.
LEMMA RandlcTwice ==
  ASSUME NEW x \in Nat, NEW a \in Nat, NEW b \in Nat
  PROVE  randlc(randlc(x, a), b) = randlc(x, randlc(a, b))
<1>1. randlc(x, a) \in Nat /\ randlc(a, b) \in Nat
  BY RandlcNat
<1>2. randlc(randlc(x, a), b) = (((x * a) % Wrap) * b) % Wrap
  BY <1>1, RandlcIs
<1>3. randlc(x, randlc(a, b)) = (x * ((a * b) % Wrap)) % Wrap
  BY <1>1, RandlcIs
<1>4. (((x * a) % Wrap) * b) % Wrap = ((x * a) * b) % Wrap
  <2>1. x * a \in Nat
    OBVIOUS
  <2> QED  BY <2>1, TimesRemainder, WrapIsPositive
<1>5. (((a * b) % Wrap) * x) % Wrap = ((a * b) * x) % Wrap
  <2>1. a * b \in Nat
    OBVIOUS
  <2> QED  BY <2>1, TimesRemainder, WrapIsPositive
<1>6. ((a * b) % Wrap) \in Nat
  <2>1. a * b \in Nat
    OBVIOUS
  <2> QED  BY <2>1, Division, WrapIsPositive
<1>7. x * ((a * b) % Wrap) = ((a * b) % Wrap) * x
  <2> DEFINE r == (a * b) % Wrap
  <2> HIDE DEF r
  <2>1. r \in Nat
    BY <1>6 DEF r
  <2>2. x * r = r * x
    BY <2>1
  <2> QED  BY <2>2 DEF r
<1>8. (x * a) * b = (a * b) * x
  OBVIOUS
<1> QED  BY <1>2, <1>3, <1>4, <1>5, <1>7, <1>8

\* The numbers that come after s with multiplier a.
Stream(s, a) == CHOOSE it : Iterates(it, Nat, s, [x \in Nat \X Nat |-> randlc(x[2], a)])

\* The stream begins with s, and randlc() makes the next number of it.
LEMMA StreamIs ==
  ASSUME NEW s \in Nat, NEW a \in Nat
  PROVE  /\ Stream(s, a) \in [Nat -> Nat]
         /\ Stream(s, a)[0] = s
         /\ \A n \in Nat : Stream(s, a)[n + 1] = randlc(Stream(s, a)[n], a)
<1> DEFINE F == [x \in Nat \X Nat |-> randlc(x[2], a)]
<1>1. \A v \in Nat : randlc(v, a) \in Nat
  BY RandlcNat
<1>2. F \in [Nat \X Nat -> Nat] /\ \A i, v \in Nat : F[<<i, v>>] = randlc(v, a)
  BY <1>1
<1>3. Stream(s, a) = CHOOSE it : Iterates(it, Nat, s, F)
  BY DEF Stream
<1> HIDE DEF F
<1>4. \E it : Iterates(it, Nat, s, F)
  BY <1>2, IterationExists
<1>5. Iterates(Stream(s, a), Nat, s, F)
  BY <1>3, <1>4
<1>6. /\ Stream(s, a) \in [Nat -> Nat] /\ Stream(s, a)[0] = s
      /\ \A n \in Nat : Stream(s, a)[n + 1] = F[<<n, Stream(s, a)[n]>>]
  BY <1>5 DEF Iterates
<1>7. ASSUME NEW n \in Nat PROVE Stream(s, a)[n + 1] = randlc(Stream(s, a)[n], a)
  <2>1. Stream(s, a)[n] \in Nat
    BY <1>6
  <2> QED  BY <1>2, <1>6, <2>1
<1> QED  BY <1>6, <1>7

\* The same for every s and a.
LEMMA StreamNext ==
  \A s, a, n \in Nat : Stream(s, a)[n + 1] = randlc(Stream(s, a)[n], a) /\ Stream(s, a)[n] \in Nat
<1> SUFFICES ASSUME NEW s \in Nat, NEW a \in Nat, NEW n \in Nat
             PROVE  Stream(s, a)[n + 1] = randlc(Stream(s, a)[n], a) /\ Stream(s, a)[n] \in Nat
  OBVIOUS
<1> QED  BY StreamIs

\* All numbers of a stream are below 2^46 when the first one is.
LEMMA StreamInRange ==
  ASSUME NEW s \in 0 .. Wrap - 1, NEW a \in Nat, NEW n \in Nat
  PROVE  Stream(s, a)[n] \in 0 .. Wrap - 1
<1>0. s \in Nat
  BY WrapIsPositive
<1>1. CASE n = 0
  BY <1>0, <1>1, StreamIs
<1>2. CASE n # 0
  <2>1. PICK k \in Nat : n = k + 1
    <3>1. n - 1 \in Nat /\ (n - 1) + 1 = n
      BY <1>2
    <3> QED  BY <3>1
  <2>2. Stream(s, a)[n] = randlc(Stream(s, a)[k], a) /\ Stream(s, a)[k] \in Nat
    BY <1>0, <2>1, StreamNext
  <2> QED  BY <2>2, RandlcIs
<1> QED  BY <1>1, <1>2

\* The stream from any of its numbers is the rest of the stream.
LEMMA StreamGoesOn ==
  ASSUME NEW s \in Nat, NEW a \in Nat, NEW m \in Nat
  PROVE  \A n \in Nat : Stream(Stream(s, a)[m], a)[n] = Stream(s, a)[m + n]
<1> DEFINE u == Stream(s, a)[m]
           S == {n \in Nat : Stream(u, a)[n] = Stream(s, a)[m + n]}
<1>0. u \in Nat /\ u = Stream(s, a)[m + 0]
  BY StreamIs
<1> HIDE DEF u
<1>1. 0 \in S
  BY <1>0, StreamIs
<1>2. ASSUME NEW n \in S PROVE n + 1 \in S
  <2>0. n \in Nat
    OBVIOUS
  <2>1. Stream(u, a)[n + 1] = randlc(Stream(u, a)[n], a)
    <3> HIDE DEF S
    <3> QED  BY <1>0, <2>0, StreamNext, ZenonT(60)
  <2>2. m + (n + 1) = (m + n) + 1 /\ m + n \in Nat
    OBVIOUS
  <2>3. Stream(s, a)[m + (n + 1)] = randlc(Stream(s, a)[m + n], a)
    BY <2>2, StreamIs
  <2> QED  BY <2>1, <2>3
<1>3. S \in SUBSET Nat
  OBVIOUS
<1>4. S = Nat
  <2> HIDE DEF S
  <2> QED  BY <1>1, <1>2, <1>3, Induct
<1> QED  BY <1>4 DEF u

\* With the multiplier squared, every second number is passed over.
LEMMA StreamOfSquare ==
  ASSUME NEW s \in Nat, NEW a \in Nat
  PROVE  \A n \in Nat : Stream(s, randlc(a, a))[n] = Stream(s, a)[2 * n]
<1> DEFINE u == randlc(a, a)
           S == {n \in Nat : Stream(s, u)[n] = Stream(s, a)[2 * n]}
<1>0. u \in Nat
  BY RandlcNat
<1> HIDE DEF u
<1>1. 0 \in S
  <2>1. Stream(s, u)[0] = s /\ Stream(s, a)[0] = s /\ 2 * 0 = 0
    BY <1>0, StreamIs
  <2> QED  BY <2>1
<1>2. ASSUME NEW n \in S PROVE n + 1 \in S
  <2>1. Stream(s, u)[n + 1] = randlc(Stream(s, u)[n], u)
    BY <1>0, StreamIs
  <2>2. 2 * (n + 1) = (2 * n + 1) + 1 /\ 2 * n \in Nat /\ 2 * n + 1 \in Nat
    OBVIOUS
  <2>3. Stream(s, a)[2 * (n + 1)] = randlc(randlc(Stream(s, a)[2 * n], a), a)
    BY <2>2, StreamIs
  <2>4. Stream(s, a)[2 * n] \in Nat
    BY <2>2, StreamIs
  <2> QED  BY <2>1, <2>3, <2>4, RandlcTwice DEF u
<1>3. S \in SUBSET Nat
  OBVIOUS
<1>4. S = Nat
  <2> HIDE DEF S
  <2> QED  BY <1>1, <1>2, <1>3, Induct
<1> QED  BY <1>4 DEF u

-----------------------------------------------------------------------------
(* The seed of a thread.                                                   *)

\* The first number made from s.
LEMMA FirstOfStream ==
  ASSUME NEW s \in Nat, NEW a \in Nat
  PROVE  Stream(s, a)[1] = randlc(s, a)
<1>1. Stream(s, a)[0 + 1] = randlc(Stream(s, a)[0], a) /\ Stream(s, a)[0] = s
  BY StreamIs
<1> QED  BY <1>1

\* The stream from that number on.
LEMMA StreamAfterOne ==
  ASSUME NEW s \in Nat, NEW a \in Nat
  PROVE  \A n \in Nat : Stream(randlc(s, a), a)[n] = Stream(s, a)[1 + n]
<1>1. \A m, n \in Nat : Stream(Stream(s, a)[m], a)[n] = Stream(s, a)[m + n]
  BY StreamGoesOn
<1>2. Stream(s, a)[1] = randlc(s, a)
  BY FirstOfStream
<1>3. \A n \in Nat : Stream(Stream(s, a)[1], a)[n] = Stream(s, a)[1 + n]
  BY <1>1
<1> QED  BY <1>2, <1>3

\* Squaring and stepping, find_my_seed() of thread kn comes to the number where
\* the part of the thread begins.
LEMMA OmpSeedIs ==
  ASSUME NEW kn \in Nat, NEW np \in Nat \ {0}, NEW nn \in Nat, nn \div 4 > 0, NEW s \in Nat
  PROVE  OmpSeed(kn, np, nn, s) = Stream(s, multiplier)[((nn \div 4 + np - 1) \div np) * 4 * kn]
<1> DEFINE Places3 == [kk : Nat, t1 : Nat, t2 : Nat]
           Halved(at) == [kk |-> at.kk \div 2, t1 |-> at.t1, t2 |-> randlc(at.t2, at.t2)]
           Stepped(at) == [kk |-> at.kk - 1, t1 |-> randlc(at.t1, at.t2), t2 |-> at.t2]
           Jumps(g) == g = [at \in Places3 |->
                              IF at.kk <= 1 THEN randlc(at.t1, at.t2)
                              ELSE IF at.kk % 2 = 0 THEN g[Halved(at)] ELSE g[Stepped(at)]]
           there == [at \in Places3 |-> IF at.kk = 0 THEN randlc(at.t1, at.t2) ELSE Stream(at.t1, at.t2)[at.kk]]
           jump == CHOOSE g : Jumps(g)
<1>1. ASSUME NEW at \in Places3, at.kk > 1
      PROVE  /\ at.kk % 2 = 0 => /\ Halved(at) \in Places3 /\ Halved(at).kk < at.kk
                                 /\ Stream(at.t1, randlc(at.t2, at.t2))[at.kk \div 2] = Stream(at.t1, at.t2)[at.kk]
                                 /\ at.kk \div 2 # 0
             /\ at.kk % 2 # 0 => /\ Stepped(at) \in Places3 /\ Stepped(at).kk < at.kk
                                 /\ Stream(randlc(at.t1, at.t2), at.t2)[at.kk - 1] = Stream(at.t1, at.t2)[at.kk]
                                 /\ at.kk - 1 # 0
  <2>1. at.kk \in Nat /\ at.t1 \in Nat /\ at.t2 \in Nat
    OBVIOUS
  <2>2. randlc(at.t2, at.t2) \in Nat /\ randlc(at.t1, at.t2) \in Nat
    BY <2>1, RandlcNat
  <2>3. CASE at.kk % 2 = 0
    <3>1. at.kk \div 2 \in Nat /\ 2 * (at.kk \div 2) = at.kk /\ at.kk \div 2 < at.kk /\ at.kk \div 2 # 0
      BY <1>1, <2>1, <2>3
    <3>2. Stream(at.t1, randlc(at.t2, at.t2))[at.kk \div 2] = Stream(at.t1, at.t2)[2 * (at.kk \div 2)]
      <4>1. \A n \in Nat : Stream(at.t1, randlc(at.t2, at.t2))[n] = Stream(at.t1, at.t2)[2 * n]
        BY <2>1, StreamOfSquare, ZenonT(60)
      <4> QED  BY <3>1, <4>1
    <3> QED  BY <2>1, <2>2, <2>3, <3>1, <3>2
  <2>4. CASE at.kk % 2 # 0
    <3>1. at.kk - 1 \in Nat /\ 1 + (at.kk - 1) = at.kk /\ at.kk - 1 < at.kk /\ at.kk - 1 # 0
      BY <1>1, <2>1
    <3>2. \A n \in Nat : Stream(randlc(at.t1, at.t2), at.t2)[n] = Stream(at.t1, at.t2)[1 + n]
      BY <2>1, StreamAfterOne, ZenonT(60)
    <3> QED  BY <2>1, <2>2, <2>4, <3>1, <3>2
  <2> QED  BY <2>3, <2>4
<1>2. \A at \in Places3 : at.kk \in Nat /\ at.t1 \in Nat /\ at.t2 \in Nat
  OBVIOUS
<1>3. \A at \in Places3 : Halved(at).kk = at.kk \div 2 /\ Halved(at).t1 = at.t1 /\ Halved(at).t2 = randlc(at.t2, at.t2)
  OBVIOUS
<1>4. \A at \in Places3 : Stepped(at).kk = at.kk - 1 /\ Stepped(at).t1 = randlc(at.t1, at.t2) /\ Stepped(at).t2 = at.t2
  OBVIOUS
<1>5. \A at \in Places3 : there[at] = IF at.kk = 0 THEN randlc(at.t1, at.t2) ELSE Stream(at.t1, at.t2)[at.kk]
  OBVIOUS
<1>6. jump = CHOOSE g : Jumps(g)
  OBVIOUS
<1>7. OmpSeed(kn, np, nn, s) = IF kn = 0 THEN s
                               ELSE jump[[kk |-> ((nn \div 4 + np - 1) \div np) * 4 * kn, t1 |-> s, t2 |-> multiplier]]
  BY DEF OmpSeed
<1> HIDE DEF Halved, Stepped, jump
<1>8. Jumps(there)
  <2>1. ASSUME NEW at \in Places3
        PROVE  there[at] = IF at.kk <= 1 THEN randlc(at.t1, at.t2)
                           ELSE IF at.kk % 2 = 0 THEN there[Halved(at)] ELSE there[Stepped(at)]
    <3> HIDE DEF Places3, there
    <3>1. CASE at.kk = 0
      BY <3>1, <1>5
    <3>2. CASE at.kk = 1
      BY <3>2, <1>2, <1>5, FirstOfStream
    <3>3. CASE at.kk > 1
      <4>1. CASE at.kk % 2 = 0
        <5>1. there[Halved(at)] = Stream(at.t1, randlc(at.t2, at.t2))[at.kk \div 2]
          BY <1>1, <1>3, <1>5, <3>3, <4>1
        <5>2. there[at] = Stream(at.t1, at.t2)[at.kk]
          BY <1>2, <1>5, <3>3
        <5> QED  BY <1>1, <1>2, <3>3, <4>1, <5>1, <5>2
      <4>2. CASE at.kk % 2 # 0
        <5>1. there[Stepped(at)] = Stream(randlc(at.t1, at.t2), at.t2)[at.kk - 1]
          BY <1>1, <1>4, <1>5, <3>3, <4>2, ZenonT(60)
        <5>2. there[at] = Stream(at.t1, at.t2)[at.kk]
          BY <1>2, <1>5, <3>3
        <5> QED  BY <1>1, <1>2, <3>3, <4>2, <5>1, <5>2
      <4> QED  BY <4>1, <4>2
    <3> QED  BY <1>2, <3>1, <3>2, <3>3
  <2>2. there = [at \in Places3 |-> there[at]]
    OBVIOUS
  <2> HIDE DEF there, Places3
  <2> QED  BY <2>1, <2>2
<1>9. Jumps(jump)
  <2> HIDE DEF Jumps, there
  <2> QED  BY <1>6, <1>8
<1>10. \A at \in Places3 : jump[at] = there[at]
  <2> DEFINE Wrong == {n \in Nat : \E at \in Places3 : at.kk = n /\ jump[at] # there[at]}
  <2>0. \A at \in Places3 : at.kk \in Nat
    BY <1>2
  <2> SUFFICES ASSUME Wrong # {} PROVE FALSE
    <3> HIDE DEF Places3, there
    <3> QED  BY <2>0
  <2>1. Wrong \in SUBSET Nat
    OBVIOUS
  <2>2. PICK n \in Wrong : \A m \in Wrong : n <= m
    <3> HIDE DEF Wrong
    <3> QED  BY <2>1, LeastNumber
  <2>3. PICK at \in Places3 : at.kk = n /\ jump[at] # there[at]
    OBVIOUS
  <2>4. ASSUME NEW b \in Places3, b.kk < n PROVE jump[b] = there[b]
    <3>1. b.kk \in Nat /\ n \in Nat /\ ~(n <= b.kk)
      BY <2>0, <2>4
    <3> HIDE DEF Places3, there
    <3> QED  BY <2>2, <3>1
  <2> HIDE DEF Wrong, there
  <2>5. there[at] = IF at.kk <= 1 THEN randlc(at.t1, at.t2)
                    ELSE IF at.kk % 2 = 0 THEN there[Halved(at)] ELSE there[Stepped(at)]
    <3> HIDE DEF Places3
    <3> QED  BY <1>8
  <2>6. jump[at] = IF at.kk <= 1 THEN randlc(at.t1, at.t2)
                   ELSE IF at.kk % 2 = 0 THEN jump[Halved(at)] ELSE jump[Stepped(at)]
    <3> HIDE DEF Places3
    <3> QED  BY <1>9
  <2> HIDE DEF Places3, Jumps
  <2>7. CASE at.kk <= 1
    BY <2>3, <2>5, <2>6, <2>7
  <2>8. CASE ~(at.kk <= 1)
    <3>1. at.kk > 1
      BY <1>2, <2>8
    <3>2. CASE at.kk % 2 = 0
      <4>1. jump[Halved(at)] = there[Halved(at)]
        BY <1>1, <2>3, <2>4, <3>1, <3>2
      <4> QED  BY <2>3, <2>5, <2>6, <2>8, <3>2, <4>1
    <3>3. CASE at.kk % 2 # 0
      <4>1. jump[Stepped(at)] = there[Stepped(at)]
        BY <1>1, <2>3, <2>4, <3>1, <3>3
      <4> QED  BY <2>3, <2>5, <2>6, <2>8, <3>3, <4>1
    <3> QED  BY <3>2, <3>3
  <2> QED  BY <2>7, <2>8
<1>11. CASE kn = 0
  <2>1. (nn \div 4 + np - 1) \div np \in Nat
    <3>1. nn \div 4 + np - 1 \in Nat
      OBVIOUS
    <3> QED  BY <3>1, Division
  <2>2. ((nn \div 4 + np - 1) \div np) * 4 * kn = 0
    BY <1>11, <2>1
  <2>3. multiplier \in Nat
    BY SizesAssumption, WrapIsPositive DEF Wrap
  <2> QED  BY <1>7, <1>11, <2>2, <2>3, StreamIs
<1>12. CASE kn # 0
  <2> DEFINE mq == (nn \div 4 + np - 1) \div np
             at == [kk |-> mq * 4 * kn, t1 |-> s, t2 |-> multiplier]
  <2>1. mq \in Nat \ {0}
    <3> DEFINE x == nn \div 4 + np - 1
    <3>1. x \in Nat /\ x >= np
      OBVIOUS
    <3> HIDE DEF x
    <3>2. x = (x \div np) * np + (x % np) /\ x % np \in 0 .. np - 1 /\ x \div np \in Nat
      BY <3>1, Division
    <3>3. x \div np # 0
      BY <3>1, <3>2
    <3> QED  BY <3>2, <3>3 DEF x
  <2> HIDE DEF mq
  <2>2. mq * 4 * kn \in Nat
    BY <2>1
  <2>3. mq * 4 * kn # 0
    <3>1. mq * 4 \in Nat /\ mq * 4 >= 1 /\ kn >= 1
      BY <1>12, <2>1
    <3>2. PICK p \in Nat : p = mq * 4
      BY <3>1
    <3>3. p * kn >= 1
      BY <3>1, <3>2
    <3> QED  BY <3>2, <3>3
  <2>4. multiplier \in Nat
    BY SizesAssumption, WrapIsPositive DEF Wrap
  <2>5. at \in Places3 /\ at.kk = mq * 4 * kn /\ at.t1 = s /\ at.t2 = multiplier
    BY <2>2, <2>4
  <2>6. OmpSeed(kn, np, nn, s) = jump[at]
    BY <1>7, <1>12 DEF mq
  <2> HIDE DEF at, there, Places3
  <2>7. jump[at] = Stream(s, multiplier)[mq * 4 * kn]
    BY <1>5, <1>10, <2>3, <2>5
  <2> QED  BY <2>6, <2>7 DEF mq
<1> QED  BY <1>11, <1>12

-----------------------------------------------------------------------------
(* The keys.                                                               *)

\* The numbers of a run, and the key that four of them make.
Number(s, n) == Stream(s, multiplier)[n]
KeyAt(s, i) ==
  ((MAX_KEY \div 4) * (Number(s, 4 * i + 1) + Number(s, 4 * i + 2) + Number(s, 4 * i + 3) + Number(s, 4 * i + 4)))
    \div (Half * Half)

\* The number after x.
After(x) == randlc(x, multiplier)

\* A run begins with its seed, and every number makes the next one.
LEMMA NumberIs ==
  \A s \in Nat : /\ Number(s, 0) = s
                 /\ \A n \in Nat : Number(s, n) \in Nat /\ Number(s, n + 1) = After(Number(s, n))
<1>1. multiplier \in Nat
  BY SizesAssumption, WrapIsPositive DEF Wrap
<1> SUFFICES ASSUME NEW s \in Nat
             PROVE  /\ Number(s, 0) = s
                    /\ \A n \in Nat : Number(s, n) \in Nat /\ Number(s, n + 1) = After(Number(s, n))
  OBVIOUS
<1>2. /\ Stream(s, multiplier) \in [Nat -> Nat]
      /\ Stream(s, multiplier)[0] = s
      /\ \A n \in Nat : Stream(s, multiplier)[n + 1] = randlc(Stream(s, multiplier)[n], multiplier)
  BY <1>1, StreamIs
<1> QED  BY <1>2 DEF Number, After

\* The four numbers after the k-th one.
Four(s, k) == <<Number(s, k + 1), Number(s, k + 2), Number(s, k + 3), Number(s, k + 4)>>

\* Each of the four is made from the one before.
LEMMA FourIs ==
  ASSUME NEW s \in Nat, NEW k \in Nat
  PROVE  LET x == Number(s, k) IN Four(s, k) = <<After(x), After(After(x)), After(After(After(x))), After(After(After(After(x))))>>
<1>1. k + 2 = (k + 1) + 1 /\ k + 3 = (k + 2) + 1 /\ k + 4 = (k + 3) + 1 /\ k + 1 \in Nat /\ k + 2 \in Nat /\ k + 3 \in Nat
  OBVIOUS
<1>2. Number(s, k + 1) = After(Number(s, k))
  BY NumberIs
<1>3. Number(s, k + 2) = After(Number(s, k + 1))
  BY <1>1, NumberIs
<1>4. Number(s, k + 3) = After(Number(s, k + 2))
  BY <1>1, NumberIs
<1>5. Number(s, k + 4) = After(Number(s, k + 3))
  BY <1>1, NumberIs
<1> QED  BY <1>2, <1>3, <1>4, <1>5 DEF Four

\* g goes through the numbers from s on, four by four: the loop of create_seq().
Fours(g, s, n) ==
  /\ g[0] = <<s, s, s, s>>
  /\ \A i \in 0 .. n - 1 :
       g[i][4] \in Nat => LET x == g[i][4] IN
         g[i + 1] = <<After(x), After(After(x)), After(After(After(x))), After(After(After(After(x))))>>

\* So that it comes to all of them in turn.
LEMMA FoursAre ==
  ASSUME NEW s \in Nat, NEW n \in Nat, NEW g, Fours(g, s, n)
  PROVE  \A i \in 0 .. n - 1 : g[i + 1] = Four(s, 4 * i)
<1> DEFINE S == {i \in Nat : i <= n => g[i][4] = Number(s, 4 * i)}
<1>1. 0 \in S
  <2>1. g[0][4] = s /\ Number(s, 0) = s /\ 4 * 0 = 0
    BY NumberIs DEF Fours
  <2> QED  BY <2>1
<1>2. ASSUME NEW i \in Nat, i < n, g[i][4] = Number(s, 4 * i) PROVE g[i + 1] = Four(s, 4 * i)
  <2>1. 4 * i \in Nat /\ i \in 0 .. n - 1
    BY <1>2
  <2>2. g[i][4] \in Nat
    BY <1>2, <2>1, NumberIs
  <2>3. LET x == Number(s, 4 * i) IN
          g[i + 1] = <<After(x), After(After(x)), After(After(After(x))), After(After(After(After(x))))>>
    BY <1>2, <2>1, <2>2 DEF Fours
  <2> QED  BY <2>1, <2>3, FourIs
<1>3. ASSUME NEW i \in S PROVE i + 1 \in S
  <2> SUFFICES ASSUME i + 1 <= n PROVE g[i + 1][4] = Number(s, 4 * (i + 1))
    OBVIOUS
  <2>1. i \in Nat /\ i < n /\ g[i][4] = Number(s, 4 * i)
    OBVIOUS
  <2>2. g[i + 1][4] = Number(s, 4 * i + 4)
    BY <1>2, <2>1 DEF Four
  <2>3. 4 * i + 4 = 4 * (i + 1)
    OBVIOUS
  <2> QED  BY <2>2, <2>3
<1>4. S \in SUBSET Nat
  OBVIOUS
<1>5. S = Nat
  <2> HIDE DEF S
  <2> QED  BY <1>1, <1>3, <1>4, Induct
<1>6. \A i \in 0 .. n - 1 : i \in Nat /\ i < n /\ g[i][4] = Number(s, 4 * i)
  BY <1>5
<1> QED  BY <1>2, <1>6

\* Such a walk.
TheFours(s, n) == [i \in 0 .. n |-> IF i = 0 THEN <<s, s, s, s>> ELSE Four(s, 4 * (i - 1))]

\* It is one.
LEMMA TheFoursAre ==
  ASSUME NEW s \in Nat, NEW n \in Nat, NEW i \in 0 .. n
  PROVE  /\ i = 0 => TheFours(s, n)[i] = <<s, s, s, s>>
         /\ i # 0 => LET x == TheFours(s, n)[i - 1][4] IN
                     /\ x \in Nat
                     /\ TheFours(s, n)[i] = <<After(x), After(After(x)), After(After(After(x))), After(After(After(After(x))))>>
<1>1. CASE i = 0
  BY <1>1 DEF TheFours
<1>2. CASE i # 0
  <2>1. PICK k \in 0 .. n : i = k + 1 /\ k \in Nat /\ 4 * k \in Nat
    <3>1. i - 1 \in 0 .. n /\ (i - 1) + 1 = i
      BY <1>2
    <3> QED  BY <3>1
  <2>2. TheFours(s, n)[i] = Four(s, 4 * k)
    BY <1>2, <2>1 DEF TheFours
  <2>3. TheFours(s, n)[k][4] = Number(s, 4 * k)
    <3>1. CASE k = 0
      BY <3>1, NumberIs DEF TheFours
    <3>2. CASE k # 0
      <4>1. PICK j \in Nat : k = j + 1
        <5>1. k - 1 \in Nat /\ (k - 1) + 1 = k
          BY <2>1, <3>2
        <5> QED  BY <5>1
      <4>2. TheFours(s, n)[k] = Four(s, 4 * (k - 1))
        BY <3>2 DEF TheFours
      <4>3. k - 1 = j /\ 4 * k = 4 * j + 4
        BY <4>1
      <4>4. Four(s, 4 * j)[4] = Number(s, 4 * j + 4)
        BY DEF Four
      <4> QED  BY <4>2, <4>3, <4>4
    <3> QED  BY <3>1, <3>2
  <2>4. Number(s, 4 * k) \in Nat
    BY <2>1, NumberIs
  <2>5. i - 1 = k
    BY <2>1
  <2> QED  BY <1>2, <2>1, <2>2, <2>3, <2>4, <2>5, FourIs
<1> QED  BY <1>1, <1>2

\* create_seq() makes the keys of the stream that begins with its seed.
LEMMA CreateSeqIs ==
  ASSUME NEW s \in Nat, NEW n \in Nat
  PROVE  create_seq(s, n) = [i \in 0 .. n - 1 |-> KeyAt(s, i)]
<1> DEFINE Eq(g) == g = [i \in 0 .. n |->
                           IF i = 0 THEN <<s, s, s, s>>
                           ELSE LET a == randlc(g[i - 1][4], multiplier)
                                    b == randlc(a, multiplier)
                                    c == randlc(b, multiplier)
                                IN  <<a, b, c, randlc(c, multiplier)>>]
           numbers == CHOOSE g : Eq(g)
           key(x) == ((MAX_KEY \div 4) * (x[1] + x[2] + x[3] + x[4])) \div (Half * Half)
<1>1. create_seq(s, n) = [i \in 0 .. n - 1 |-> key(numbers[i + 1])]
  BY DEF create_seq, KeysFrom
<1>2. Eq(TheFours(s, n))
  <2>1. ASSUME NEW i \in 0 .. n
        PROVE  TheFours(s, n)[i] = IF i = 0 THEN <<s, s, s, s>>
                                   ELSE LET a == randlc(TheFours(s, n)[i - 1][4], multiplier)
                                            b == randlc(a, multiplier)
                                            c == randlc(b, multiplier)
                                        IN  <<a, b, c, randlc(c, multiplier)>>
    BY TheFoursAre, ZenonT(60) DEF After
  <2>2. TheFours(s, n) = [i \in 0 .. n |-> TheFours(s, n)[i]]
    BY DEF TheFours
  <2> QED  BY <2>1, <2>2
<1>3. Eq(numbers)
  <2>1. numbers = CHOOSE g : Eq(g)
    OBVIOUS
  <2> HIDE DEF Eq, numbers
  <2> QED  BY <1>2, <2>1
<1> HIDE DEF numbers
<1>4. Fours(numbers, s, n)
  <2>1. numbers[0] = <<s, s, s, s>>
    BY <1>3
  <2>2. ASSUME NEW i \in 0 .. n - 1
        PROVE  LET x == numbers[i][4] IN
               numbers[i + 1] = <<After(x), After(After(x)), After(After(After(x))), After(After(After(After(x))))>>
    <3>1. i + 1 \in 0 .. n /\ i + 1 # 0 /\ (i + 1) - 1 = i
      OBVIOUS
    <3> QED  BY <1>3, <3>1 DEF After
  <2> HIDE DEF Eq
  <2> QED  BY <2>1, <2>2 DEF Fours
<1>5. \A i \in 0 .. n - 1 : numbers[i + 1] = Four(s, 4 * i)
  BY <1>4, FoursAre
<1>6. \A i \in 0 .. n - 1 : key(numbers[i + 1]) = KeyAt(s, i)
  BY <1>5 DEF Four, KeyAt
<1> QED  BY <1>1, <1>6

\* So does the serial code, whose keys the benchmark is to sort.
LEMMA TheKeysAre ==
  ASSUME NEW s \in Nat
  PROVE  TheKeys(s) = [i \in 0 .. NUM_KEYS - 1 |-> KeyAt(s, i)]
<1>0. NUM_KEYS \in Nat
  BY Sizes
<1> DEFINE upon(x) == (x * multiplier) % (Half * Half)
           Eq(g) == g = [i \in 0 .. NUM_KEYS |->
                           IF i = 0 THEN <<s, s, s, s>>
                           ELSE LET a == upon(g[i - 1][4]) b == upon(a) c == upon(b)
                                IN  <<a, b, c, upon(c)>>]
           numbers == CHOOSE g : Eq(g)
           key(x) == ((MAX_KEY \div 4) * (x[1] + x[2] + x[3] + x[4])) \div (Half * Half)
<1>1. TheKeys(s) = [i \in 0 .. NUM_KEYS - 1 |-> key(numbers[i + 1])]
  BY DEF TheKeys, KeysFrom
<1>7. \A x \in Nat : upon(x) = After(x) /\ After(x) \in Nat
  <2>1. multiplier \in Nat
    BY SizesAssumption, WrapIsPositive DEF Wrap
  <2> QED  BY <2>1, RandlcIs, RandlcNat DEF Wrap, After
<1> HIDE DEF upon
<1>8. \A x \in Nat : <<upon(x), upon(upon(x)), upon(upon(upon(x))), upon(upon(upon(upon(x))))>>
                     = <<After(x), After(After(x)), After(After(After(x))), After(After(After(After(x))))>>
  BY <1>7
<1>2. Eq(TheFours(s, NUM_KEYS))
  <2>1. ASSUME NEW i \in 0 .. NUM_KEYS
        PROVE  TheFours(s, NUM_KEYS)[i] = IF i = 0 THEN <<s, s, s, s>>
                                   ELSE LET a == upon(TheFours(s, NUM_KEYS)[i - 1][4]) b == upon(a) c == upon(b)
                                        IN  <<a, b, c, upon(c)>>
    BY <1>0, <1>8, TheFoursAre, ZenonT(60)
  <2>2. TheFours(s, NUM_KEYS) = [i \in 0 .. NUM_KEYS |-> TheFours(s, NUM_KEYS)[i]]
    BY DEF TheFours
  <2> QED  BY <2>1, <2>2
<1>3. Eq(numbers)
  <2>1. numbers = CHOOSE g : Eq(g)
    OBVIOUS
  <2> HIDE DEF Eq, numbers
  <2> QED  BY <1>2, <2>1
<1> HIDE DEF numbers
<1>4. Fours(numbers, s, NUM_KEYS)
  <2>1. numbers[0] = <<s, s, s, s>>
    BY <1>0, <1>3
  <2>2. ASSUME NEW i \in 0 .. NUM_KEYS - 1, numbers[i][4] \in Nat
        PROVE  LET x == numbers[i][4] IN
               numbers[i + 1] = <<After(x), After(After(x)), After(After(After(x))), After(After(After(After(x))))>>
    <3>1. i + 1 \in 0 .. NUM_KEYS /\ i + 1 # 0 /\ (i + 1) - 1 = i
      BY <1>0
    <3>2. LET x == numbers[i][4] IN
          numbers[i + 1] = <<upon(x), upon(upon(x)), upon(upon(upon(x))), upon(upon(upon(upon(x))))>>
      BY <1>3, <3>1
    <3> QED  BY <1>8, <2>2, <3>2
  <2> HIDE DEF Eq
  <2> QED  BY <2>1, <2>2 DEF Fours
<1>5. \A i \in 0 .. NUM_KEYS - 1 : numbers[i + 1] = Four(s, 4 * i)
  BY <1>0, <1>4, FoursAre
<1>6. \A i \in 0 .. NUM_KEYS - 1 : key(numbers[i + 1]) = KeyAt(s, i)
  BY <1>5 DEF Four, KeyAt
<1> QED  BY <1>1, <1>6

\* A key is below MAX_KEY: four numbers below 2^46, a quarter of MAX_KEY each.
LEMMA KeyInRange ==
  ASSUME NEW s \in 0 .. Wrap - 1, NEW i \in Nat
  PROVE  KeyAt(s, i) \in KeyRange
<1>1. \A n \in Nat : Number(s, n) \in 0 .. Wrap - 1
  <2>1. multiplier \in Nat
    BY SizesAssumption, WrapIsPositive DEF Wrap
  <2> QED  BY <2>1, StreamInRange DEF Number
<1>2. 4 * i + 1 \in Nat /\ 4 * i + 2 \in Nat /\ 4 * i + 3 \in Nat /\ 4 * i + 4 \in Nat
  OBVIOUS
<1>3. PICK q \in Nat : q = MAX_KEY \div 4 /\ MAX_KEY = 4 * q
  <2>1. MAX_KEY \in Nat /\ MAX_KEY = 4 * (MAX_KEY \div 4)
    BY Sizes
  <2>2. MAX_KEY \div 4 \in Nat
    BY <2>1
  <2> QED  BY <2>1, <2>2
<1>4. PICK x \in Nat : /\ x = Number(s, 4 * i + 1) + Number(s, 4 * i + 2) + Number(s, 4 * i + 3) + Number(s, 4 * i + 4)
                       /\ x <= 4 * (Wrap - 1)
  <2>1. /\ Number(s, 4 * i + 1) \in 0 .. Wrap - 1 /\ Number(s, 4 * i + 2) \in 0 .. Wrap - 1
        /\ Number(s, 4 * i + 3) \in 0 .. Wrap - 1 /\ Number(s, 4 * i + 4) \in 0 .. Wrap - 1
    BY <1>1, <1>2
  <2> QED  BY <2>1, WrapIsPositive
<1>5. PICK w \in Nat \ {0} : w = Wrap
  BY WrapIsPositive
<1>6. KeyAt(s, i) = (q * x) \div w
  BY <1>3, <1>4, <1>5 DEF KeyAt, Wrap
<1>7. PICK y \in Nat : y = q * x
  OBVIOUS
<1>8. q * x <= q * (4 * (w - 1))
  BY <1>4, <1>5
<1>9. q * (4 * (w - 1)) = (4 * q) * w - 4 * q
  OBVIOUS
<1>10. q > 0
  BY <1>3, SizesAssumption, Sizes
<1>11. y < MAX_KEY * w
  BY <1>3, <1>7, <1>8, <1>9, <1>10
<1>12. PICK d \in Nat : d = y \div w /\ d * w <= y
  <2>1. y = (y \div w) * w + (y % w) /\ y % w \in 0 .. w - 1 /\ y \div w \in Nat
    BY Division
  <2>2. PICK d \in Nat : d = y \div w
    BY <2>1
  <2>3. d * w <= y
    BY <2>1, <2>2
  <2> QED  BY <2>2, <2>3
<1>13. d < MAX_KEY
  <2> SUFFICES ASSUME d >= MAX_KEY PROVE FALSE
    BY Sizes
  <2>1. MAX_KEY \in Nat
    BY Sizes
  <2>2. d * w >= MAX_KEY * w
    BY <2>1
  <2> QED  BY <1>11, <1>12, <2>1, <2>2
<1> QED  BY <1>6, <1>7, <1>12, <1>13, Sizes DEF KeyRange

\* The numbers of a run that begins with the m-th number of another one.
LEMMA NumbersGoOn ==
  ASSUME NEW s \in Nat
  PROVE  \A m, n \in Nat : Number(Number(s, m), n) = Number(s, m + n)
<1>1. multiplier \in Nat
  BY SizesAssumption, WrapIsPositive DEF Wrap
<1> QED  BY <1>1, StreamGoesOn DEF Number

\* The keys of a thread are those that the serial code has in its place: the
\* seed of find_my_seed() is where its part of the run begins.
THEOREM KeysOfThread ==
  ASSUME NEW np \in Nat \ {0}, NEW t \in 0 .. np - 1, NEW s \in 0 .. Wrap - 1,
         NEW mq, mq = (NUM_KEYS + np - 1) \div np
  PROVE  /\ mq \in Nat
         /\ \A j \in 0 .. mq - 1 : create_seq(OmpSeed(t, np, 4 * NUM_KEYS, s), mq)[j] = KeyAt(s, mq * t + j)
<1>0. s \in Nat /\ NUM_KEYS \in Nat /\ NUM_KEYS > 0 /\ t \in Nat
  BY Sizes, WrapIsPositive, SizesAssumption
<1>1. mq \in Nat
  <2>1. NUM_KEYS + np - 1 \in Nat
    BY <1>0
  <2> QED  BY <2>1, Division
<1>2. PICK nn \in Nat : nn = 4 * NUM_KEYS
  BY <1>0
<1>3. nn \div 4 = NUM_KEYS
  BY <1>0, <1>2
<1>4. PICK m \in Nat : m = mq * 4 * t
  BY <1>0, <1>1
<1>5. OmpSeed(t, np, nn, s) = Number(s, m)
  <2>1. OmpSeed(t, np, nn, s) = Stream(s, multiplier)[((nn \div 4 + np - 1) \div np) * 4 * t]
    <3>1. nn \div 4 > 0
      BY <1>0, <1>3
    <3> QED  BY <1>0, <3>1, OmpSeedIs
  <2> QED  BY <1>3, <1>4, <2>1 DEF Number
<1>6. PICK u \in Nat : u = Number(s, m)
  BY <1>0, NumberIs
<1>7. create_seq(u, mq) = [j \in 0 .. mq - 1 |-> KeyAt(u, j)]
  BY <1>1, CreateSeqIs
<1>8. ASSUME NEW j \in 0 .. mq - 1 PROVE KeyAt(u, j) = KeyAt(s, mq * t + j)
  <2>1. PICK i \in Nat : i = mq * t + j
    <3>1. mq * t \in Nat /\ j \in Nat
      BY <1>0, <1>1
    <3> QED  BY <3>1
  <2>2. 4 * i = m + 4 * j
    BY <1>0, <1>1, <1>4, <2>1
  <2>3. \A k \in 1 .. 4 : Number(u, 4 * j + k) = Number(s, 4 * i + k)
    <3> SUFFICES ASSUME NEW k \in 1 .. 4 PROVE Number(u, 4 * j + k) = Number(s, 4 * i + k)
      OBVIOUS
    <3>1. 4 * j + k \in Nat /\ m + (4 * j + k) = 4 * i + k
      BY <2>2
    <3>2. Number(u, 4 * j + k) = Number(s, m + (4 * j + k))
      BY <1>0, <1>6, <3>1, NumbersGoOn
    <3> QED  BY <3>1, <3>2
  <2>4. KeyAt(u, j) = KeyAt(s, i)
    BY <2>3 DEF KeyAt
  <2> QED  BY <2>1, <2>4
<1> QED  BY <1>1, <1>2, <1>5, <1>6, <1>7, <1>8, SMTT(60)

-----------------------------------------------------------------------------
(* The shares of the threads.                                              *)

\* Where the share of thread t of n elements begins: schedule(static).
FirstOf(np, t, n) == (n \div np) * t + IF t < n % np THEN t ELSE n % np

\* The share after it begins one share further.
LEMMA FirstNext ==
  ASSUME NEW np \in Nat \ {0}, NEW n \in Nat, NEW t \in Nat
  PROVE  /\ FirstOf(np, t, n) \in Nat
         /\ FirstOf(np, t + 1, n) = FirstOf(np, t, n) + (n \div np) + IF t < n % np THEN 1 ELSE 0
         /\ FirstOf(np, t, n) <= FirstOf(np, t + 1, n)
<1>1. n \div np \in Nat /\ n % np \in Nat
  BY Division
<1>2. PICK q \in Nat : q = n \div np
  BY <1>1
<1>3. PICK r \in Nat : r = n % np
  BY <1>1
<1>4. FirstOf(np, t, n) = q * t + IF t < r THEN t ELSE r
  BY <1>2, <1>3 DEF FirstOf
<1>5. FirstOf(np, t + 1, n) = q * (t + 1) + IF t + 1 < r THEN t + 1 ELSE r
  BY <1>2, <1>3 DEF FirstOf
<1>6. q * (t + 1) = q * t + q /\ q * t \in Nat
  OBVIOUS
<1>7. FirstOf(np, t, n) \in Nat
  BY <1>4, <1>6
<1>8. FirstOf(np, t + 1, n) = FirstOf(np, t, n) + q + IF t < r THEN 1 ELSE 0
  BY <1>4, <1>5, <1>6
<1> QED  BY <1>2, <1>3, <1>7, <1>8

\* The shares of later threads begin later.
LEMMA FirstGrows ==
  ASSUME NEW np \in Nat \ {0}, NEW n \in Nat, NEW t \in Nat
  PROVE  \A u \in Nat : t <= u => FirstOf(np, t, n) <= FirstOf(np, u, n)
<1> DEFINE S == {d \in Nat : FirstOf(np, t, n) <= FirstOf(np, t + d, n)}
<1>1. 0 \in S
  BY FirstNext
<1>2. ASSUME NEW d \in S PROVE d + 1 \in S
  <2>1. PICK u \in Nat : u = t + d
    OBVIOUS
  <2>2. FirstOf(np, u, n) <= FirstOf(np, u + 1, n) /\ FirstOf(np, u, n) \in Nat /\ FirstOf(np, u + 1, n) \in Nat
    <3>1. u + 1 \in Nat
      OBVIOUS
    <3> QED  BY <3>1, FirstNext
  <2>3. FirstOf(np, t, n) <= FirstOf(np, u, n) /\ FirstOf(np, t, n) \in Nat
    BY <2>1, FirstNext
  <2>4. t + (d + 1) = u + 1
    BY <2>1
  <2>5. FirstOf(np, t, n) <= FirstOf(np, t + (d + 1), n)
    BY <2>2, <2>3, <2>4
  <2> QED  BY <2>5
<1>3. S \in SUBSET Nat
  OBVIOUS
<1>4. S = Nat
  <2> HIDE DEF S
  <2> QED  BY <1>1, <1>2, <1>3, Induct
<1> TAKE u \in Nat
<1> HAVE t <= u
<1>5. u - t \in Nat /\ t + (u - t) = u
  OBVIOUS
<1> QED  BY <1>4, <1>5

\* The first share begins with the first element, the last one ends with the last.
LEMMA FirstAndLast ==
  ASSUME NEW np \in Nat \ {0}, NEW n \in Nat
  PROVE  FirstOf(np, 0, n) = 0 /\ FirstOf(np, np, n) = n
<1>1. n = (n \div np) * np + (n % np) /\ n % np \in 0 .. np - 1 /\ n \div np \in Nat
  BY Division
<1>2. PICK q \in Nat : q = n \div np
  BY <1>1
<1>3. PICK r \in Nat : r = n % np
  BY <1>1
<1>4. FirstOf(np, 0, n) = q * 0 + IF 0 < r THEN 0 ELSE r
  BY <1>2, <1>3 DEF FirstOf
<1>5. FirstOf(np, np, n) = q * np + IF np < r THEN np ELSE r
  BY <1>2, <1>3 DEF FirstOf
<1> QED  BY <1>1, <1>2, <1>3, <1>4, <1>5

\* The share of thread t of n elements.
Share(np, t, n) == FirstOf(np, t, n) .. FirstOf(np, t + 1, n) - 1

\* Every element is in the share of exactly one thread.
LEMMA Shares ==
  ASSUME NEW np \in Nat \ {0}, NEW n \in Nat
  PROVE  /\ \A t \in 0 .. np - 1 : /\ FirstOf(np, t, n) \in Nat /\ FirstOf(np, t + 1, n) \in Nat
                                   /\ FirstOf(np, t, n) <= FirstOf(np, t + 1, n) /\ FirstOf(np, t + 1, n) <= n
                                   /\ Share(np, t, n) \subseteq 0 .. n - 1
         /\ \A t, u \in 0 .. np - 1 : t # u => Share(np, t, n) \cap Share(np, u, n) = {}
         /\ \A i \in 0 .. n - 1 : \E t \in 0 .. np - 1 : i \in Share(np, t, n)
<1>1. ASSUME NEW t \in 0 .. np - 1
      PROVE  /\ FirstOf(np, t, n) \in Nat /\ FirstOf(np, t + 1, n) \in Nat
             /\ FirstOf(np, t, n) <= FirstOf(np, t + 1, n) /\ FirstOf(np, t + 1, n) <= n
  <2>1. t \in Nat /\ t + 1 \in Nat /\ t + 1 <= np /\ np \in Nat
    OBVIOUS
  <2>2. FirstOf(np, t, n) \in Nat /\ FirstOf(np, t + 1, n) \in Nat /\ FirstOf(np, t, n) <= FirstOf(np, t + 1, n)
    BY <2>1, FirstNext
  <2>3. FirstOf(np, t + 1, n) <= FirstOf(np, np, n)
    BY <2>1, FirstGrows
  <2> QED  BY <2>2, <2>3, FirstAndLast
<1>2. ASSUME NEW t \in 0 .. np - 1, NEW u \in 0 .. np - 1, t < u
      PROVE  Share(np, t, n) \cap Share(np, u, n) = {}
  <2>1. t + 1 \in Nat /\ u \in Nat /\ t + 1 <= u
    BY <1>2
  <2>2. FirstOf(np, t + 1, n) <= FirstOf(np, u, n)
    BY <2>1, FirstGrows
  <2>3. FirstOf(np, t + 1, n) \in Nat /\ FirstOf(np, u, n) \in Nat
    BY <1>1
  <2> QED  BY <2>2, <2>3 DEF Share
<1>3. ASSUME NEW i \in 0 .. n - 1 PROVE \E t \in 0 .. np - 1 : i \in Share(np, t, n)
  <2> DEFINE T == {t \in 0 .. np : i < FirstOf(np, t, n)}
  <2>1. np \in T /\ T \in SUBSET Nat
    BY FirstAndLast
  <2>2. PICK u \in T : \A x \in T : u <= x
    <3> HIDE DEF T
    <3> QED  BY <2>1, LeastNumber
  <2>3. u # 0
    BY FirstAndLast
  <2>4. PICK t \in 0 .. np - 1 : u = t + 1
    <3>1. u - 1 \in 0 .. np - 1 /\ u = (u - 1) + 1
      BY <2>3
    <3> QED  BY <3>1
  <2>5. t \notin T
    <3>1. ~(u <= t)
      BY <2>4
    <3> QED  BY <2>2, <3>1
  <2>6. FirstOf(np, t, n) \in Nat /\ FirstOf(np, t + 1, n) \in Nat
    BY <1>1
  <2>7. FirstOf(np, t, n) <= i
    BY <2>5, <2>6
  <2>8. i < FirstOf(np, t + 1, n)
    BY <2>4
  <2> QED  BY <2>6, <2>7, <2>8 DEF Share
<1>4. \A t \in 0 .. np - 1 : Share(np, t, n) \subseteq 0 .. n - 1
  BY <1>1 DEF Share
<1>5. \A t, u \in 0 .. np - 1 : t # u => Share(np, t, n) \cap Share(np, u, n) = {}
  <2> SUFFICES ASSUME NEW t \in 0 .. np - 1, NEW u \in 0 .. np - 1, t # u
               PROVE  Share(np, t, n) \cap Share(np, u, n) = {}
    OBVIOUS
  <2>1. CASE t < u
    BY <1>2, <2>1
  <2>2. CASE u < t
    BY <1>2, <2>2
  <2> QED  BY <2>1, <2>2
<1> QED  BY <1>1, <1>3, <1>4, <1>5

\* Shares rounded up, as create_seq() and full_verify() divide.
LEMMA RoundedUp ==
  ASSUME NEW np \in Nat \ {0}, NEW n \in Nat
  PROVE  (n + np - 1) \div np \in Nat /\ ((n + np - 1) \div np) * np >= n
<1> DEFINE x == n + np - 1
<1>1. x \in Nat
  OBVIOUS
<1>2. x = (x \div np) * np + (x % np) /\ x % np \in 0 .. np - 1 /\ x \div np \in Nat
  <2> HIDE DEF x
  <2> QED  BY <1>1, Division
<1>3. PICK r \in 0 .. np - 1 : r = x % np
  BY <1>2
<1>4. PICK m \in Nat : m = x \div np
  BY <1>2
<1>5. n + np - 1 = m * np + r
  BY <1>2, <1>3, <1>4
<1>6. m * np \in Nat
  BY <1>4
<1>7. m * np >= n
  BY <1>5, <1>6
<1> QED  BY <1>4, <1>7

\* As it is when all shares are of the same size, rounded up.
LEMMA SharesRoundedUp ==
  ASSUME NEW np \in Nat \ {0}, NEW n \in Nat, NEW mq \in Nat, mq * np >= n
  PROVE  /\ \A t, u \in 0 .. np - 1 : t # u => (mq * t .. mq * (t + 1) - 1) \cap (mq * u .. mq * (u + 1) - 1) = {}
         /\ \A i \in 0 .. n - 1 : \E t \in 0 .. np - 1 : i \in mq * t .. mq * (t + 1) - 1
<1>3. mq * np >= n
  OBVIOUS
<1>4. ASSUME NEW t \in 0 .. np - 1, NEW u \in 0 .. np - 1, t < u
      PROVE  (mq * t .. mq * (t + 1) - 1) \cap (mq * u .. mq * (u + 1) - 1) = {}
  <2>1. t + 1 <= u
    BY <1>4
  <2>2. mq * (t + 1) <= mq * u
    BY <1>3, <2>1
  <2>3. mq * t \in Nat /\ mq * (t + 1) \in Nat /\ mq * u \in Nat /\ mq * (u + 1) \in Nat
    BY <1>3
  <2> QED  BY <2>2, <2>3
<1>5. \A t, u \in 0 .. np - 1 : t # u => (mq * t .. mq * (t + 1) - 1) \cap (mq * u .. mq * (u + 1) - 1) = {}
  <2> SUFFICES ASSUME NEW t \in 0 .. np - 1, NEW u \in 0 .. np - 1, t # u
               PROVE  (mq * t .. mq * (t + 1) - 1) \cap (mq * u .. mq * (u + 1) - 1) = {}
    OBVIOUS
  <2>1. CASE t < u
    BY <1>4, <2>1
  <2>2. CASE u < t
    BY <1>4, <2>2
  <2> QED  BY <2>1, <2>2
<1>6. ASSUME NEW i \in 0 .. n - 1 PROVE \E t \in 0 .. np - 1 : i \in mq * t .. mq * (t + 1) - 1
  <2>1. mq \in Nat \ {0}
    <3>1. ASSUME mq = 0 PROVE FALSE
      <4>1. 0 * np = 0
        OBVIOUS
      <4> QED  BY <1>3, <3>1, <4>1
    <3> QED  BY <1>3, <3>1
  <2>2. i = (i \div mq) * mq + (i % mq) /\ i % mq \in 0 .. mq - 1 /\ i \div mq \in Nat
    BY <2>1, Division
  <2>3. PICK t \in Nat : t = i \div mq
    BY <2>2
  <2>4. PICK r \in 0 .. mq - 1 : r = i % mq
    BY <2>2
  <2>5. i = t * mq + r
    BY <2>2, <2>3, <2>4
  <2>6. mq * t = t * mq /\ mq * (t + 1) = t * mq + mq
    BY <2>1
  <2>7. t * mq \in Nat
    BY <2>1
  <2>8. i \in mq * t .. mq * (t + 1) - 1
    BY <2>1, <2>5, <2>6, <2>7
  <2>9. t < np
    <3>1. ASSUME t >= np PROVE FALSE
      <4>1. t * mq >= np * mq
        BY <2>1, <3>1
      <4>2. np * mq = mq * np
        BY <2>1
      <4> QED  BY <1>3, <2>5, <2>7, <4>1, <4>2
    <3> QED  BY <3>1
  <2> QED  BY <2>8, <2>9
<1> QED  BY <1>5, <1>6

-----------------------------------------------------------------------------
(* Where the keys go.                                                      *)

\* The indices of the keys, and all arrays of keys.
Indices == 0 .. NUM_KEYS - 1
KeyArrays == [Indices -> KeyRange]

\* Sets of indices are finite.
LEMMA Finite ==
  /\ IsFiniteSet(Indices) /\ Cardinality(Indices) = NUM_KEYS
  /\ \A S \in SUBSET Indices : IsFiniteSet(S) /\ Cardinality(S) \in Nat
<1>1. NUM_KEYS \in Nat /\ 0 \in Int /\ NUM_KEYS - 1 \in Int
  BY Sizes
<1>2. IsFiniteSet(0 .. NUM_KEYS - 1) /\ Cardinality(0 .. NUM_KEYS - 1) = IF 0 > NUM_KEYS - 1 THEN 0 ELSE (NUM_KEYS - 1) - 0 + 1
  BY <1>1, FS_Interval
<1>3. ASSUME NEW S \in SUBSET Indices PROVE IsFiniteSet(S) /\ Cardinality(S) \in Nat
  BY <1>2, FS_Subset, FS_CardinalityType DEF Indices
<1> QED  BY <1>1, <1>2, <1>3 DEF Indices

\* A part is not larger than the whole, and smaller unless it is the whole.
LEMMA Smaller ==
  ASSUME NEW S \in SUBSET Indices, NEW T, T \subseteq S
  PROVE  /\ Cardinality(T) <= Cardinality(S) /\ Cardinality(T) \in Nat /\ Cardinality(S) \in Nat
         /\ T # S => Cardinality(T) < Cardinality(S)
<1>1. IsFiniteSet(S) /\ Cardinality(S) \in Nat /\ Cardinality(T) \in Nat
  BY Finite
<1>2. Cardinality(T) <= Cardinality(S) /\ (Cardinality(S) = Cardinality(T) => S = T)
  BY <1>1, FS_Subset
<1> QED  BY <1>1, <1>2

\* A new element makes a set larger by one.
LEMMA OneMore ==
  ASSUME NEW S \in SUBSET Indices, NEW x \in Indices, x \notin S
  PROVE  Cardinality(S \cup {x}) = Cardinality(S) + 1
BY Finite, FS_AddElement

\* The shift puts every value into exactly one bucket.
LEMMA BucketIs ==
  ASSUME NEW v \in KeyRange
  PROVE  /\ BucketOf(v) \in Buckets
         /\ \A b \in Buckets : v \in KeysOf(b) <=> BucketOf(v) = b
<1>1. PICK m \in Nat \ {0} : m = num_bucket_keys
  BY Sizes
<1>2. v \in Nat /\ v < NUM_BUCKETS * m /\ NUM_BUCKETS \in Nat
  BY <1>1, Sizes DEF KeyRange
<1>3. v = (v \div m) * m + (v % m) /\ v % m \in 0 .. m - 1 /\ v \div m \in Nat
  BY <1>2, Division
<1>4. PICK q \in Nat : q = v \div m
  BY <1>3
<1>5. PICK r \in 0 .. m - 1 : r = v % m
  BY <1>3
<1>6. v = q * m + r /\ BucketOf(v) = q
  BY <1>1, <1>3, <1>4, <1>5 DEF BucketOf
<1>7. q < NUM_BUCKETS
  <2>1. ASSUME q >= NUM_BUCKETS PROVE FALSE
    <3>1. q * m >= NUM_BUCKETS * m
      BY <1>2, <2>1
    <3>2. q * m \in Nat
      OBVIOUS
    <3> QED  BY <1>2, <1>6, <3>1, <3>2
  <2> QED  BY <1>2, <2>1
<1>8. ASSUME NEW b \in Nat PROVE v \in b * m .. (b + 1) * m - 1 <=> q = b
  <2>1. q * m \in Nat /\ b * m \in Nat /\ (b + 1) * m = b * m + m /\ (q + 1) * m = q * m + m
    OBVIOUS
  <2>2. CASE q = b
    BY <1>6, <2>1, <2>2
  <2>3. CASE q < b
    <3>1. (q + 1) * m <= b * m
      BY <2>3
    <3> QED  BY <1>6, <2>1, <2>3, <3>1
  <2>4. CASE q > b
    <3>1. (b + 1) * m <= q * m
      BY <2>4
    <3> QED  BY <1>6, <2>1, <2>4, <3>1
  <2> QED  BY <2>2, <2>3, <2>4
<1>9. BucketOf(v) \in Buckets
  BY <1>2, <1>6, <1>7 DEF Buckets
<1>10. \A b \in Buckets : b \in Nat
  BY <1>2 DEF Buckets
<1> QED  BY <1>1, <1>6, <1>8, <1>9, <1>10 DEF KeysOf

\* Larger values are not in smaller buckets.
LEMMA BucketsGrow ==
  ASSUME NEW u \in KeyRange, NEW v \in KeyRange, u <= v
  PROVE  BucketOf(u) <= BucketOf(v)
<1>1. PICK m \in Nat \ {0} : m = num_bucket_keys
  BY Sizes
<1>2. u \in Nat /\ v \in Nat
  BY Sizes DEF KeyRange
<1>3. u = (u \div m) * m + (u % m) /\ u % m \in 0 .. m - 1 /\ u \div m \in Nat
  BY <1>2, Division
<1>4. v = (v \div m) * m + (v % m) /\ v % m \in 0 .. m - 1 /\ v \div m \in Nat
  BY <1>2, Division
<1>5. PICK p \in Nat, q \in Nat : p = u \div m /\ q = v \div m
  BY <1>3, <1>4
<1>6. p * m <= u /\ v < q * m + m
  <2>1. PICK r \in 0 .. m - 1, z \in 0 .. m - 1 : r = u % m /\ z = v % m
    BY <1>3, <1>4
  <2>2. u = p * m + r /\ v = q * m + z
    BY <1>3, <1>4, <1>5, <2>1
  <2>3. p * m \in Nat /\ q * m \in Nat
    OBVIOUS
  <2> QED  BY <2>1, <2>2, <2>3
<1>7. p <= q
  <2>1. ASSUME p >= q + 1 PROVE FALSE
    <3>1. p * m >= (q + 1) * m
      BY <2>1
    <3>2. (q + 1) * m = q * m + m
      OBVIOUS
    <3> QED  BY <1>2, <1>6, <3>1, <3>2
  <2> QED  BY <2>1
<1> QED  BY <1>1, <1>5, <1>7 DEF BucketOf

\* The keys of smaller buckets, and those of bucket b before index m.
Before(a, b, m) == {j \in Indices : BucketOf(a[j]) < b \/ (BucketOf(a[j]) = b /\ j < m)}
\* Where the key of index i goes.
PlaceOf(a, i) == Cardinality(Before(a, BucketOf(a[i]), i))

\* These are numbers of keys.
LEMMA BeforeIs ==
  ASSUME NEW a \in KeyArrays
  PROVE  /\ \A i \in Indices : BucketOf(a[i]) \in Buckets /\ BucketOf(a[i]) \in Nat
         /\ \A b, m : Before(a, b, m) \in SUBSET Indices /\ Cardinality(Before(a, b, m)) \in Nat
<1>1. \A i \in Indices : BucketOf(a[i]) \in Buckets
  BY BucketIs DEF KeyArrays
<1>2. \A b \in Buckets : b \in Nat
  BY Sizes DEF Buckets
<1>3. \A b, m : Before(a, b, m) \in SUBSET Indices
  BY DEF Before
<1> QED  BY <1>1, <1>2, <1>3, Finite

\* The next key of a bucket has the next place.
LEMMA BeforeNext ==
  ASSUME NEW a \in KeyArrays, NEW i \in Nat, i \in Indices, NEW b \in Nat, b \in Buckets
  PROVE  Cardinality(Before(a, b, i + 1)) = Cardinality(Before(a, b, i)) + IF BucketOf(a[i]) = b THEN 1 ELSE 0
<1>0. b \in Nat /\ i \in Nat /\ \A j \in Indices : j \in Nat /\ BucketOf(a[j]) \in Nat
  BY Sizes, BeforeIs DEF Indices, Buckets
<1>1. CASE BucketOf(a[i]) = b
  <2>a. ASSUME NEW j \in Indices PROVE j < i + 1 <=> j < i \/ j = i
    BY <1>0
  <2>b. ~(i < i) /\ ~(b < b)
    OBVIOUS
  <2>1. Before(a, b, i + 1) = Before(a, b, i) \cup {i} /\ i \notin Before(a, b, i)
    BY <1>1, <2>a, <2>b DEF Before
  <2>2. Before(a, b, i) \in SUBSET Indices
    BY BeforeIs
  <2>3. Cardinality(Before(a, b, i) \cup {i}) = Cardinality(Before(a, b, i)) + 1
    BY <2>1, <2>2, OneMore
  <2> QED  BY <1>1, <2>1, <2>3
<1>2. CASE BucketOf(a[i]) # b
  <2>a. ASSUME NEW j \in Indices, BucketOf(a[j]) = b PROVE j < i + 1 <=> j < i
    <3>1. j # i /\ j \in Nat
      BY <1>0, <1>2, <2>a
    <3> QED  BY <3>1
  <2>1. Before(a, b, i + 1) = Before(a, b, i)
    BY <2>a DEF Before
  <2>2. Cardinality(Before(a, b, i)) \in Nat
    BY BeforeIs
  <2> QED  BY <1>2, <2>1, <2>2
<1> QED  BY <1>1, <1>2

\* The places are all there are, each taken once.
LEMMA PlacesAre ==
  ASSUME NEW a \in KeyArrays
  PROVE  /\ \A i \in Indices : PlaceOf(a, i) \in Indices
         /\ \A i, j \in Indices : PlaceOf(a, i) = PlaceOf(a, j) => i = j
         /\ \A k \in Indices : \E i \in Indices : PlaceOf(a, i) = k
<1> DEFINE R == {x \in Indices \X Indices : \/ BucketOf(a[x[1]]) < BucketOf(a[x[2]])
                                            \/ BucketOf(a[x[1]]) = BucketOf(a[x[2]]) /\ x[1] < x[2]}
           place == [x \in Indices |-> Cardinality({y \in Indices : <<y, x>> \in R})]
<1>0. \A j \in Indices : j \in Nat /\ BucketOf(a[j]) \in Nat
  BY Sizes, BeforeIs DEF Indices
<1>1. \A x, y \in Indices : <<y, x>> \in R <=> \/ BucketOf(a[y]) < BucketOf(a[x])
                                               \/ BucketOf(a[y]) = BucketOf(a[x]) /\ y < x
  OBVIOUS
<1> HIDE DEF R
<1>2. Strict(R, Indices)
  BY <1>0, <1>1 DEF Strict
<1>3. \A i \in Indices : place[i] = PlaceOf(a, i)
  <2>1. \A i \in Indices : {y \in Indices : <<y, i>> \in R} = Before(a, BucketOf(a[i]), i)
    BY <1>1 DEF Before
  <2> QED  BY <2>1 DEF PlaceOf
<1>4. place = [x \in Indices |-> Cardinality({y \in Indices : <<y, x>> \in R})]
  OBVIOUS
<1> HIDE DEF place
<1>5. /\ place \in [Indices -> 0 .. Cardinality(Indices) - 1]
      /\ \A x, y \in Indices : place[x] = place[y] => x = y
      /\ \A k \in 0 .. Cardinality(Indices) - 1 : \E x \in Indices : place[x] = k
  BY <1>2, <1>4, Finite, Places
<1>6. 0 .. Cardinality(Indices) - 1 = Indices
  BY Finite DEF Indices
<1>7. place \in [Indices -> Indices]
  BY <1>5, <1>6, Zenon
<1>8. \A k \in Indices : \E x \in Indices : place[x] = k
  BY <1>5, <1>6, Zenon
<1> QED  BY <1>3, <1>5, <1>7, <1>8

\* The places of a bucket lie between the keys before it and those after it.
LEMMA PlacesOfBucket ==
  ASSUME NEW a \in KeyArrays, NEW b \in Nat, b \in Buckets, NEW i \in Nat, i \in Indices
  PROVE  BucketOf(a[i]) = b <=> PlaceOf(a, i) \in Cardinality(Before(a, b, 0)) .. Cardinality(Before(a, b + 1, 0)) - 1
<1>0. b \in Nat /\ i \in Nat /\ \A j \in Indices : j \in Nat /\ BucketOf(a[j]) \in Nat
  BY Sizes, BeforeIs DEF Indices, Buckets
<1>1. \A c, m : Before(a, c, m) \in SUBSET Indices /\ Cardinality(Before(a, c, m)) \in Nat
  BY BeforeIs
<1>a. PICK c \in Nat : c = BucketOf(a[i])
  BY <1>0
<1> DEFINE mine == Before(a, c, i)
<1>b. ~(i < i) /\ ~(c < c)
  OBVIOUS
<1>2. PlaceOf(a, i) = Cardinality(mine) /\ i \notin mine /\ mine \in SUBSET Indices
  BY <1>a, <1>b, <1>1 DEF PlaceOf, Before
<1>3. CASE c = b
  <2>a. ASSUME NEW j \in Indices PROVE ~(j < 0) /\ (BucketOf(a[j]) < b + 1 <=> BucketOf(a[j]) < b \/ BucketOf(a[j]) = b)
    <3>1. j \in Nat /\ BucketOf(a[j]) \in Nat
      BY <1>0
    <3> QED  BY <3>1
  <2>1. Before(a, b, 0) \subseteq mine
    BY <1>3, <2>a DEF Before
  <2>2. mine \subseteq Before(a, b + 1, 0) /\ i \in Before(a, b + 1, 0)
    BY <1>a, <1>3, <2>a DEF Before
  <2> HIDE DEF mine
  <2>3. Cardinality(Before(a, b, 0)) <= Cardinality(mine)
    BY <1>2, <2>1, Smaller
  <2>4. Cardinality(mine) < Cardinality(Before(a, b + 1, 0))
    BY <1>1, <1>2, <2>2, Smaller
  <2>5. Cardinality(mine) \in Nat
    BY <1>2, Finite
  <2> QED  BY <1>a, <1>1, <1>2, <1>3, <2>3, <2>4, <2>5
<1>4. CASE c < b
  <2>a. ASSUME NEW j \in Indices, BucketOf(a[j]) < c \/ BucketOf(a[j]) = c PROVE BucketOf(a[j]) < b
    <3>1. PICK d \in Nat : d = BucketOf(a[j])
      BY <1>0
    <3> QED  BY <1>4, <2>a, <3>1
  <2>1. mine \subseteq Before(a, b, 0) /\ i \in Before(a, b, 0)
    BY <1>a, <1>4, <2>a DEF Before
  <2> HIDE DEF mine
  <2>2. Cardinality(mine) < Cardinality(Before(a, b, 0))
    BY <1>1, <1>2, <2>1, Smaller
  <2>3. Cardinality(mine) \in Nat
    BY <1>2, Finite
  <2> QED  BY <1>a, <1>1, <1>2, <1>4, <2>2, <2>3
<1>5. CASE c > b
  <2>a. ASSUME NEW j \in Indices
        PROVE  ~(j < 0) /\ (BucketOf(a[j]) < b + 1 => BucketOf(a[j]) < c)
    <3>1. PICK d \in Nat : d = BucketOf(a[j])
      BY <1>0
    <3>2. j \in Nat
      BY <1>0
    <3> QED  BY <1>5, <3>1, <3>2
  <2>1. Before(a, b + 1, 0) \subseteq mine
    BY <2>a DEF Before
  <2> HIDE DEF mine
  <2>2. Cardinality(Before(a, b + 1, 0)) <= Cardinality(mine)
    BY <1>2, <2>1, Smaller
  <2>3. Cardinality(mine) \in Nat
    BY <1>2, Finite
  <2> QED  BY <1>a, <1>1, <1>2, <1>5, <2>2, <2>3
<1> QED  BY <1>3, <1>4, <1>5

-----------------------------------------------------------------------------
(* Ranks.                                                                  *)

\* What an array of keys consists of.
LEMMA KeysAreNumbers ==
  ASSUME NEW a \in KeyArrays
  PROVE  /\ DOMAIN a = Indices
         /\ \A i \in Indices : a[i] \in KeyRange /\ a[i] \in Nat /\ 0 <= a[i] /\ a[i] <= MAX_KEY - 1
         /\ \A i \in Indices : i \in Nat
         /\ MAX_KEY \in Nat /\ NUM_KEYS \in Nat /\ MAX_KEY > 0
<1>1. MAX_KEY \in Nat /\ NUM_KEYS \in Nat /\ MAX_KEY > 0
  BY Sizes, SizesAssumption
<1>2. \A v \in KeyRange : v \in Nat /\ 0 <= v /\ v <= MAX_KEY - 1
  BY <1>1 DEF KeyRange
<1>3. \A i \in Indices : i \in Nat
  BY <1>1 DEF Indices
<1>4. DOMAIN a = Indices /\ \A i \in Indices : a[i] \in KeyRange
  BY DEF KeyArrays
<1> QED  BY <1>1, <1>2, <1>3, <1>4

\* The keys up to a value, and those of the value.
AtMost(a, v) == {i \in Indices : a[i] <= v}
With(a, v) == {i \in Indices : a[i] = v}

\* A rank is the number of the keys up to the value.
LEMMA RanksAreSizes ==
  ASSUME NEW a, DOMAIN a = Indices, NEW v
  PROVE  /\ RankOf(a, v) = Cardinality(AtMost(a, v)) /\ AtMost(a, v) \in SUBSET Indices /\ RankOf(a, v) \in Nat
         /\ CountIn(a, v) = Cardinality(With(a, v)) /\ With(a, v) \in SUBSET Indices /\ CountIn(a, v) \in Nat
<1>1. RankOf(a, v) = Cardinality(AtMost(a, v)) /\ AtMost(a, v) \in SUBSET Indices
  BY DEF RankOf, AtMost
<1>2. CountIn(a, v) = Cardinality(With(a, v)) /\ With(a, v) \in SUBSET Indices
  BY DEF CountIn, With
<1> QED  BY <1>1, <1>2, Finite

\* It is the rank of the value below, and the number of the keys of the value.
LEMMA RankStep ==
  ASSUME NEW a \in KeyArrays, NEW v \in Int
  PROVE  RankOf(a, v) = RankOf(a, v - 1) + CountIn(a, v)
<1>1. DOMAIN a = Indices /\ \A i \in Indices : a[i] \in Nat
  BY KeysAreNumbers
<1>2. ASSUME NEW i \in Indices
      PROVE  (a[i] <= v <=> a[i] <= v - 1 \/ a[i] = v) /\ ~(a[i] <= v - 1 /\ a[i] = v)
  <2>1. PICK k \in Nat : k = a[i]
    BY <1>1
  <2> QED  BY <2>1
<1>3. AtMost(a, v) = AtMost(a, v - 1) \cup With(a, v) /\ AtMost(a, v - 1) \cap With(a, v) = {}
  BY <1>2 DEF AtMost, With
<1>4. /\ RankOf(a, v) = Cardinality(AtMost(a, v))
      /\ CountIn(a, v) = Cardinality(With(a, v)) /\ IsFiniteSet(With(a, v))
  BY <1>1, RanksAreSizes, Finite
<1>5. RankOf(a, v - 1) = Cardinality(AtMost(a, v - 1)) /\ IsFiniteSet(AtMost(a, v - 1))
  BY <1>1, RanksAreSizes, Finite
<1>6. Cardinality(AtMost(a, v - 1) \cup With(a, v)) = Cardinality(AtMost(a, v - 1)) + Cardinality(With(a, v))
  BY <1>3, <1>4, <1>5, SizeOfTwo
<1> QED  BY <1>3, <1>4, <1>5, <1>6

\* Ranks grow with the values.
LEMMA RanksGrow ==
  ASSUME NEW a \in KeyArrays, NEW u \in Int, NEW v \in Int, u <= v
  PROVE  RankOf(a, u) <= RankOf(a, v)
<1>1. DOMAIN a = Indices /\ \A i \in Indices : a[i] \in Nat
  BY KeysAreNumbers
<1>2. ASSUME NEW i \in Indices, a[i] <= u PROVE a[i] <= v
  <2>1. PICK k \in Nat : k = a[i]
    BY <1>1
  <2> QED  BY <1>2, <2>1
<1>3. AtMost(a, u) \subseteq AtMost(a, v)
  BY <1>2 DEF AtMost
<1>4. RankOf(a, u) = Cardinality(AtMost(a, u)) /\ RankOf(a, v) = Cardinality(AtMost(a, v)) /\ AtMost(a, v) \in SUBSET Indices
  BY <1>1, RanksAreSizes
<1> QED  BY <1>3, <1>4, Smaller

\* From none of the keys to all of them.
LEMMA RankLimits ==
  ASSUME NEW a \in KeyArrays
  PROVE  RankOf(a, -1) = 0 /\ RankOf(a, MAX_KEY - 1) = NUM_KEYS
<1>1. DOMAIN a = Indices /\ \A i \in Indices : a[i] \in Nat /\ 0 <= a[i] /\ a[i] <= MAX_KEY - 1
  BY KeysAreNumbers
<1>2. \A i \in Indices : ~(a[i] <= -1)
  <2> SUFFICES ASSUME NEW i \in Indices PROVE ~(a[i] <= -1)
    OBVIOUS
  <2>1. PICK k \in Nat : k = a[i]
    BY <1>1
  <2> QED  BY <2>1
<1>3. AtMost(a, -1) = {} /\ AtMost(a, MAX_KEY - 1) = Indices
  BY <1>1, <1>2 DEF AtMost
<1>4. RankOf(a, -1) = Cardinality(AtMost(a, -1)) /\ RankOf(a, MAX_KEY - 1) = Cardinality(AtMost(a, MAX_KEY - 1))
  BY <1>1, RanksAreSizes
<1> QED  BY <1>3, <1>4, Finite, FS_EmptySet

\* The places of the keys of value v in the sorted array.
ValuePlaces(a, v) == RankOf(a, v) - CountIn(a, v) .. RankOf(a, v) - 1

\* The places of the values are all places there are, each that of one value.
LEMMA PlacesOfValues ==
  ASSUME NEW a \in KeyArrays
  PROVE  /\ \A v \in KeyRange : ValuePlaces(a, v) \subseteq Indices
         /\ \A v, w \in KeyRange : v # w => ValuePlaces(a, v) \cap ValuePlaces(a, w) = {}
         /\ \A k \in Indices : \E v \in KeyRange : k \in ValuePlaces(a, v)
<1>0. MAX_KEY \in Nat /\ NUM_KEYS \in Nat /\ MAX_KEY > 0
  BY KeysAreNumbers
<1>1. \A v : RankOf(a, v) \in Nat /\ CountIn(a, v) \in Nat
  BY KeysAreNumbers, RanksAreSizes
<1>2. \A v \in Int : ValuePlaces(a, v) = RankOf(a, v - 1) .. RankOf(a, v) - 1
  <2> SUFFICES ASSUME NEW v \in Int PROVE ValuePlaces(a, v) = RankOf(a, v - 1) .. RankOf(a, v) - 1
    OBVIOUS
  <2>1. RankOf(a, v) = RankOf(a, v - 1) + CountIn(a, v)
    BY RankStep
  <2>2. RankOf(a, v) \in Nat /\ CountIn(a, v) \in Nat /\ RankOf(a, v - 1) \in Nat
    BY <1>1
  <2>3. RankOf(a, v) - CountIn(a, v) = RankOf(a, v - 1)
    BY <2>1, <2>2
  <2> QED  BY <2>3 DEF ValuePlaces
<1>3. \A v \in KeyRange : v \in Int /\ v \in Nat /\ v <= MAX_KEY - 1
  BY <1>0 DEF KeyRange
<1>4. ASSUME NEW v \in Int, v <= MAX_KEY - 1 PROVE RankOf(a, v) <= NUM_KEYS
  <2>1. RankOf(a, v) <= RankOf(a, MAX_KEY - 1)
    BY <1>0, <1>4, RanksGrow
  <2> QED  BY <2>1, RankLimits
<1>5. ASSUME NEW v \in Int, NEW w \in Int, v < w PROVE ValuePlaces(a, v) \cap ValuePlaces(a, w) = {}
  <2>1. RankOf(a, v) <= RankOf(a, w - 1)
    <3>1. w - 1 \in Int /\ v <= w - 1
      BY <1>5
    <3> QED  BY <3>1, RanksGrow
  <2>2. RankOf(a, v) \in Nat /\ RankOf(a, w - 1) \in Nat
    BY <1>1
  <2>3. ValuePlaces(a, v) = RankOf(a, v - 1) .. RankOf(a, v) - 1 /\ ValuePlaces(a, w) = RankOf(a, w - 1) .. RankOf(a, w) - 1
    BY <1>2
  <2>4. RankOf(a, v - 1) \in Nat /\ RankOf(a, w) \in Nat
    BY <1>1
  <2> QED  BY <2>1, <2>2, <2>3, <2>4
<1>6. ASSUME NEW v \in KeyRange PROVE ValuePlaces(a, v) \subseteq Indices
  <2>1. RankOf(a, v) <= NUM_KEYS /\ RankOf(a, v) \in Nat /\ RankOf(a, v - 1) \in Nat
    BY <1>1, <1>3, <1>4
  <2>2. ValuePlaces(a, v) = RankOf(a, v - 1) .. RankOf(a, v) - 1
    BY <1>2, <1>3
  <2> QED  BY <1>0, <2>1, <2>2 DEF Indices
<1>7. ASSUME NEW v \in KeyRange, NEW w \in KeyRange, v # w PROVE ValuePlaces(a, v) \cap ValuePlaces(a, w) = {}
  <2>1. v \in Int /\ w \in Int
    BY <1>3
  <2>2. CASE v < w
    BY <1>5, <2>1, <2>2
  <2>3. CASE w < v
    BY <1>5, <2>1, <2>3
  <2> QED  BY <1>7, <2>1, <2>2, <2>3
<1>8. ASSUME NEW k \in Indices PROVE \E v \in KeyRange : k \in ValuePlaces(a, v)
  <2>0. k \in Nat /\ k < NUM_KEYS
    BY <1>0 DEF Indices
  <2> DEFINE T == {v \in 0 .. MAX_KEY - 1 : k < RankOf(a, v)}
  <2>1. MAX_KEY - 1 \in T /\ T \in SUBSET Nat
    BY <1>0, <2>0, RankLimits
  <2>2. PICK v \in T : \A w \in T : v <= w
    <3> HIDE DEF T
    <3> QED  BY <2>1, LeastNumber
  <2>3. v \in 0 .. MAX_KEY - 1 /\ v \in Nat /\ k < RankOf(a, v)
    OBVIOUS
  <2>4. ~(k < RankOf(a, v - 1))
    <3>1. CASE v = 0
      <4>1. v - 1 = -1
        BY <3>1
      <4> QED  BY <2>0, <4>1, RankLimits
    <3>2. CASE v # 0
      <4>1. v - 1 \in 0 .. MAX_KEY - 1 /\ ~(v <= v - 1)
        BY <1>0, <2>3, <3>2
      <4>2. v - 1 \notin T
        <5> HIDE DEF T
        <5> QED  BY <2>2, <4>1
      <4> QED  BY <4>1, <4>2
    <3> QED  BY <3>1, <3>2
  <2>5. RankOf(a, v) \in Nat /\ RankOf(a, v - 1) \in Nat
    BY <1>1
  <2>6. k \in RankOf(a, v - 1) .. RankOf(a, v) - 1
    BY <2>0, <2>3, <2>4, <2>5
  <2>7. k \in ValuePlaces(a, v)
    <3>1. v \in Int
      BY <2>3
    <3>2. ValuePlaces(a, v) = RankOf(a, v - 1) .. RankOf(a, v) - 1
      BY <1>2, <3>1
    <3> QED  BY <2>6, <3>2
  <2> QED  BY <2>3, <2>7 DEF KeyRange
<1> QED  BY <1>6, <1>7, <1>8

\* An array whose places hold the values they are for is sorted, and has as
\* many keys of each value.
LEMMA SortedIs ==
  ASSUME NEW a \in KeyArrays, NEW s, DOMAIN s = Indices,
         \A v \in KeyRange : \A k \in ValuePlaces(a, v) : s[k] = v
  PROVE  /\ \A i \in 1 .. NUM_KEYS - 1 : s[i - 1] <= s[i]
         /\ \A v \in KeyRange : CountIn(s, v) = CountIn(a, v)
<1>0. MAX_KEY \in Nat /\ NUM_KEYS \in Nat
  BY KeysAreNumbers
<1>1. \A v : RankOf(a, v) \in Nat /\ CountIn(a, v) \in Nat
  BY KeysAreNumbers, RanksAreSizes
<1>2. ASSUME NEW i \in 1 .. NUM_KEYS - 1 PROVE s[i - 1] <= s[i]
  <2>1. PICK j \in Nat : j = i - 1 /\ j \in Indices /\ i \in Indices /\ j < i /\ i \in Nat
    <3>1. i - 1 \in Nat /\ i - 1 \in Indices /\ i \in Indices /\ i - 1 < i /\ i \in Nat
      BY <1>0 DEF Indices
    <3> QED  BY <3>1
  <2>2. PICK v \in KeyRange : j \in ValuePlaces(a, v)
    BY <2>1, PlacesOfValues
  <2>3. PICK w \in KeyRange : i \in ValuePlaces(a, w)
    BY <2>1, PlacesOfValues
  <2>4. s[j] = v /\ s[i] = w
    BY <2>2, <2>3
  <2>5. v \in Int /\ w \in Int
    BY <1>0 DEF KeyRange
  <2>6. v <= w
    <3> SUFFICES ASSUME v >= w + 1 PROVE FALSE
      BY <2>5
    <3>1. w <= v - 1 /\ v - 1 \in Int
      BY <2>5
    <3>2. RankOf(a, w) <= RankOf(a, v - 1)
      BY <2>5, <3>1, RanksGrow
    <3>3. RankOf(a, v) = RankOf(a, v - 1) + CountIn(a, v)
      BY <2>5, RankStep
    <3>4. RankOf(a, v) \in Nat /\ RankOf(a, w) \in Nat /\ CountIn(a, v) \in Nat /\ RankOf(a, v - 1) \in Nat /\ CountIn(a, w) \in Nat
      BY <1>1
    <3>5. RankOf(a, v) - CountIn(a, v) <= j /\ i <= RankOf(a, w) - 1
      BY <2>1, <2>2, <2>3, <3>4 DEF ValuePlaces
    <3> QED  BY <2>1, <3>2, <3>3, <3>4, <3>5
  <2> QED  BY <2>1, <2>4, <2>6
<1>3. ASSUME NEW v \in KeyRange PROVE CountIn(s, v) = CountIn(a, v)
  <2>1. With(s, v) = ValuePlaces(a, v)
    <3>1. ASSUME NEW k \in Indices, s[k] = v PROVE k \in ValuePlaces(a, v)
      <4>1. PICK w \in KeyRange : k \in ValuePlaces(a, w)
        BY PlacesOfValues
      <4>2. s[k] = w
        BY <4>1
      <4> QED  BY <3>1, <4>1, <4>2
    <3>2. ASSUME NEW k \in ValuePlaces(a, v) PROVE k \in Indices /\ s[k] = v
      BY PlacesOfValues
    <3> QED  BY <3>1, <3>2 DEF With
  <2>2. RankOf(a, v) \in Nat /\ CountIn(a, v) \in Nat
    BY <1>1
  <2>3. Cardinality(ValuePlaces(a, v)) = CountIn(a, v)
    <3> DEFINE lo == RankOf(a, v) - CountIn(a, v)
               hi == RankOf(a, v) - 1
    <3>1. lo \in Int /\ hi \in Int /\ hi - lo + 1 = CountIn(a, v) /\ (lo > hi => CountIn(a, v) = 0)
      BY <2>2
    <3>2. ValuePlaces(a, v) = lo .. hi
      BY DEF ValuePlaces
    <3> HIDE DEF lo, hi
    <3>3. Cardinality(lo .. hi) = IF lo > hi THEN 0 ELSE hi - lo + 1
      BY <3>1, FS_Interval
    <3> QED  BY <3>1, <3>2, <3>3
  <2>4. CountIn(s, v) = Cardinality(With(s, v))
    BY RanksAreSizes
  <2> QED  BY <2>1, <2>3, <2>4
<1> QED  BY <1>2, <1>3

-----------------------------------------------------------------------------
(* What the threads find in a bucket.                                      *)

\* The keys of a bucket.
InBucket(a, b) == {i \in Indices : BucketOf(a[i]) = b}

\* The keys of a bucket up to a value.
UpTo(a, b, v) == {i \in InBucket(a, b) : a[i] <= v}
\* The slots that are for the keys of a bucket.
SlotsOf(a, b) == Cardinality(Before(a, b, 0)) .. Cardinality(Before(a, b + 1, 0)) - 1

\* The rank of a value: the keys of smaller buckets, and those of its own bucket
\* up to it.
LEMMA RankInBucket ==
  ASSUME NEW a \in KeyArrays, NEW b \in Nat, b \in Buckets, NEW v \in KeyRange, BucketOf(v) = b
  PROVE  RankOf(a, v) = Cardinality(Before(a, b, 0)) + Cardinality(UpTo(a, b, v))
<1>1. /\ DOMAIN a = Indices /\ \A i \in Indices : a[i] \in KeyRange /\ a[i] \in Nat /\ i \in Nat
      /\ MAX_KEY \in Nat
  BY KeysAreNumbers
<1>2. v \in Nat
  BY <1>1 DEF KeyRange
<1> DEFINE here == {i \in InBucket(a, b) : a[i] <= v}
<1>3. ASSUME NEW i \in Indices
      PROVE  /\ a[i] <= v <=> BucketOf(a[i]) < b \/ (BucketOf(a[i]) = b /\ a[i] <= v)
             /\ ~(BucketOf(a[i]) < b /\ BucketOf(a[i]) = b)
             /\ ~(i < 0)
  <2>1. BucketOf(a[i]) \in Nat
    BY BeforeIs
  <2>2. PICK c \in Nat : c = BucketOf(a[i])
    BY <2>1
  <2>3. PICK k \in Nat : k = a[i] /\ k \in KeyRange
    BY <1>1
  <2>4. k <= v => c <= b
    BY <2>2, <2>3, BucketsGrow
  <2>5. v <= k => b <= c
    BY <2>2, <2>3, BucketsGrow
  <2>6. i \in Nat
    BY <1>1
  <2> QED  BY <1>2, <2>2, <2>3, <2>4, <2>5, <2>6
<1>4. AtMost(a, v) = Before(a, b, 0) \cup here /\ Before(a, b, 0) \cap here = {}
  BY <1>3 DEF AtMost, Before, InBucket
<1>5. here \in SUBSET Indices /\ Before(a, b, 0) \in SUBSET Indices
  BY DEF InBucket, Before
<1> HIDE DEF here
<1>6. IsFiniteSet(here) /\ IsFiniteSet(Before(a, b, 0))
  BY <1>5, Finite
<1>7. Cardinality(Before(a, b, 0) \cup here) = Cardinality(Before(a, b, 0)) + Cardinality(here)
  BY <1>4, <1>6, SizeOfTwo
<1>8. RankOf(a, v) = Cardinality(AtMost(a, v))
  BY <1>1, RanksAreSizes
<1> QED  BY <1>4, <1>7, <1>8 DEF here, UpTo

\* g has every key in its place; the slots that hold some value, or up to it.
Placed(a, g) == \A i \in Indices : g[PlaceOf(a, i)] = a[i]
SlotsWith(a, g, b, v) == {k \in SlotsOf(a, b) : g[k] = v}
SlotsUpTo(a, g, b, v) == {k \in SlotsOf(a, b) : g[k] <= v}

\* When all keys are in their places, the slots of a bucket hold its keys.
LEMMA SlotsHold ==
  ASSUME NEW a \in KeyArrays, NEW g, Placed(a, g),
         NEW b \in Nat, b \in Buckets
  PROVE  /\ \A v : Cardinality(SlotsUpTo(a, g, b, v)) = Cardinality(UpTo(a, b, v))
         /\ \A v \in KeyRange : Cardinality(SlotsWith(a, g, b, v)) = IF BucketOf(v) = b THEN CountIn(a, v) ELSE 0
         /\ SlotsOf(a, b) \in SUBSET Indices
<1>1. /\ DOMAIN a = Indices /\ \A i \in Indices : a[i] \in KeyRange /\ i \in Nat
  BY KeysAreNumbers
<1>2. /\ \A i \in Indices : PlaceOf(a, i) \in Indices
      /\ \A i, j \in Indices : PlaceOf(a, i) = PlaceOf(a, j) => i = j
      /\ \A k \in Indices : \E i \in Indices : PlaceOf(a, i) = k
  BY PlacesAre
<1>3. SlotsOf(a, b) \in SUBSET Indices
  <2>1. /\ Before(a, b, 0) \in SUBSET Indices /\ Before(a, b + 1, 0) \in SUBSET Indices
    BY BeforeIs
  <2>2. PICK lo \in Nat : lo = Cardinality(Before(a, b, 0))
    BY <2>1, Finite
  <2>3. PICK hi \in Nat : hi = Cardinality(Before(a, b + 1, 0)) /\ hi <= NUM_KEYS
    <3>1. Cardinality(Before(a, b + 1, 0)) <= NUM_KEYS /\ Cardinality(Before(a, b + 1, 0)) \in Nat
      BY <2>1, Finite, Smaller
    <3> QED  BY <3>1
  <2>4. NUM_KEYS \in Nat
    BY Sizes
  <2> QED  BY <2>2, <2>3, <2>4 DEF SlotsOf, Indices
<1>4. \A i \in Indices : BucketOf(a[i]) = b <=> PlaceOf(a, i) \in SlotsOf(a, b)
  <2> SUFFICES ASSUME NEW i \in Indices PROVE BucketOf(a[i]) = b <=> PlaceOf(a, i) \in SlotsOf(a, b)
    OBVIOUS
  <2>1. i \in Nat
    BY <1>1
  <2> QED  BY <2>1, PlacesOfBucket DEF SlotsOf
\* Whatever is asked of the keys.
<1>5. ASSUME NEW P, NEW T, T = {i \in InBucket(a, b) : a[i] \in P}
      PROVE  Cardinality({k \in SlotsOf(a, b) : g[k] \in P}) = Cardinality(T)
  <2>1. T \in SUBSET Indices
    BY <1>5 DEF InBucket
  <2>2. {k \in SlotsOf(a, b) : g[k] \in P} = {PlaceOf(a, i) : i \in T}
    <3>1. ASSUME NEW k \in SlotsOf(a, b), g[k] \in P PROVE \E i \in T : k = PlaceOf(a, i)
      <4>1. PICK i \in Indices : PlaceOf(a, i) = k
        BY <1>2, <1>3
      <4>2. g[k] = a[i]
        BY <4>1 DEF Placed
      <4>3. BucketOf(a[i]) = b
        BY <1>4, <4>1
      <4> QED  BY <1>5, <3>1, <4>1, <4>2, <4>3 DEF InBucket
    <3>2. ASSUME NEW i \in T PROVE PlaceOf(a, i) \in SlotsOf(a, b) /\ g[PlaceOf(a, i)] \in P
      <4>1. i \in Indices /\ BucketOf(a[i]) = b /\ a[i] \in P
        BY <1>5 DEF InBucket
      <4> QED  BY <1>4, <4>1 DEF Placed
    <3> QED  BY <3>1, <3>2
  <2> DEFINE f == [i \in T |-> PlaceOf(a, i)]
  <2>3. \A x, y \in T : f[x] = f[y] => x = y
    BY <1>2, <2>1
  <2>4. IsFiniteSet(T)
    BY <2>1, Finite
  <2>5. {f[i] : i \in T} = {PlaceOf(a, i) : i \in T}
    OBVIOUS
  <2> HIDE DEF f
  <2>6. Cardinality({f[i] : i \in T}) = Cardinality(T)
    BY <2>3, <2>4, SameSize
  <2> QED  BY <2>2, <2>5, <2>6
<1>6. ASSUME NEW v
      PROVE  Cardinality(SlotsUpTo(a, g, b, v)) = Cardinality(UpTo(a, b, v))
  <2> DEFINE P == {x \in KeyRange : x <= v}
  <2>1. \A k \in SlotsOf(a, b) : g[k] \in KeyRange
    <3> SUFFICES ASSUME NEW k \in SlotsOf(a, b) PROVE g[k] \in KeyRange
      OBVIOUS
    <3>1. PICK i \in Indices : PlaceOf(a, i) = k
      BY <1>2, <1>3
    <3>2. g[k] = a[i]
      BY <3>1 DEF Placed
    <3> QED  BY <1>1, <3>2
  <2>2. {k \in SlotsOf(a, b) : g[k] <= v} = {k \in SlotsOf(a, b) : g[k] \in P}
    BY <2>1
  <2>3. {i \in InBucket(a, b) : a[i] <= v} = {i \in InBucket(a, b) : a[i] \in P}
    BY <1>1 DEF InBucket
  <2> HIDE DEF P
  <2> QED  BY <1>5, <2>2, <2>3 DEF SlotsUpTo, UpTo
<1>7. ASSUME NEW v \in KeyRange
      PROVE  Cardinality(SlotsWith(a, g, b, v)) = IF BucketOf(v) = b THEN CountIn(a, v) ELSE 0
  <2>1. SlotsWith(a, g, b, v) = {k \in SlotsOf(a, b) : g[k] \in {v}}
    BY DEF SlotsWith
  <2>2. Cardinality({k \in SlotsOf(a, b) : g[k] \in {v}}) = Cardinality({i \in InBucket(a, b) : a[i] \in {v}})
    BY <1>5
  <2>3. CASE BucketOf(v) = b
    <3>1. {i \in InBucket(a, b) : a[i] \in {v}} = With(a, v)
      BY <2>3 DEF InBucket, With
    <3>2. CountIn(a, v) = Cardinality(With(a, v))
      BY <1>1, RanksAreSizes
    <3> QED  BY <2>1, <2>2, <2>3, <3>1, <3>2
  <2>4. CASE BucketOf(v) # b
    <3>1. {i \in InBucket(a, b) : a[i] \in {v}} = {}
      BY <2>4 DEF InBucket
    <3> QED  BY <2>1, <2>2, <2>4, <3>1, FS_EmptySet
  <2> QED  BY <2>3, <2>4
<1> QED  BY <1>3, <1>6, <1>7

-----------------------------------------------------------------------------
(* What the threads count.                                                 *)

\* The elements of T that are in the shares from s to before s + m.
OfShares(np, T, s, m) == {i \in T : FirstOf(np, s, NUM_KEYS) <= i /\ i < FirstOf(np, s + m, NUM_KEYS)}

\* f[k] is the size of what share s + k has of T.
OwnParts(f, np, T, s, m) == \A k \in 0 .. m - 1 : f[k] = Cardinality(T \cap Share(np, s + k, NUM_KEYS))

\* Counts of some shares, one after the other, add up to the count of all.
LEMMA SharesAddUp ==
  ASSUME NEW np \in Nat \ {0}, NEW s \in Nat, NEW m \in Nat, s + m <= np, NEW T \in SUBSET Indices,
         NEW f, OwnParts(f, np, T, s, m)
  PROVE  SumTo(f, m) = Cardinality(OfShares(np, T, s, m))
<1> DEFINE A == [k \in 0 .. m - 1 |-> T \cap Share(np, s + k, NUM_KEYS)]
           U == UNION {A[k] : k \in 0 .. m - 1}
           first(t) == FirstOf(np, t, NUM_KEYS)
<1>0. NUM_KEYS \in Nat
  BY Sizes
<1>1. \A t \in Nat : first(t) \in Nat
  BY <1>0, FirstNext
<1>2. \A t, u \in Nat : t <= u => first(t) <= first(u)
  BY <1>0, FirstGrows
<1>3. /\ \A t, u \in 0 .. np - 1 : t # u => Share(np, t, NUM_KEYS) \cap Share(np, u, NUM_KEYS) = {}
      /\ \A i \in 0 .. NUM_KEYS - 1 : \E t \in 0 .. np - 1 : i \in Share(np, t, NUM_KEYS)
  BY <1>0, Shares
<1>4. \A k \in 0 .. m - 1 : s + k \in 0 .. np - 1 /\ s + k \in Nat
  OBVIOUS
<1>5. \A k \in 0 .. m - 1 : IsFiniteSet(A[k]) /\ f[k] = Cardinality(A[k])
  <2>1. \A k \in 0 .. m - 1 : A[k] \in SUBSET Indices /\ f[k] = Cardinality(A[k])
    BY DEF OwnParts
  <2> HIDE DEF A
  <2> QED  BY <2>1, Finite
<1>6. \A k, l \in 0 .. m - 1 : k # l => A[k] \cap A[l] = {}
  <2> SUFFICES ASSUME NEW k \in 0 .. m - 1, NEW l \in 0 .. m - 1, k # l PROVE A[k] \cap A[l] = {}
    OBVIOUS
  <2>1. s + k # s + l
    OBVIOUS
  <2>2. Share(np, s + k, NUM_KEYS) \cap Share(np, s + l, NUM_KEYS) = {}
    BY <1>3, <1>4, <2>1
  <2> QED  BY <2>2
<1>7. SumTo(f, m) = Cardinality(U)
  <2> HIDE DEF A
  <2>1. Parts(f, A, m, U)
    BY <1>5, <1>6 DEF Parts
  <2> HIDE DEF U
  <2> QED  BY <2>1, SumOfSizes
<1>8. ASSUME NEW i \in U PROVE i \in T /\ first(s) <= i /\ i < first(s + m)
  <2>1. PICK k \in 0 .. m - 1 : i \in T /\ i \in Share(np, s + k, NUM_KEYS)
    OBVIOUS
  <2>2. PICK u \in Nat : u = s + k /\ s <= u /\ u + 1 <= s + m
    <3>1. s + k \in Nat /\ s <= s + k /\ (s + k) + 1 <= s + m
      OBVIOUS
    <3> QED  BY <3>1
  <2>3. i \in first(u) .. first(u + 1) - 1
    BY <2>1, <2>2 DEF Share
  <2>4. first(s) <= first(u) /\ first(u + 1) <= first(s + m)
    <3>1. u + 1 \in Nat /\ s + m \in Nat
      OBVIOUS
    <3> HIDE DEF first
    <3> QED  BY <1>2, <2>2, <3>1
  <2>5. first(s) \in Nat /\ first(u) \in Nat /\ first(u + 1) \in Nat /\ first(s + m) \in Nat
    BY <1>1
  <2> HIDE DEF first
  <2> QED  BY <2>1, <2>3, <2>4, <2>5
<1>9. ASSUME NEW i \in T, first(s) <= i, i < first(s + m) PROVE i \in U
  <2>1. i \in Indices /\ i \in Nat
    BY <1>0 DEF Indices
  <2>2. PICK u \in 0 .. np - 1 : i \in Share(np, u, NUM_KEYS)
    BY <1>3, <2>1 DEF Indices
  <2>3. i \in first(u) .. first(u + 1) - 1 /\ u \in Nat /\ u + 1 \in Nat
    BY <2>2 DEF Share
  <2>4. s <= u
    <3> SUFFICES ASSUME u + 1 <= s PROVE FALSE
      BY <2>3
    <3>1. first(u + 1) <= first(s) /\ first(u + 1) \in Nat /\ first(s) \in Nat /\ first(u) \in Nat
      <4> HIDE DEF first
      <4> QED  BY <1>1, <1>2, <2>3
    <3> HIDE DEF first
    <3> QED  BY <1>9, <2>1, <2>3, <3>1
  <2>5. u < s + m
    <3> SUFFICES ASSUME s + m <= u PROVE FALSE
      BY <2>3
    <3>1. first(s + m) <= first(u) /\ first(u + 1) \in Nat /\ first(s + m) \in Nat /\ first(u) \in Nat
      <4>1. s + m \in Nat
        OBVIOUS
      <4> HIDE DEF first
      <4> QED  BY <1>1, <1>2, <2>3, <4>1
    <3> HIDE DEF first
    <3> QED  BY <1>9, <2>1, <2>3, <3>1
  <2>6. u - s \in 0 .. m - 1 /\ s + (u - s) = u
    BY <2>3, <2>4, <2>5
  <2>7. A[u - s] = T \cap Share(np, u, NUM_KEYS)
    BY <2>6
  <2> HIDE DEF A
  <2> QED  BY <2>2, <2>6, <2>7
<1>10. U = {i \in T : first(s) <= i /\ i < first(s + m)}
  <2> HIDE DEF U, first
  <2> QED  BY <1>8, <1>9
<1> QED  BY <1>7, <1>10 DEF OfShares

\* w has the number of the elements of S in each bucket; and those before b.
CountsBuckets(w, a, S) == \A c \in Buckets : w[c] = Cardinality({i \in S : BucketOf(a[i]) = c})
LesserBuckets(a, S, b) == {i \in S : BucketOf(a[i]) < b}

\* The counts of the buckets before b.
LEMMA BucketsAddUp ==
  ASSUME NEW a \in KeyArrays, NEW S \in SUBSET Indices, NEW w, NEW b \in Nat, b \in Buckets,
         CountsBuckets(w, a, S)
  PROVE  SumTo(w, b) = Cardinality(LesserBuckets(a, S, b))
<1> DEFINE A == [c \in 0 .. b - 1 |-> {i \in S : BucketOf(a[i]) = c}]
           U == UNION {A[c] : c \in 0 .. b - 1}
<1>1. \A c \in 0 .. b - 1 : c \in Buckets
  BY Sizes DEF Buckets
<1>2. \A c \in 0 .. b - 1 : IsFiniteSet(A[c]) /\ w[c] = Cardinality(A[c])
  <2>1. \A c \in 0 .. b - 1 : A[c] \in SUBSET Indices /\ w[c] = Cardinality(A[c])
    BY <1>1 DEF CountsBuckets
  <2> HIDE DEF A
  <2> QED  BY <2>1, Finite
<1>3. \A c, d \in 0 .. b - 1 : c # d => A[c] \cap A[d] = {}
  OBVIOUS
<1>4. SumTo(w, b) = Cardinality(U)
  <2> HIDE DEF A
  <2>1. Parts(w, A, b, U)
    BY <1>2, <1>3 DEF Parts
  <2> HIDE DEF U
  <2> QED  BY <2>1, SumOfSizes
<1>5. U = {i \in S : BucketOf(a[i]) < b}
  <2>1. ASSUME NEW i \in S PROVE BucketOf(a[i]) < b <=> BucketOf(a[i]) \in 0 .. b - 1
    <3>1. PICK c \in Nat : c = BucketOf(a[i])
      BY BeforeIs
    <3> QED  BY <3>1
  <2>2. ASSUME NEW i \in U PROVE i \in S /\ BucketOf(a[i]) \in 0 .. b - 1
    OBVIOUS
  <2>3. ASSUME NEW i \in S, BucketOf(a[i]) \in 0 .. b - 1 PROVE i \in U
    <3>1. i \in A[BucketOf(a[i])]
      BY <2>3
    <3> HIDE DEF A
    <3> QED  BY <2>3, <3>1
  <2> HIDE DEF U
  <2> QED  BY <2>1, <2>2, <2>3
<1> QED  BY <1>4, <1>5 DEF LesserBuckets

-----------------------------------------------------------------------------
(* The keys of the calls of rank().                                        *)

\* rank() writes keys that are in range.
LEMMA AlteredIs ==
  ASSUME NEW a \in KeyArrays, NEW r \in 1 .. MAX_ITERATIONS
  PROVE  Altered(a, r) \in KeyArrays
<1>1. /\ MAX_KEY \in Nat /\ MAX_KEY > MAX_ITERATIONS /\ MAX_ITERATIONS \in Nat
  BY Sizes, SizesAssumption
<1>2. r \in 0 .. MAX_KEY - 1 /\ MAX_KEY - r \in 0 .. MAX_KEY - 1
  BY <1>1
<1> QED  BY <1>2 DEF Altered, KeyArrays, KeyRange

\* The keys that are made are in range.
LEMMA TheKeysInRange ==
  ASSUME NEW s \in 0 .. Wrap - 1
  PROVE  TheKeys(s) = [i \in Indices |-> KeyAt(s, i)] /\ TheKeys(s) \in KeyArrays
<1>1. s \in Nat
  BY WrapIsPositive
<1>2. TheKeys(s) = [i \in Indices |-> KeyAt(s, i)]
  BY <1>1, TheKeysAre DEF Indices
<1>3. \A i \in Indices : i \in Nat
  BY Sizes DEF Indices
<1>4. \A i \in Indices : KeyAt(s, i) \in KeyRange
  BY <1>3, KeyInRange
<1> QED  BY <1>2, <1>4 DEF KeyArrays

\* The keys of a call of rank() are those of the call before, two of them altered.
LEMMA KeysAtIs ==
  ASSUME NEW s \in 0 .. Wrap - 1
  PROVE  /\ KeysAt(s, 0) = Altered(TheKeys(s), 1)
         /\ \A r \in Nat : KeysAt(s, r + 1) = Altered(KeysAt(s, r), r + 1)
         /\ \A r \in 0 .. MAX_ITERATIONS : KeysAt(s, r) \in KeyArrays
<1> DEFINE V == [Indices -> Int]
           F == [x \in Nat \X V |-> Altered(x[2], x[1] + 1)]
           first == Altered(TheKeys(s), 1)
           Eq(g) == g = [r \in Nat |-> IF r = 0 THEN first ELSE Altered(g[r - 1], r)]
           keys == CHOOSE g : Eq(g)
<1>0. MAX_KEY \in Nat /\ MAX_ITERATIONS \in Nat /\ MAX_ITERATIONS > 0
  BY Sizes, SizesAssumption
<1>1. first \in KeyArrays
  <2>1. 1 \in 1 .. MAX_ITERATIONS
    BY <1>0
  <2> QED  BY <2>1, TheKeysInRange, AlteredIs
<1>2. first \in V
  BY <1>0, <1>1 DEF KeyArrays, KeyRange
<1>3. F \in [Nat \X V -> V] /\ \A r \in Nat, a \in V : F[<<r, a>>] = Altered(a, r + 1)
  <2>1. ASSUME NEW r \in Nat, NEW a \in V PROVE Altered(a, r + 1) \in V
    <3>1. PICK x \in Int, y \in Int : x = r + 1 /\ y = MAX_KEY - (r + 1)
      BY <1>0
    <3>2. Altered(a, r + 1) = [a EXCEPT ![x] = x, ![x + MAX_ITERATIONS] = y]
      BY <3>1 DEF Altered
    <3> QED  BY <3>2
  <2> HIDE DEF V
  <2>2. \A x \in Nat \X V : x[1] \in Nat /\ x[2] \in V
    OBVIOUS
  <2> QED  BY <2>1, <2>2
<1> HIDE DEF V, F, first
<1>4. PICK it : Iterates(it, V, first, F)
  BY <1>2, <1>3, IterationExists
<1>5. Eq(it)
  <2>1. ASSUME NEW r \in Nat, r # 0 PROVE it[r] = Altered(it[r - 1], r)
    <3>1. r - 1 \in Nat /\ (r - 1) + 1 = r
      BY <2>1
    <3>2. it[(r - 1) + 1] = F[<<r - 1, it[r - 1]>>] /\ it[r - 1] \in V
      BY <1>4, <3>1 DEF Iterates
    <3>3. F[<<r - 1, it[r - 1]>>] = Altered(it[r - 1], (r - 1) + 1)
      BY <1>3, <3>1, <3>2
    <3> QED  BY <3>1, <3>2, <3>3
  <2>2. it \in [Nat -> V] /\ it[0] = first
    BY <1>4 DEF Iterates
  <2> QED  BY <2>1, <2>2
<1>6. Eq(keys)
  <2>1. keys = CHOOSE g : Eq(g)
    OBVIOUS
  <2> HIDE DEF Eq, keys
  <2> QED  BY <1>5, <2>1
<1>7. \A r : KeysAt(s, r) = keys[r]
  BY DEF KeysAt, first
<1> HIDE DEF keys
<1>8. keys[0] = first /\ \A r \in Nat : keys[r + 1] = Altered(keys[r], r + 1)
  <2>1. keys[0] = first
    BY <1>6
  <2>2. ASSUME NEW r \in Nat PROVE keys[r + 1] = Altered(keys[r], r + 1)
    <3>1. r + 1 \in Nat /\ r + 1 # 0 /\ (r + 1) - 1 = r
      OBVIOUS
    <3>2. keys[r + 1] = Altered(keys[(r + 1) - 1], r + 1)
      BY <1>6, <3>1
    <3> QED  BY <3>1, <3>2
  <2> QED  BY <2>1, <2>2
<1>9. \A r \in 0 .. MAX_ITERATIONS : keys[r] \in KeyArrays
  <2> DEFINE S == {r \in Nat : r <= MAX_ITERATIONS => keys[r] \in KeyArrays}
  <2>1. 0 \in S
    BY <1>1, <1>8
  <2>2. ASSUME NEW r \in S PROVE r + 1 \in S
    <3> SUFFICES ASSUME r + 1 <= MAX_ITERATIONS PROVE keys[r + 1] \in KeyArrays
      OBVIOUS
    <3>1. keys[r] \in KeyArrays /\ r + 1 \in 1 .. MAX_ITERATIONS
      BY <1>0
    <3> QED  BY <1>8, <3>1, AlteredIs
  <2>3. S \in SUBSET Nat
    OBVIOUS
  <2>4. S = Nat
    <3> HIDE DEF S
    <3> QED  BY <2>1, <2>2, <2>3, Induct
  <2> QED  BY <2>4
<1> QED  BY <1>7, <1>8, <1>9 DEF first

-----------------------------------------------------------------------------
(* The inductive invariant.                                                *)

\* The keys of the current call of rank(), whatever has become of key_array.
K == KeysAt(seed, round)

\* What thread t has of the keys, and of n elements when all have as many.
First(t) == FirstOf(team, t, NUM_KEYS)
Mine(t) == Share(team, t, NUM_KEYS)
PartOf(t, n) == ((n + team - 1) \div team) * t .. ((n + team - 1) \div team) * (t + 1) - 1

\* What the arrays and the threads may be.
OmpType ==
  /\ seed \in 0 .. Wrap - 1 /\ team \in Nat \ {0} /\ useBuckets \in BOOLEAN
  /\ phase \in {"create", "rank", "verified", "sort", "end"}
  /\ round \in 0 .. MAX_ITERATIONS
  /\ phase = "create" => round = 0
  /\ phase \in {"sort", "end"} => round = MAX_ITERATIONS
  /\ key_array \in KeyArrays /\ DOMAIN key_buff2 = Indices /\ DOMAIN key_buff1 = KeyRange
  /\ DOMAIN work = Threads
  /\ DOMAIN bucket_ptrs = Threads /\ \A t \in Threads : DOMAIN bucket_ptrs[t] = Buckets
  /\ DOMAIN pc = Threads /\ idx \in [Threads -> Nat] /\ next \in 0 .. NUM_BUCKETS

\* The places where a thread can be in each region.
Stages ==
  \A t \in Threads :
    /\ phase = "create" => pc[t] \in {"create", "done"}
    /\ phase = "rank" /\ useBuckets => pc[t] \in {"count", "ptrs", "scatter", "final", "rank", "done"}
    /\ phase = "rank" /\ ~useBuckets => pc[t] \in {"count", "add", "done"}
    /\ phase = "verified" => pc[t] = "done"
    /\ phase = "sort" /\ useBuckets => pc[t] \in {"sort", "done"}
    /\ phase = "sort" /\ ~useBuckets => pc[t] \in {"copy", "sort", "done"}

\* No thread has passed a barrier that another one has not come to, and a thread
\* is done only when all buckets are handed out.
Barriers ==
  \A t, u \in Threads :
    /\ phase = "rank" /\ useBuckets =>
         /\ pc[t] \in {"scatter", "final", "rank", "done"} => pc[u] # "count"
         /\ pc[t] \in {"rank", "done"} => pc[u] \in {"final", "rank", "done"}
    /\ phase \in {"rank", "sort"} /\ useBuckets => (pc[t] = "done" => next = NUM_BUCKETS)
    /\ phase = "rank" /\ ~useBuckets => (pc[t] = "done" => pc[u] # "count")
    /\ phase = "sort" /\ ~useBuckets => (pc[t] = "done" => pc[u] # "copy")

\* The keys that the threads have made are those of the serial code.
Created ==
  phase = "create" => \A t \in Threads : pc[t] = "done" =>
                        \A i \in Indices : i \in PartOf(t, NUM_KEYS) => key_array[i] = TheKeys(seed)[i]

\* rank() leaves the keys as the serial code has them.
Known == phase \in {"rank", "verified"} => key_array = K

\* bucket_size: how many keys of each bucket are in the share of a thread.
Counted ==
  phase = "rank" /\ useBuckets => \A t \in Threads : pc[t] # "count" =>
    \A b \in Buckets : work[t][b] = Cardinality({i \in Mine(t) : BucketOf(K[i]) = b})

\* bucket_ptrs: where the next key goes that a thread moves, then the end of each
\* bucket.
Pointed ==
  useBuckets => \A t \in Threads :
    /\ phase = "rank" /\ pc[t] = "scatter" => First(t) + idx[t] <= First(t + 1)
    /\ phase = "rank" /\ pc[t] \in {"final", "rank", "done"} => First(t) + idx[t] = First(t + 1)
    /\ phase = "rank" /\ pc[t] \in {"scatter", "final"} =>
         \A b \in Buckets : bucket_ptrs[t][b] = Cardinality(Before(K, b, First(t) + idx[t]))
    /\ (phase = "rank" /\ pc[t] \in {"rank", "done"}) \/ phase \in {"verified", "sort"} =>
         \A b \in Buckets : bucket_ptrs[t][b] = Cardinality(Before(K, b + 1, 0))

\* The keys that have been moved are in their places.
Moved ==
  useBuckets => \A t \in Threads : \A i \in Mine(t) :
    (\/ phase = "rank" /\ pc[t] \in {"final", "rank", "done"}
     \/ phase = "rank" /\ pc[t] = "scatter" /\ i < First(t) + idx[t]
     \/ phase \in {"verified", "sort"})
    => key_buff2[PlaceOf(K, i)] = K[i]

\* The ranks of the values of the buckets that have been handed out.
Ranked ==
  /\ phase = "rank" /\ useBuckets =>
       \A v \in KeyRange : BucketOf(v) < next => key_buff1[v] = RankOf(K, v)
  /\ phase = "verified" => \A v \in KeyRange : key_buff1[v] = RankOf(K, v)

\* What thread t counts in its share of the keys.
OwnCount(t, v) == Cardinality(AtMost(K, v) \cap Mine(t))

\* Without buckets: what the threads have counted, and what they have added up.
Added ==
  phase = "rank" /\ ~useBuckets =>
    /\ \A t \in Threads : t # 0 /\ pc[t] # "count" =>
         \A v \in KeyRange : work[t][v] = OwnCount(t, v)
    /\ pc[0] # "count" => \A t \in Threads : \A v \in Share(team, t, MAX_KEY) :
         key_buff1[v] = IF pc[t] = "done" THEN RankOf(K, v) ELSE OwnCount(0, v)

\* All keys of a value are in the places that are theirs.
InPlace(v) == \A k \in ValuePlaces(K, v) : key_array[k] = v

\* full_verify() has put into their places the keys of the buckets, or of the
\* shares of the values, that threads have taken.
SortedSoFar ==
  /\ phase = "sort" => \A v \in KeyRange : key_buff1[v] \in Int
  /\ phase = "sort" /\ useBuckets => \A v \in KeyRange :
       IF BucketOf(v) < next THEN InPlace(v) ELSE key_buff1[v] = RankOf(K, v)
  /\ phase = "sort" /\ ~useBuckets => \A t \in Threads :
       /\ \A v \in KeyRange : v \in PartOf(t, MAX_KEY) =>
            IF pc[t] = "done" THEN InPlace(v) ELSE key_buff1[v] = RankOf(K, v)
       /\ pc[t] = "copy" => key_array = K
       /\ pc[t] # "copy" => \A i \in Mine(t) : key_buff2[i] = K[i]

\* All test keys of a call of rank() have a rank that is checked, and how many calls
\* have been checked.
Tested(r) == \A i \in DOMAIN test_index_array : KeysAt(seed, r)[test_index_array[i]] \in 1 .. NUM_KEYS - 1
Rounds == IF phase = "rank" THEN round - 1 ELSE round

\* passed_verification counts the test keys of the calls so far.
Passed ==
  /\ passed_verification \in Nat
  /\ phase = "rank" => partial_verify_vals = [i \in DOMAIN test_index_array |-> K[test_index_array[i]]]
  /\ phase \in {"rank", "verified", "sort"} /\ round > 0 =>
       /\ passed_verification <= Len(test_index_array) * Rounds
       /\ passed_verification = Len(test_index_array) * Rounds <=> \A r \in 1 .. Rounds : Tested(r)

\* What the benchmark reports is so.
Ended ==
  phase = "end" =>
    /\ \A i \in 1 .. NUM_KEYS - 1 : key_array[i - 1] <= key_array[i]
    /\ \A v \in KeyRange : CountIn(key_array, v) = CountIn(KeysAt(seed, MAX_ITERATIONS), v)
    /\ passed_verification # 0 <=> \A r \in 1 .. MAX_ITERATIONS : Tested(r)

\* The invariant: what each thread has done of the work on the keys.
OmpInv ==
  /\ OmpType /\ Stages /\ Barriers /\ Created /\ Known /\ Counted /\ Pointed /\ Moved /\ Ranked /\ Added
  /\ SortedSoFar /\ Passed /\ Ended

-----------------------------------------------------------------------------
\* Seeds are below 2^46.
LEMMA SeedsAre == \A s \in OmpSeeds : s \in 0 .. Wrap - 1
BY OmpAssumption DEF Wrap

\* The keys of a call of rank() are in range.
LEMMA KIs ==
  ASSUME OmpType
  PROVE  K \in KeyArrays
BY KeysAtIs DEF OmpType, K

\* The smaller one of two numbers.
LEMMA MinIs ==
  ASSUME NEW x \in Int, NEW y \in Int
  PROVE  Min({x, y}) = IF x < y THEN x ELSE y
<1> DEFINE m == IF x < y THEN x ELSE y
<1>1. m \in {x, y} /\ \A z \in {x, y} : m <= z
  OBVIOUS
<1>2. \A n \in {x, y} : (\A z \in {x, y} : n <= z) => n = m
  OBVIOUS
<1>3. Min({x, y}) = CHOOSE n \in {x, y} : \A z \in {x, y} : n <= z
  BY DEF Min
<1> HIDE DEF m
<1>4. Min({x, y}) = m
  BY <1>1, <1>2, <1>3
<1> QED  BY <1>4 DEF m

\* The chunks of schedule(static) are the shares.
LEMMA ChunkIs ==
  ASSUME team \in Nat \ {0}, NEW t \in Threads, NEW n \in Nat
  PROVE  StaticChunk(t, n) = Share(team, t, n)
<1>1. t \in Nat
  BY DEF Threads
<1>2. n \div team \in Nat /\ n % team \in Nat
  BY Division
<1>3. PICK q \in Nat, r \in Nat : q = n \div team /\ r = n % team
  BY <1>2
<1>4. Min({t, r}) = IF t < r THEN t ELSE r
  BY <1>1, MinIs
<1>5. FirstOf(team, t, n) = q * t + IF t < r THEN t ELSE r
  BY <1>3 DEF FirstOf
<1>6. FirstOf(team, t, n) \in Nat /\ FirstOf(team, t + 1, n) = FirstOf(team, t, n) + q + IF t < r THEN 1 ELSE 0
  BY <1>1, <1>3, FirstNext
<1>7. StaticChunk(t, n) = LET first == q * t + Min({t, r}) IN first .. first + q - 1 + IF t < r THEN 1 ELSE 0
  BY <1>3 DEF StaticChunk
<1>8. PICK f \in Nat : f = FirstOf(team, t, n)
  BY <1>6
<1>9. StaticChunk(t, n) = f .. f + q - 1 + IF t < r THEN 1 ELSE 0
  BY <1>4, <1>5, <1>7, <1>8
<1>10. Share(team, t, n) = f .. (f + q + IF t < r THEN 1 ELSE 0) - 1
  BY <1>6, <1>8 DEF Share
<1>11. f + q - 1 + (IF t < r THEN 1 ELSE 0) = (f + q + IF t < r THEN 1 ELSE 0) - 1
  BY <1>1, <1>8
<1> QED  BY <1>9, <1>10, <1>11

\* What the threads have of the keys.
LEMMA MineIs ==
  ASSUME team \in Nat \ {0}
  PROVE  /\ \A t \in Threads : /\ t \in Nat /\ t + 1 \in Nat
                               /\ First(t) \in Nat /\ First(t + 1) \in Nat /\ First(t) <= First(t + 1)
                               /\ First(t + 1) <= NUM_KEYS
                               /\ Mine(t) = First(t) .. First(t + 1) - 1
                               /\ Mine(t) \in SUBSET Indices
                               /\ StaticChunk(t, NUM_KEYS) = Mine(t) /\ ToMove(t) = Mine(t)
         /\ \A t, u \in Threads : t # u => Mine(t) \cap Mine(u) = {}
         /\ \A i \in Indices : \E t \in Threads : i \in Mine(t)
         /\ 0 \in Threads
<1>0. NUM_KEYS \in Nat
  BY Sizes
<1>1. /\ \A t \in 0 .. team - 1 : /\ FirstOf(team, t, NUM_KEYS) \in Nat /\ FirstOf(team, t + 1, NUM_KEYS) \in Nat
                                   /\ FirstOf(team, t, NUM_KEYS) <= FirstOf(team, t + 1, NUM_KEYS)
                                   /\ FirstOf(team, t + 1, NUM_KEYS) <= NUM_KEYS
                                   /\ Share(team, t, NUM_KEYS) \subseteq 0 .. NUM_KEYS - 1
      /\ \A t, u \in 0 .. team - 1 : t # u => Share(team, t, NUM_KEYS) \cap Share(team, u, NUM_KEYS) = {}
      /\ \A i \in 0 .. NUM_KEYS - 1 : \E t \in 0 .. team - 1 : i \in Share(team, t, NUM_KEYS)
  BY <1>0, Shares
<1>2. ASSUME NEW t \in Threads
      PROVE  /\ t \in Nat /\ t + 1 \in Nat
             /\ First(t) \in Nat /\ First(t + 1) \in Nat /\ First(t) <= First(t + 1)
             /\ First(t + 1) <= NUM_KEYS
             /\ Mine(t) = First(t) .. First(t + 1) - 1
             /\ Mine(t) \in SUBSET Indices
  BY <1>1 DEF First, Mine, Share, Indices, Threads
<1>3. ASSUME NEW t \in Threads PROVE StaticChunk(t, NUM_KEYS) = Mine(t) /\ ToMove(t) = Mine(t)
  BY <1>0, ChunkIs DEF Mine, ToMove
<1>4. /\ \A t, u \in Threads : t # u => Mine(t) \cap Mine(u) = {}
      /\ \A i \in Indices : \E t \in Threads : i \in Mine(t)
  BY <1>1 DEF Mine, Indices, Threads
<1>5. 0 \in Threads
  BY DEF Threads
<1> QED  BY <1>2, <1>3, <1>4, <1>5

\* Two threads do not share what each has of the values or keys, rounded up.
LEMMA PartsAre ==
  ASSUME team \in Nat \ {0}, NEW n \in Nat
  PROVE  /\ \A t, u \in Threads : t # u => PartOf(t, n) \cap PartOf(u, n) = {}
         /\ \A i \in 0 .. n - 1 : \E t \in Threads : i \in PartOf(t, n)
         /\ (n + team - 1) \div team \in Nat
         /\ \A t \in Threads : ((n + team - 1) \div team) * t \in Nat /\ ((n + team - 1) \div team) * (t + 1) \in Nat
<1> DEFINE mq == (n + team - 1) \div team
<1>1. PICK np \in Nat \ {0} : np = team
  OBVIOUS
<1>2. mq \in Nat /\ mq * np >= n
  BY <1>1, RoundedUp
<1>3. PICK m \in Nat : m = mq
  BY <1>2
<1>40. m * np >= n
  BY <1>2, <1>3
<1>4. /\ \A t, u \in 0 .. np - 1 : t # u => (m * t .. m * (t + 1) - 1) \cap (m * u .. m * (u + 1) - 1) = {}
      /\ \A i \in 0 .. n - 1 : \E t \in 0 .. np - 1 : i \in m * t .. m * (t + 1) - 1
  <2> HIDE DEF mq
  <2> QED  BY <1>40, SharesRoundedUp, Zenon
<1>5. \A t : PartOf(t, n) = m * t .. m * (t + 1) - 1
  BY <1>3 DEF PartOf
<1>6. Threads = 0 .. np - 1 /\ \A t \in 0 .. np - 1 : t \in Nat
  BY <1>1 DEF Threads
<1>7. \A t \in Nat : m * t \in Nat /\ m * (t + 1) \in Nat
  OBVIOUS
<1>8. \A t \in Threads : mq * t \in Nat /\ mq * (t + 1) \in Nat
  BY <1>3, <1>6, <1>7
<1>9. \A t, u \in Threads : t # u => PartOf(t, n) \cap PartOf(u, n) = {}
  BY <1>4, <1>5, <1>6, Zenon
<1>10. \A i \in 0 .. n - 1 : \E t \in Threads : i \in PartOf(t, n)
  <2> SUFFICES ASSUME NEW i \in 0 .. n - 1 PROVE \E t \in Threads : i \in PartOf(t, n)
    OBVIOUS
  <2>1. PICK t \in 0 .. np - 1 : i \in m * t .. m * (t + 1) - 1
    BY <1>4, Zenon
  <2> QED  BY <1>5, <1>6, <2>1
<1> QED  BY <1>2, <1>8, <1>9, <1>10

\* It holds at first.
LEMMA InvInit ==
  ASSUME OmpInit
  PROVE  OmpInv
<1>1. seed \in 0 .. Wrap - 1 /\ team \in Nat \ {0} /\ useBuckets \in BOOLEAN
  BY SeedsAre, OmpAssumption DEF OmpInit
<1>2. 0 \in KeyRange /\ NUM_KEYS \in Nat /\ NUM_BUCKETS \in Nat /\ MAX_ITERATIONS \in Nat
  BY Sizes, SizesAssumption DEF KeyRange
<1>3. OmpType
  BY <1>1, <1>2 DEF OmpInit, OmpType, Zeros, KeyArrays, Indices, Threads
<1>4. Stages /\ Barriers /\ Created /\ Known /\ Counted /\ Pointed /\ Moved /\ Ranked /\ Added /\ SortedSoFar /\ Ended
  BY DEF OmpInit, Stages, Barriers, Created, Known, Counted, Pointed, Moved, Ranked, Added, SortedSoFar, Ended
<1>5. Passed
  BY DEF OmpInit, Passed
<1> QED  BY <1>3, <1>4, <1>5 DEF OmpInv

-----------------------------------------------------------------------------
(* The threads make and count the keys.                                    *)

\* Threads, shares and keys stay the same within a call of rank().
LEMMA SameKeys ==
  ASSUME seed' = seed, team' = team
  PROVE  /\ Threads' = Threads
         /\ round' = round => K' = K
         /\ \A t : First(t)' = First(t) /\ Mine(t)' = Mine(t)
         /\ \A t, n : PartOf(t, n)' = PartOf(t, n)
         /\ \A r : Tested(r)' = Tested(r)
         /\ round' = round => \A t, v : OwnCount(t, v)' = OwnCount(t, v)
BY DEF Threads, K, First, Mine, PartOf, Tested, OwnCount

\* create_seq() of a thread: its seed makes the keys of its part.
LEMMA CreateStep ==
  ASSUME OmpInv, NEW t \in Threads, CreateSeq(t)
  PROVE  OmpInv'
<1> DEFINE mq == (NUM_KEYS + team - 1) \div team
           mine == mq * t .. Min({mq * (t + 1), NUM_KEYS}) - 1
           keys == create_seq(OmpSeed(t, team, 4 * NUM_KEYS, seed), mq)
<1>1. /\ OmpType /\ Stages /\ Barriers /\ Created /\ Known /\ Counted /\ Pointed /\ Moved /\ Ranked /\ Added
      /\ SortedSoFar /\ Passed /\ Ended
  BY DEF OmpInv
<1>2. /\ phase = "create" /\ phase' = "create" /\ pc' = [pc EXCEPT ![t] = "done"]
      /\ seed' = seed /\ team' = team /\ useBuckets' = useBuckets /\ round' = round
      /\ key_buff1' = key_buff1 /\ key_buff2' = key_buff2 /\ work' = work /\ bucket_ptrs' = bucket_ptrs
      /\ idx' = idx /\ next' = next /\ partial_verify_vals' = partial_verify_vals
      /\ passed_verification' = passed_verification
      /\ key_array' = [i \in DOMAIN key_array |-> IF i \in mine THEN keys[i - mq * t] ELSE key_array[i]]
  BY DEF CreateSeq, input, verifying
<1>3. /\ seed \in 0 .. Wrap - 1 /\ team \in Nat \ {0} /\ key_array \in KeyArrays /\ DOMAIN key_array = Indices
      /\ t \in Nat /\ t \in 0 .. team - 1 /\ NUM_KEYS \in Nat /\ DOMAIN pc = Threads
  BY <1>1, Sizes DEF OmpType, Threads, KeyArrays
<1>4. mq \in Nat /\ \A j \in 0 .. mq - 1 : keys[j] = KeyAt(seed, mq * t + j)
  <2>1. PICK q : q = (NUM_KEYS + team - 1) \div team
    OBVIOUS
  <2>2. q \in Nat /\ \A j \in 0 .. q - 1 : create_seq(OmpSeed(t, team, 4 * NUM_KEYS, seed), q)[j] = KeyAt(seed, q * t + j)
    <3> HIDE DEF mq, mine, keys
    <3>1. PICK np \in Nat \ {0} : np = team
      BY <1>3
    <3>2. t \in 0 .. np - 1 /\ q = (NUM_KEYS + np - 1) \div np
      BY <1>3, <2>1, <3>1
    <3>3. PICK s \in 0 .. Wrap - 1 : s = seed
      BY <1>3
    <3>4. q \in Nat
      BY <3>2, KeysOfThread
    <3>5. \A j \in 0 .. q - 1 : create_seq(OmpSeed(t, np, 4 * NUM_KEYS, s), q)[j] = KeyAt(s, q * t + j)
      BY <3>2, KeysOfThread
    <3> QED  BY <3>1, <3>3, <3>4, <3>5
  <2> QED  BY <2>1, <2>2
<1>5. PICK m \in Nat : m = mq
  BY <1>4
<1>6. PICK a \in Nat : a = m * t /\ m * (t + 1) = a + m
  BY <1>3
<1>7. PartOf(t, NUM_KEYS) = a .. a + m - 1
  BY <1>5, <1>6 DEF PartOf
<1>8. mine = a .. (IF a + m < NUM_KEYS THEN a + m ELSE NUM_KEYS) - 1
  <2>1. PICK x \in Nat : x = mq * (t + 1) /\ x = a + m
    BY <1>5, <1>6
  <2>2. Min({x, NUM_KEYS}) = IF x < NUM_KEYS THEN x ELSE NUM_KEYS
    BY <1>3, MinIs
  <2>3. mq * t = a
    BY <1>5, <1>6
  <2>4. mine = a .. Min({x, NUM_KEYS}) - 1
    BY <2>1, <2>3
  <2> HIDE DEF mine, mq
  <2> QED  BY <2>1, <2>2, <2>4
<1>9. \A i \in Indices : i \in mine <=> i \in PartOf(t, NUM_KEYS)
  <2> HIDE DEF mine, mq
  <2>1. ASSUME NEW i \in 0 .. NUM_KEYS - 1 PROVE i \in mine <=> i \in PartOf(t, NUM_KEYS)
    <3>1. CASE a + m < NUM_KEYS
      BY <1>3, <1>7, <1>8, <3>1
    <3>2. CASE ~(a + m < NUM_KEYS)
      BY <1>3, <1>7, <1>8, <3>2
    <3> QED  BY <3>1, <3>2
  <2> QED  BY <2>1 DEF Indices
<1>10. \A i \in Indices : i \in mine => keys[i - mq * t] = KeyAt(seed, i)
  <2> HIDE DEF mq, keys, mine
  <2>1. ASSUME NEW i \in Indices, i \in mine PROVE keys[i - mq * t] = KeyAt(seed, i)
    <3>1. PICK j \in 0 .. m - 1 : i = a + j
      <4>1. i \in a .. a + m - 1
        BY <1>7, <1>9, <2>1
      <4>2. i - a \in 0 .. m - 1 /\ i = a + (i - a)
        BY <4>1
      <4> QED  BY <4>2
    <3>2. i - mq * t = j /\ mq * t + j = i
      BY <1>5, <1>6, <3>1
    <3> QED  BY <1>4, <1>5, <3>1, <3>2
  <2> QED  BY <2>1
<1>11. \A i \in Indices : key_array'[i] = IF i \in PartOf(t, NUM_KEYS) THEN KeyAt(seed, i) ELSE key_array[i]
  BY <1>2, <1>3, <1>9, <1>10
<1>12. \A i \in Indices : TheKeys(seed)[i] = KeyAt(seed, i) /\ KeyAt(seed, i) \in KeyRange
  BY <1>3, TheKeysInRange, KeyInRange DEF Indices
<1>13. key_array' \in KeyArrays
  <2> HIDE DEF mq, keys, mine
  <2>1. DOMAIN key_array' = Indices /\ key_array' = [i \in Indices |-> key_array'[i]]
    BY <1>2, <1>3
  <2>2. \A i \in Indices : key_array'[i] \in KeyRange
    BY <1>3, <1>11, <1>12 DEF KeyArrays
  <2> QED  BY <2>1, <2>2 DEF KeyArrays
<1> HIDE DEF mq, keys, mine
<1>14. OmpType'
  BY <1>1, <1>2, <1>13 DEF OmpType, Threads
<1>15. Created'
  <2>1. \A u \in Threads : u # t => PartOf(u, NUM_KEYS) \cap PartOf(t, NUM_KEYS) = {}
    BY <1>3, PartsAre
  <2>2. \A u \in Threads : \A i \in Indices : u # t /\ i \in PartOf(u, NUM_KEYS) => key_array'[i] = key_array[i]
    BY <1>11, <2>1
  <2>3. \A u \in Threads : u # t /\ pc'[u] = "done" => pc[u] = "done"
    BY <1>2, <1>3
  <2>4. \A u \in Threads : pc'[u] = "done" =>
          \A i \in Indices : i \in PartOf(u, NUM_KEYS) => key_array'[i] = TheKeys(seed)[i]
    BY <1>1, <1>2, <1>11, <1>12, <2>2, <2>3 DEF Created
  <2> QED  BY <1>2, <2>4, SameKeys DEF Created
<1>16. Stages'
  BY <1>1, <1>2, <1>3 DEF Stages, Threads
<1>17. Barriers' /\ Known' /\ Counted' /\ Pointed' /\ Moved' /\ Ranked' /\ Added' /\ SortedSoFar' /\ Ended'
  BY <1>2 DEF Barriers, Known, Counted, Pointed, Moved, Ranked, Added, SortedSoFar, Ended
<1>18. Passed'
  BY <1>1, <1>2 DEF Passed
<1> QED  BY <1>14, <1>15, <1>16, <1>17, <1>18 DEF OmpInv

\* A call of rank() alters two keys, and reads the test keys.
LEMMA StartStep ==
  ASSUME OmpInv, StartRank
  PROVE  OmpInv'
<1>1. /\ OmpType /\ Stages /\ Barriers /\ Created /\ Known /\ Passed
  BY DEF OmpInv
<1>2. /\ phase \in {"create", "verified"} /\ phase' = "rank" /\ pc' = [t \in Threads |-> "count"]
      /\ seed' = seed /\ team' = team /\ useBuckets' = useBuckets
      /\ key_buff1' = key_buff1 /\ key_buff2' = key_buff2 /\ work' = work /\ bucket_ptrs' = bucket_ptrs
      /\ idx' = idx /\ next' = 0
      /\ \A t \in Threads : pc[t] = "done"
      /\ phase = "verified" => round < MAX_ITERATIONS
      /\ round' = IF phase = "create" THEN 0 ELSE round + 1
      /\ passed_verification' = IF round' = 1 THEN 0 ELSE passed_verification
      /\ key_array' = Altered(key_array, IF round' = 0 THEN 1 ELSE round')
      /\ partial_verify_vals' = [i \in DOMAIN test_index_array |-> key_array'[test_index_array[i]]]
  BY DEF StartRank, input, AllAt
<1>3. /\ seed \in 0 .. Wrap - 1 /\ team \in Nat \ {0} /\ key_array \in KeyArrays /\ DOMAIN key_array = Indices
      /\ round \in 0 .. MAX_ITERATIONS /\ round \in Nat /\ MAX_ITERATIONS \in Nat \ {0} /\ NUM_KEYS \in Nat
      /\ Len(test_index_array) \in Nat /\ NUM_BUCKETS \in Nat
  <2>1. /\ MAX_ITERATIONS \in Nat \ {0} /\ NUM_KEYS \in Nat /\ Len(test_index_array) \in Nat /\ NUM_BUCKETS \in Nat
    BY Sizes, SizesAssumption
  <2>2. /\ seed \in 0 .. Wrap - 1 /\ team \in Nat \ {0} /\ key_array \in KeyArrays /\ round \in 0 .. MAX_ITERATIONS
    BY <1>1 DEF OmpType
  <2>3. DOMAIN key_array = Indices
    BY <2>2 DEF KeyArrays
  <2> QED  BY <2>1, <2>2, <2>3
<1>4. round' \in 0 .. MAX_ITERATIONS /\ round' \in Nat
  BY <1>2, <1>3
<1>5. key_array' = KeysAt(seed, round')
  <2>1. CASE phase = "create"
    <3>1. \A i \in Indices : key_array[i] = TheKeys(seed)[i]
      BY <1>1, <1>2, <1>3, <2>1, PartsAre DEF Created, Indices
    <3>2. TheKeys(seed) \in KeyArrays
      BY <1>3, TheKeysInRange
    <3>3. key_array = TheKeys(seed)
      BY <1>3, <3>1, <3>2 DEF KeyArrays
    <3> QED  BY <1>2, <1>3, <2>1, <3>3, KeysAtIs
  <2>2. CASE phase = "verified"
    <3>1. key_array = KeysAt(seed, round)
      BY <1>1, <2>2 DEF Known, K
    <3>2. round' = round + 1 /\ round' # 0
      BY <1>2, <1>3, <2>2
    <3>3. \A r \in Nat : KeysAt(seed, r + 1) = Altered(KeysAt(seed, r), r + 1)
      BY <1>3, KeysAtIs
    <3>4. KeysAt(seed, round') = Altered(key_array, round')
      BY <1>3, <3>1, <3>2, <3>3
    <3> QED  BY <1>2, <3>2, <3>4
  <2> QED  BY <1>2, <2>1, <2>2
<1>6. K' = key_array' /\ key_array' \in KeyArrays
  BY <1>2, <1>3, <1>4, <1>5, KeysAtIs DEF K
<1>7. OmpType'
  BY <1>1, <1>2, <1>3, <1>4, <1>6 DEF OmpType, Threads
<1>8. Stages' /\ Barriers' /\ Created' /\ Known' /\ Counted' /\ Pointed' /\ Moved' /\ SortedSoFar' /\ Ended'
  BY <1>2, <1>6, SameKeys DEF Stages, Barriers, Created, Known, Counted, Pointed, Moved, SortedSoFar, Ended
<1>9. Ranked'
  <2>1. \A v \in KeyRange : ~(BucketOf(v) < 0)
    BY BucketIs DEF Buckets
  <2> QED  BY <1>2, <2>1 DEF Ranked
<1>10. Added'
  BY <1>2, <1>3, SameKeys, MineIs DEF Added
<1>11. Passed'
  <2>1. passed_verification' \in Nat
    BY <1>1, <1>2 DEF Passed
  <2>2. partial_verify_vals' = [i \in DOMAIN test_index_array |-> K'[test_index_array[i]]]
    BY <1>2, <1>6
  <2>3. ASSUME round' > 0
        PROVE  /\ passed_verification' <= Len(test_index_array) * round
               /\ passed_verification' = Len(test_index_array) * round <=> \A r \in 1 .. round : Tested(r)
    <3>1. phase = "verified" /\ round' = round + 1
      BY <1>2, <1>3, <2>3
    <3>2. CASE round = 0
      <4>1. passed_verification' = 0 /\ Len(test_index_array) * round = 0
        BY <1>2, <1>3, <3>1, <3>2
      <4> QED  BY <1>3, <3>2, <4>1
    <3>3. CASE round # 0
      BY <1>1, <1>2, <1>3, <3>1, <3>3 DEF Passed, Rounds
    <3> QED  BY <3>2, <3>3
  <2>4. Rounds' = round' - 1 /\ (round' > 0 => Rounds' = round)
    BY <1>2, <1>3 DEF Rounds
  <2> QED  BY <1>2, <2>1, <2>2, <2>3, <2>4, SameKeys DEF Passed
<1> QED  BY <1>7, <1>8, <1>9, <1>10, <1>11 DEF OmpInv

\* The share of the values that a thread adds up.
LEMMA ValuesAre ==
  ASSUME team \in Nat \ {0}
  PROVE  /\ \A t \in Threads : \A v \in Share(team, t, MAX_KEY) : v \in KeyRange
         /\ \A t, u \in Threads : t # u => Share(team, t, MAX_KEY) \cap Share(team, u, MAX_KEY) = {}
         /\ \A v \in KeyRange : \E t \in Threads : v \in Share(team, t, MAX_KEY)
         /\ \A t \in Threads : StaticChunk(t, MAX_KEY) = Share(team, t, MAX_KEY)
<1>1. MAX_KEY \in Nat
  BY Sizes
<1>2. PICK np \in Nat \ {0} : np = team
  OBVIOUS
<1>3. Threads = 0 .. np - 1 /\ KeyRange = 0 .. MAX_KEY - 1
  BY <1>2 DEF Threads, KeyRange
<1>4. /\ \A t \in Threads : Share(np, t, MAX_KEY) \subseteq KeyRange
      /\ \A t, u \in Threads : t # u => Share(np, t, MAX_KEY) \cap Share(np, u, MAX_KEY) = {}
      /\ \A i \in KeyRange : \E t \in Threads : i \in Share(np, t, MAX_KEY)
  BY <1>1, <1>3, Shares
<1>5. \A t \in Threads : StaticChunk(t, MAX_KEY) = Share(team, t, MAX_KEY)
  BY <1>1, ChunkIs
<1> QED  BY <1>2, <1>4, <1>5

\* A thread counts its share.
LEMMA CountStep ==
  ASSUME OmpInv, NEW t \in Threads, Count(t)
  PROVE  OmpInv'
<1> DEFINE inBucket == [b \in Buckets |-> Cardinality({i \in StaticChunk(t, NUM_KEYS) : BucketOf(key_array[i]) = b})]
           atMost == [v \in KeyRange |-> Cardinality({i \in StaticChunk(t, NUM_KEYS) : key_array[i] <= v})]
<1>1. /\ OmpType /\ Stages /\ Barriers /\ Created /\ Known /\ Counted /\ Pointed /\ Moved /\ Ranked /\ Added
      /\ SortedSoFar /\ Passed /\ Ended
  BY DEF OmpInv
<1>2. /\ phase = "rank" /\ phase' = "rank" /\ pc[t] = "count"
      /\ pc' = [pc EXCEPT ![t] = IF useBuckets THEN "ptrs" ELSE "add"]
      /\ seed' = seed /\ team' = team /\ useBuckets' = useBuckets /\ round' = round
      /\ key_array' = key_array /\ key_buff2' = key_buff2 /\ bucket_ptrs' = bucket_ptrs
      /\ idx' = idx /\ next' = next /\ partial_verify_vals' = partial_verify_vals
      /\ passed_verification' = passed_verification
      /\ useBuckets => work' = [work EXCEPT ![t] = inBucket] /\ key_buff1' = key_buff1
      /\ ~useBuckets /\ t = 0 => key_buff1' = atMost /\ work' = work
      /\ ~useBuckets /\ t # 0 => work' = [work EXCEPT ![t] = atMost] /\ key_buff1' = key_buff1
  BY DEF Count, input, verifying
<1>3. /\ team \in Nat \ {0} /\ DOMAIN pc = Threads /\ DOMAIN work = Threads /\ useBuckets \in BOOLEAN
      /\ K' = K /\ K \in KeyArrays /\ key_array = K /\ Threads' = Threads /\ StaticChunk(t, NUM_KEYS) = Mine(t)
      /\ Mine(t) \in SUBSET Indices /\ DOMAIN key_buff1 = KeyRange
  BY <1>1, <1>2, SameKeys, KIs, MineIs DEF OmpType, Known
<1>4. /\ \A b \in Buckets : inBucket[b] = Cardinality({i \in Mine(t) : BucketOf(K[i]) = b})
      /\ \A v \in KeyRange : atMost[v] = OwnCount(t, v)
      /\ DOMAIN atMost = KeyRange
  <2>1. \A v : {i \in Mine(t) : K[i] <= v} = AtMost(K, v) \cap Mine(t)
    BY <1>3 DEF AtMost
  <2> QED  BY <1>3, <2>1 DEF OwnCount
<1> HIDE DEF inBucket, atMost
<1>5. pc'[t] = (IF useBuckets THEN "ptrs" ELSE "add") /\ \A u \in Threads : u # t => pc'[u] = pc[u]
  BY <1>2, <1>3
<1>6. OmpType'
  BY <1>1, <1>2, <1>3, <1>4 DEF OmpType
<1>7. Stages'
  BY <1>1, <1>2, <1>3, <1>5 DEF Stages
<1>8. Barriers'
  BY <1>1, <1>2, <1>3, <1>5 DEF Barriers
<1>9. Created' /\ Known' /\ SortedSoFar' /\ Ended'
  BY <1>1, <1>2, <1>3 DEF Created, Known, SortedSoFar, Ended
<1>10. Counted'
  <2>1. ASSUME useBuckets, NEW u \in Threads, pc'[u] # "count", NEW b \in Buckets
        PROVE  work'[u][b] = Cardinality({i \in Mine(u) : BucketOf(K[i]) = b})
    <3>1. CASE u = t
      BY <1>2, <1>3, <1>4, <2>1, <3>1
    <3>2. CASE u # t
      BY <1>1, <1>2, <1>3, <1>5, <2>1, <3>2 DEF Counted
    <3> QED  BY <3>1, <3>2
  <2> QED  BY <1>2, <1>3, <2>1, SameKeys DEF Counted
<1>11. Pointed'
  BY <1>1, <1>2, <1>3, <1>5, SameKeys DEF Pointed
<1>12. Moved'
  BY <1>1, <1>2, <1>3, <1>5, SameKeys DEF Moved
<1>13. Ranked'
  BY <1>1, <1>2, <1>3 DEF Ranked
<1>14. Added'
  <2> SUFFICES ASSUME ~useBuckets
               PROVE  /\ \A u \in Threads : u # 0 /\ pc'[u] # "count" =>
                           \A v \in KeyRange : work'[u][v] = OwnCount(u, v)
                      /\ pc'[0] # "count" => \A u \in Threads : \A v \in Share(team, u, MAX_KEY) :
                           key_buff1'[v] = IF pc'[u] = "done" THEN RankOf(K, v) ELSE OwnCount(0, v)
    <3>1. /\ phase' = "rank" /\ useBuckets' = useBuckets /\ Threads' = Threads /\ team' = team /\ K' = K
          /\ \A u, v : OwnCount(u, v)' = OwnCount(u, v)
      BY <1>2, SameKeys
    <3> QED  BY <3>1 DEF Added
  <2>1. \A u \in Threads : (pc[u] # "done" /\ pc'[u] # "done") \/ (t # 0 /\ (pc'[u] = "done" <=> pc[u] = "done"))
    BY <1>1, <1>2, <1>5 DEF Barriers
  <2>2. ASSUME NEW u \in Threads, u # 0, pc'[u] # "count", NEW v \in KeyRange
        PROVE  work'[u][v] = OwnCount(u, v)
    <3>1. CASE u = t
      BY <1>2, <1>3, <1>4, <2>2, <3>1
    <3>2. CASE u # t
      BY <1>1, <1>2, <1>3, <1>5, <2>2, <3>2 DEF Added
    <3> QED  BY <3>1, <3>2
  <2>3. ASSUME pc'[0] # "count", NEW u \in Threads, NEW v \in Share(team, u, MAX_KEY)
        PROVE  key_buff1'[v] = IF pc'[u] = "done" THEN RankOf(K, v) ELSE OwnCount(0, v)
    <3>1. v \in KeyRange
      BY <1>3, ValuesAre
    <3>2. CASE t = 0
      BY <1>2, <1>4, <2>1, <3>1, <3>2
    <3>3. CASE t # 0
      <4>1. 0 \in Threads /\ pc[0] # "count"
        BY <1>3, <1>5, <2>3, <3>3, MineIs
      <4>2. key_buff1[v] = IF pc[u] = "done" THEN RankOf(K, v) ELSE OwnCount(0, v)
        BY <1>1, <1>2, <4>1 DEF Added
      <4> QED  BY <1>2, <2>1, <3>3, <4>2
    <3> QED  BY <3>2, <3>3
  <2> QED  BY <2>2, <2>3
<1>15. Passed'
  BY <1>1, <1>2, <1>3, SameKeys DEF Passed, Rounds
<1> QED  BY <1>6, <1>7, <1>8, <1>9, <1>10, <1>11, <1>12, <1>13, <1>14, <1>15 DEF OmpInv

\* The counts of the other threads, and those of the first one, are the rank.
LEMMA CountsAddUp ==
  ASSUME NEW np \in Nat \ {0}, NEW a \in KeyArrays, NEW v,
         NEW f, \A k \in 0 .. np - 2 : f[k] = Cardinality(AtMost(a, v) \cap Share(np, k + 1, NUM_KEYS))
  PROVE  Cardinality(AtMost(a, v) \cap Share(np, 0, NUM_KEYS)) + SumTo(f, np - 1) = RankOf(a, v)
<1> DEFINE T == AtMost(a, v)
           F == FirstOf(np, 1, NUM_KEYS)
           S == {i \in T : F <= i /\ i < NUM_KEYS}
<1>1. T \in SUBSET Indices /\ RankOf(a, v) = Cardinality(T) /\ NUM_KEYS \in Nat
  BY Sizes, RanksAreSizes, KeysAreNumbers
<1>2. F \in Nat /\ FirstOf(np, 0, NUM_KEYS) = 0 /\ FirstOf(np, np, NUM_KEYS) = NUM_KEYS
  <2>1. 0 + 1 = 1 /\ 1 \in Nat
    OBVIOUS
  <2>2. F \in Nat
    BY <1>1, <2>1, FirstNext
  <2>3. FirstOf(np, 0, NUM_KEYS) = 0 /\ FirstOf(np, np, NUM_KEYS) = NUM_KEYS
    BY <1>1, FirstAndLast
  <2> QED  BY <2>2, <2>3
<1>3. SumTo(f, np - 1) = Cardinality(S)
  <2>1. PICK m \in Nat : m = np - 1 /\ 1 + m = np
    OBVIOUS
  <2>2. \A k \in 0 .. m - 1 : f[k] = Cardinality(T \cap Share(np, 1 + k, NUM_KEYS))
    <3>1. \A k \in 0 .. m - 1 : k \in 0 .. np - 2 /\ 1 + k = k + 1
      BY <2>1
    <3> QED  BY <3>1
  <2>3. SumTo(f, m) = Cardinality(OfShares(np, T, 1, m))
    <3> HIDE DEF T, S, F
    <3>0. T \in SUBSET Indices
      BY <1>1
    <3>1. PICK s \in Nat : s = 1
      OBVIOUS
    <3>2. s + m <= np /\ OwnParts(f, np, T, s, m)
      BY <2>1, <2>2, <3>1 DEF OwnParts
    <3>3. SumTo(f, m) = Cardinality(OfShares(np, T, s, m))
      BY <3>0, <3>2, SharesAddUp
    <3> QED  BY <3>1, <3>3
  <2>4. OfShares(np, T, 1, m) = S
    BY <1>2, <2>1 DEF OfShares
  <2> QED  BY <2>1, <2>3, <2>4
<1>4. Share(np, 0, NUM_KEYS) = 0 .. F - 1
  <2>1. 0 + 1 = 1
    OBVIOUS
  <2> QED  BY <1>2, <2>1 DEF Share
<1>5. T = (T \cap Share(np, 0, NUM_KEYS)) \cup S /\ (T \cap Share(np, 0, NUM_KEYS)) \cap S = {}
  BY <1>1, <1>2, <1>4 DEF Indices
<1>6. /\ IsFiniteSet(T \cap Share(np, 0, NUM_KEYS)) /\ IsFiniteSet(S)
      /\ T \cap Share(np, 0, NUM_KEYS) \in SUBSET Indices /\ S \in SUBSET Indices
  BY <1>1, Finite
<1> HIDE DEF T, S
<1>7. Cardinality(T) = Cardinality(T \cap Share(np, 0, NUM_KEYS)) + Cardinality(S)
  BY <1>5, <1>6, SizeOfTwo
<1> QED  BY <1>1, <1>3, <1>7 DEF T

\* A thread adds up the counts of all for its share of the values.
LEMMA AddStep ==
  ASSUME OmpInv, NEW t \in Threads, AddUp(t)
  PROVE  OmpInv'
<1> DEFINE others(v) == SumTo([k \in 0 .. team - 2 |-> work[k + 1][v]], team - 1)
<1>1. /\ OmpType /\ Stages /\ Barriers /\ Created /\ Known /\ Counted /\ Pointed /\ Moved /\ Ranked /\ Added
      /\ SortedSoFar /\ Passed /\ Ended
  BY DEF OmpInv
<1>2. /\ phase = "rank" /\ phase' = "rank" /\ pc[t] = "add" /\ \A u \in Threads : pc[u] \in {"add", "done"}
      /\ pc' = [pc EXCEPT ![t] = "done"]
      /\ seed' = seed /\ team' = team /\ useBuckets' = useBuckets /\ round' = round
      /\ key_array' = key_array /\ key_buff2' = key_buff2 /\ bucket_ptrs' = bucket_ptrs /\ work' = work
      /\ idx' = idx /\ next' = next /\ partial_verify_vals' = partial_verify_vals
      /\ passed_verification' = passed_verification
      /\ key_buff1' = [v \in KeyRange |-> IF v \in StaticChunk(t, MAX_KEY) THEN key_buff1[v] + others(v) ELSE key_buff1[v]]
  BY DEF AddUp, AllAt, input, verifying
<1>3. /\ team \in Nat \ {0} /\ DOMAIN pc = Threads /\ useBuckets \in BOOLEAN
      /\ K' = K /\ K \in KeyArrays /\ key_array = K /\ Threads' = Threads
      /\ StaticChunk(t, MAX_KEY) = Share(team, t, MAX_KEY) /\ 0 \in Threads
  BY <1>1, <1>2, SameKeys, KIs, MineIs, ValuesAre DEF OmpType, Known
<1>4. ~useBuckets
  BY <1>1, <1>2 DEF Stages
<1>5. pc'[t] = "done" /\ \A u \in Threads : u # t => pc'[u] = pc[u]
  BY <1>2, <1>3
<1>6. \A v \in KeyRange : OwnCount(0, v) + others(v) = RankOf(K, v)
  <2> SUFFICES ASSUME NEW v \in KeyRange PROVE OwnCount(0, v) + others(v) = RankOf(K, v)
    OBVIOUS
  <2>1. PICK np \in Nat \ {0} : np = team
    BY <1>3
  <2> DEFINE f == [k \in 0 .. np - 2 |-> work[k + 1][v]]
  <2>2. ASSUME NEW k \in 0 .. np - 2 PROVE f[k] = Cardinality(AtMost(K, v) \cap Share(np, k + 1, NUM_KEYS))
    <3>1. k + 1 \in Threads /\ k + 1 # 0
      BY <2>1 DEF Threads
    <3>2. work[k + 1][v] = OwnCount(k + 1, v)
      BY <1>1, <1>2, <1>4, <3>1 DEF Added
    <3> QED  BY <2>1, <3>2 DEF OwnCount, Mine
  <2> HIDE DEF f
  <2>3. Cardinality(AtMost(K, v) \cap Share(np, 0, NUM_KEYS)) + SumTo(f, np - 1) = RankOf(K, v)
    BY <1>3, <2>2, CountsAddUp
  <2> QED  BY <2>1, <2>3 DEF OwnCount, Mine, f
<1> HIDE DEF others
<1>7. OmpType'
  BY <1>1, <1>2, <1>3 DEF OmpType
<1>8. Stages'
  BY <1>1, <1>2, <1>3, <1>4, <1>5 DEF Stages
<1>9. Barriers'
  BY <1>1, <1>2, <1>3, <1>4, <1>5 DEF Barriers
<1>10. Created' /\ Known' /\ Counted' /\ Pointed' /\ Moved' /\ Ranked' /\ SortedSoFar' /\ Ended'
  BY <1>1, <1>2, <1>3, <1>4 DEF Created, Known, Counted, Pointed, Moved, Ranked, SortedSoFar, Ended
<1>11. Added'
  <2>1. ASSUME NEW u \in Threads, u # 0, NEW v \in KeyRange PROVE work'[u][v] = OwnCount(u, v)
    BY <1>1, <1>2, <1>4, <2>1 DEF Added
  <2>2. ASSUME NEW u \in Threads, NEW v \in Share(team, u, MAX_KEY)
        PROVE  key_buff1'[v] = IF pc'[u] = "done" THEN RankOf(K, v) ELSE OwnCount(0, v)
    <3>1. v \in KeyRange
      BY <1>3, ValuesAre
    <3>2. key_buff1[v] = IF pc[u] = "done" THEN RankOf(K, v) ELSE OwnCount(0, v)
      BY <1>1, <1>2, <1>3, <1>4 DEF Added
    <3>3. CASE u = t
      BY <1>2, <1>3, <1>5, <1>6, <3>1, <3>2, <3>3
    <3>4. CASE u # t
      <4>1. v \notin Share(team, t, MAX_KEY)
        BY <1>3, <3>4, ValuesAre
      <4> QED  BY <1>2, <1>3, <1>5, <3>1, <3>2, <3>4, <4>1
    <3> QED  BY <3>3, <3>4
  <2>3. Threads' = Threads /\ team' = team /\ K' = K /\ \A u, v : OwnCount(u, v)' = OwnCount(u, v)
    BY <1>2, SameKeys
  <2> QED  BY <2>1, <2>2, <2>3 DEF Added
<1>12. Passed'
  BY <1>1, <1>2, <1>3, SameKeys DEF Passed, Rounds
<1> QED  BY <1>7, <1>8, <1>9, <1>10, <1>11, <1>12 DEF OmpInv

-----------------------------------------------------------------------------
(* Where the keys of a thread go.                                          *)

\* The shares of the keys.
LEMMA KeySharesAre ==
  ASSUME NEW np \in Nat \ {0}
  PROVE  /\ NUM_KEYS \in Nat
         /\ FirstOf(np, 0, NUM_KEYS) = 0 /\ FirstOf(np, np, NUM_KEYS) = NUM_KEYS
         /\ \A t \in Nat : FirstOf(np, t, NUM_KEYS) \in Nat
         /\ \A i \in Indices : 0 <= i /\ i < NUM_KEYS /\ i \in Nat
         /\ \A u \in 0 .. np - 1 : Share(np, u, NUM_KEYS) \in SUBSET Indices
<1>1. NUM_KEYS \in Nat
  BY Sizes
<1>2. FirstOf(np, 0, NUM_KEYS) = 0 /\ FirstOf(np, np, NUM_KEYS) = NUM_KEYS
  BY <1>1, FirstAndLast
<1>3. \A t \in Nat : FirstOf(np, t, NUM_KEYS) \in Nat
  BY <1>1, FirstNext
<1>4. \A i \in Indices : 0 <= i /\ i < NUM_KEYS /\ i \in Nat
  BY <1>1 DEF Indices
<1>5. \A u \in 0 .. np - 1 : Share(np, u, NUM_KEYS) \in SUBSET Indices
  BY <1>1, Shares DEF Indices
<1> QED  BY <1>1, <1>2, <1>3, <1>4, <1>5

\* What each thread has counted, by buckets.
CountedShares(np, a, w) ==
  \A u \in 0 .. np - 1 : CountsBuckets(w[u], a, Share(np, u, NUM_KEYS))

\* The sums that a thread makes of the counts: keys of lesser buckets and those
\* of the bucket that earlier threads have; and those that later ones have.
EarlierSum(np, w, t, b) ==
  SumTo([k \in 0 .. np - 1 |-> SumTo(w[k], b)], np) + SumTo([k \in 0 .. np - 1 |-> w[k][b]], t)
LaterSum(np, w, t, b) == SumTo([k \in 0 .. np - 2 - t |-> w[t + 1 + k][b]], np - 1 - t)

\* The first sum is where the keys of the bucket go that the thread has.
LEMMA FirstSlotIs ==
  ASSUME NEW np \in Nat \ {0}, NEW a \in KeyArrays, NEW w, CountedShares(np, a, w),
         NEW t \in Nat, t \in 0 .. np - 1, NEW b \in Nat, b \in Buckets
  PROVE  EarlierSum(np, w, t, b) = Cardinality(Before(a, b, FirstOf(np, t, NUM_KEYS)))
<1> DEFINE T == {i \in Indices : BucketOf(a[i]) < b}
           S == {i \in InBucket(a, b) : i < FirstOf(np, t, NUM_KEYS)}
           f == [k \in 0 .. np - 1 |-> SumTo(w[k], b)]
           g == [k \in 0 .. np - 1 |-> w[k][b]]
<1>1. /\ NUM_KEYS \in Nat /\ T \in SUBSET Indices /\ InBucket(a, b) \in SUBSET Indices
      /\ FirstOf(np, 0, NUM_KEYS) = 0 /\ FirstOf(np, np, NUM_KEYS) = NUM_KEYS /\ FirstOf(np, t, NUM_KEYS) \in Nat
      /\ \A i \in Indices : 0 <= i /\ i < NUM_KEYS /\ i \in Nat
      /\ \A u \in 0 .. np - 1 : Share(np, u, NUM_KEYS) \in SUBSET Indices
  BY KeySharesAre DEF InBucket
<1>2. \A k \in 0 .. np - 1 : f[k] = Cardinality(T \cap Share(np, 0 + k, NUM_KEYS))
  <2> SUFFICES ASSUME NEW k \in 0 .. np - 1 PROVE f[k] = Cardinality(T \cap Share(np, 0 + k, NUM_KEYS))
    OBVIOUS
  <2>1. PICK S1 \in SUBSET Indices : S1 = Share(np, k, NUM_KEYS)
    BY <1>1
  <2>2. PICK w1 : w1 = w[k]
    OBVIOUS
  <2>3. CountsBuckets(w1, a, S1)
    BY <2>1, <2>2 DEF CountedShares
  <2>4. SumTo(w1, b) = Cardinality(LesserBuckets(a, S1, b))
    BY <2>3, BucketsAddUp
  <2>5. LesserBuckets(a, S1, b) = T \cap Share(np, 0 + k, NUM_KEYS)
    BY <1>1, <2>1 DEF LesserBuckets
  <2> QED  BY <2>2, <2>4, <2>5
<1>3. \A k \in 0 .. t - 1 : g[k] = Cardinality(InBucket(a, b) \cap Share(np, 0 + k, NUM_KEYS))
  <2> SUFFICES ASSUME NEW k \in 0 .. t - 1 PROVE g[k] = Cardinality(InBucket(a, b) \cap Share(np, 0 + k, NUM_KEYS))
    OBVIOUS
  <2>1. k \in 0 .. np - 1 /\ 0 + k = k
    OBVIOUS
  <2>2. {i \in Share(np, k, NUM_KEYS) : BucketOf(a[i]) = b} = InBucket(a, b) \cap Share(np, k, NUM_KEYS)
    BY <1>1, <2>1 DEF InBucket
  <2> QED  BY <2>1, <2>2 DEF CountedShares, CountsBuckets
<1>4. SumTo(f, np) = Cardinality(T)
  <2>1. PICK s \in Nat : s = 0
    OBVIOUS
  <2>2. s + np <= np /\ OwnParts(f, np, T, s, np)
    BY <1>2, <2>1 DEF OwnParts
  <2>3. SumTo(f, np) = Cardinality(OfShares(np, T, s, np))
    <3> HIDE DEF f, g, T, S
    <3> QED  BY <1>1, <2>2, SharesAddUp
  <2>4. OfShares(np, T, s, np) = T
    BY <1>1, <2>1 DEF OfShares
  <2> QED  BY <2>3, <2>4
<1>5. SumTo(g, t) = Cardinality(S)
  <2>1. PICK s \in Nat : s = 0
    OBVIOUS
  <2>2. s + t <= np /\ OwnParts(g, np, InBucket(a, b), s, t)
    <3> HIDE DEF g, T, S
    <3>1. s + t <= np
      BY <1>3, <2>1
    <3>2. OwnParts(g, np, InBucket(a, b), s, t)
      BY <1>3, <2>1 DEF OwnParts
    <3> QED  BY <3>1, <3>2
  <2>3. SumTo(g, t) = Cardinality(OfShares(np, InBucket(a, b), s, t))
    <3> HIDE DEF g, T, S
    <3> QED  BY <1>1, <2>2, SharesAddUp
  <2>4. OfShares(np, InBucket(a, b), s, t) = S
    BY <1>1, <2>1 DEF OfShares
  <2> QED  BY <2>3, <2>4
<1>6. Before(a, b, FirstOf(np, t, NUM_KEYS)) = T \cup S /\ T \cap S = {}
  <2>1. \A i \in Indices : BucketOf(a[i]) \in Nat
    BY BeforeIs
  <2> QED  BY <2>1 DEF Before, InBucket
<1>7. IsFiniteSet(T) /\ IsFiniteSet(S)
  BY <1>1, Finite
<1> HIDE DEF T, S, f, g
<1>8. Cardinality(T \cup S) = Cardinality(T) + Cardinality(S)
  BY <1>6, <1>7, SizeOfTwo
<1> QED  BY <1>4, <1>5, <1>6, <1>8 DEF f, g, EarlierSum

\* With the other sum, what the thread has moved makes the end of the bucket.
LEMMA LastSlotIs ==
  ASSUME NEW np \in Nat \ {0}, NEW a \in KeyArrays, NEW w, CountedShares(np, a, w),
         NEW t \in Nat, t \in 0 .. np - 1, NEW b \in Nat, b \in Buckets
  PROVE  Cardinality(Before(a, b, FirstOf(np, t + 1, NUM_KEYS))) + LaterSum(np, w, t, b)
           = Cardinality(Before(a, b + 1, 0))
<1> DEFINE F == FirstOf(np, t + 1, NUM_KEYS)
           T == Before(a, b, F)
           S == {i \in InBucket(a, b) : F <= i}
           g == [k \in 0 .. np - 2 - t |-> w[t + 1 + k][b]]
<1>1. /\ NUM_KEYS \in Nat /\ T \in SUBSET Indices /\ InBucket(a, b) \in SUBSET Indices
      /\ FirstOf(np, np, NUM_KEYS) = NUM_KEYS /\ F \in Nat
      /\ \A i \in Indices : 0 <= i /\ i < NUM_KEYS /\ i \in Nat
      /\ \A u \in 0 .. np - 1 : Share(np, u, NUM_KEYS) \in SUBSET Indices
  BY KeySharesAre DEF Before, InBucket
<1>2. PICK m \in Nat : m = np - 1 - t /\ m - 1 = np - 2 - t /\ t + 1 + m = np
  <2>1. np - 1 - t \in Nat
    OBVIOUS
  <2> QED  BY <2>1
<1>3. \A k \in 0 .. m - 1 : g[k] = Cardinality(InBucket(a, b) \cap Share(np, t + 1 + k, NUM_KEYS))
  <2> SUFFICES ASSUME NEW k \in 0 .. m - 1 PROVE g[k] = Cardinality(InBucket(a, b) \cap Share(np, t + 1 + k, NUM_KEYS))
    OBVIOUS
  <2>1. t + 1 + k \in 0 .. np - 1 /\ k \in 0 .. np - 2 - t
    BY <1>2
  <2>2. PICK u \in 0 .. np - 1 : u = t + 1 + k
    BY <2>1
  <2>3. {i \in Share(np, u, NUM_KEYS) : BucketOf(a[i]) = b} = InBucket(a, b) \cap Share(np, u, NUM_KEYS)
    BY <1>1 DEF InBucket
  <2> QED  BY <2>1, <2>2, <2>3 DEF CountedShares, CountsBuckets
<1>4. SumTo(g, m) = Cardinality(S)
  <2>1. PICK s \in Nat : s = t + 1
    OBVIOUS
  <2>2. s + m <= np /\ OwnParts(g, np, InBucket(a, b), s, m)
    <3> HIDE DEF g, T, S
    <3>1. s + m <= np
      BY <1>2, <1>3, <2>1
    <3>2. OwnParts(g, np, InBucket(a, b), s, m)
      BY <1>2, <1>3, <2>1 DEF OwnParts
    <3> QED  BY <3>1, <3>2
  <2>3. SumTo(g, m) = Cardinality(OfShares(np, InBucket(a, b), s, m))
    <3> HIDE DEF g, T, S
    <3> QED  BY <1>1, <2>2, SharesAddUp
  <2>4. OfShares(np, InBucket(a, b), s, m) = S
    BY <1>1, <1>2, <2>1 DEF OfShares
  <2> QED  BY <2>3, <2>4
<1>5. Before(a, b + 1, 0) = T \cup S /\ T \cap S = {}
  <2>1. \A i \in Indices : BucketOf(a[i]) \in Nat
    BY BeforeIs
  <2> QED  BY <1>1, <2>1 DEF Before, InBucket
<1>6. IsFiniteSet(T) /\ IsFiniteSet(S)
  BY <1>1, Finite
<1> HIDE DEF T, S, g
<1>7. Cardinality(T \cup S) = Cardinality(T) + Cardinality(S)
  BY <1>5, <1>6, SizeOfTwo
<1> QED  BY <1>2, <1>4, <1>5, <1>7 DEF T, g, LaterSum

-----------------------------------------------------------------------------
(* The pointers of a thread.                                               *)

\* Behind the barrier all shares are counted.
LEMMA SharesAreCounted ==
  ASSUME OmpInv, phase = "rank", useBuckets, \A t \in Threads : pc[t] # "count"
  PROVE  CountedShares(team, K, work)
<1>1. \A t \in Threads : \A b \in Buckets : work[t][b] = Cardinality({i \in Mine(t) : BucketOf(K[i]) = b})
  BY DEF OmpInv, Counted
<1> QED  BY <1>1 DEF CountedShares, CountsBuckets, Mine, Threads

\* A thread computes where its keys go.
LEMMA PointersStep ==
  ASSUME OmpInv, NEW t \in Threads, Pointers(t)
  PROVE  OmpInv'
<1>1. /\ OmpType /\ Stages /\ Barriers /\ Created /\ Known /\ Counted /\ Pointed /\ Moved /\ Ranked /\ Added
      /\ SortedSoFar /\ Passed /\ Ended
  BY DEF OmpInv
<1>2. /\ phase = "rank" /\ phase' = "rank" /\ pc[t] = "ptrs"
      /\ \A u \in Threads : pc[u] \in {"ptrs", "scatter", "final"}
      /\ pc' = [pc EXCEPT ![t] = "scatter"] /\ idx' = [idx EXCEPT ![t] = 0]
      /\ bucket_ptrs' = [bucket_ptrs EXCEPT ![t] = [b \in Buckets |-> FirstSlot(t, b)]]
      /\ seed' = seed /\ team' = team /\ useBuckets' = useBuckets /\ round' = round
      /\ key_array' = key_array /\ key_buff1' = key_buff1 /\ key_buff2' = key_buff2 /\ work' = work
      /\ next' = next /\ partial_verify_vals' = partial_verify_vals
      /\ passed_verification' = passed_verification
  BY DEF Pointers, AllAt, input, verifying
<1>3. /\ team \in Nat \ {0} /\ DOMAIN pc = Threads /\ DOMAIN bucket_ptrs = Threads /\ idx \in [Threads -> Nat]
      /\ K' = K /\ K \in KeyArrays /\ key_array = K /\ Threads' = Threads
      /\ t \in Nat /\ First(t) \in Nat /\ First(t) <= First(t + 1) /\ First(t + 1) \in Nat
      /\ Mine(t) = First(t) .. First(t + 1) - 1
  BY <1>1, <1>2, SameKeys, KIs, MineIs DEF OmpType, Known
<1>4. useBuckets
  BY <1>1, <1>2 DEF OmpType, Stages
<1>5. /\ pc'[t] = "scatter" /\ idx'[t] = 0 /\ bucket_ptrs'[t] = [b \in Buckets |-> FirstSlot(t, b)]
      /\ \A u \in Threads : u # t => pc'[u] = pc[u] /\ idx'[u] = idx[u] /\ bucket_ptrs'[u] = bucket_ptrs[u]
  BY <1>2, <1>3
<1>6. \A b \in Buckets : FirstSlot(t, b) = Cardinality(Before(K, b, First(t)))
  <2> SUFFICES ASSUME NEW b \in Buckets PROVE FirstSlot(t, b) = Cardinality(Before(K, b, First(t)))
    OBVIOUS
  <2>1. CountedShares(team, K, work)
    BY <1>2, <1>4, SharesAreCounted
  <2>2. PICK np \in Nat \ {0} : np = team
    BY <1>3
  <2>3. b \in Nat /\ t \in 0 .. np - 1 /\ Threads = 0 .. np - 1
    BY <2>2 DEF Buckets, Threads
  <2>4. EarlierSum(np, work, t, b) = Cardinality(Before(K, b, FirstOf(np, t, NUM_KEYS)))
    BY <1>3, <2>1, <2>2, <2>3, FirstSlotIs
  <2> QED  BY <2>2, <2>3, <2>4 DEF FirstSlot, First, EarlierSum
<1>7. OmpType'
  BY <1>1, <1>2, <1>3, <1>5 DEF OmpType
<1>8. Stages'
  BY <1>1, <1>2, <1>3, <1>4, <1>5 DEF Stages
<1>9. Barriers'
  BY <1>1, <1>2, <1>3, <1>4, <1>5 DEF Barriers
<1>10. Created' /\ Known' /\ Ranked' /\ Added' /\ SortedSoFar' /\ Ended'
  BY <1>1, <1>2, <1>3, <1>4 DEF Created, Known, Ranked, Added, SortedSoFar, Ended
<1>11. Counted'
  BY <1>1, <1>2, <1>3, <1>4, SameKeys DEF Counted
<1>12. Pointed'
  <2>1. ASSUME NEW u \in Threads
        PROVE  /\ pc'[u] = "scatter" => First(u) + idx'[u] <= First(u + 1)
               /\ pc'[u] \in {"final", "rank", "done"} => First(u) + idx'[u] = First(u + 1)
               /\ pc'[u] \in {"scatter", "final"} =>
                    \A b \in Buckets : bucket_ptrs'[u][b] = Cardinality(Before(K, b, First(u) + idx'[u]))
               /\ ~(pc'[u] \in {"rank", "done"})
    <3>1. CASE u = t
      BY <1>3, <1>5, <1>6, <3>1
    <3>2. CASE u # t
      BY <1>1, <1>2, <1>4, <1>5, <3>2 DEF Pointed
    <3> QED  BY <3>1, <3>2
  <2> QED  BY <1>2, <1>3, <2>1, SameKeys DEF Pointed
<1>13. Moved'
  <2>1. ASSUME NEW u \in Threads, NEW i \in Mine(u), pc'[u] = "final" \/ (pc'[u] = "scatter" /\ i < First(u) + idx'[u])
        PROVE  key_buff2[PlaceOf(K, i)] = K[i]
    <3>1. CASE u = t
      BY <1>3, <1>5, <2>1, <3>1
    <3>2. CASE u # t
      BY <1>1, <1>2, <1>4, <1>5, <2>1, <3>2 DEF Moved
    <3> QED  BY <3>1, <3>2
  <2>2. \A u \in Threads : ~(pc'[u] \in {"rank", "done"})
    BY <1>2, <1>5
  <2> QED  BY <1>2, <1>3, <2>1, <2>2, SameKeys DEF Moved
<1>14. Passed'
  BY <1>1, <1>2, <1>3, SameKeys DEF Passed, Rounds
<1> QED  BY <1>7, <1>8, <1>9, <1>10, <1>11, <1>12, <1>13, <1>14 DEF OmpInv

-----------------------------------------------------------------------------
(* The threads move the keys.                                              *)

\* How many numbers are in an interval.
LEMMA IntervalSize ==
  ASSUME NEW x \in Nat, NEW y \in Nat, x <= y
  PROVE  Cardinality(x .. y - 1) = y - x
<1>1. x \in Int /\ y - 1 \in Int
  OBVIOUS
<1>2. Cardinality(x .. y - 1) = IF x > y - 1 THEN 0 ELSE (y - 1) - x + 1
  BY <1>1, FS_Interval
<1> QED  BY <1>2

\* The element of S that n elements come before.
NextOf(S, n) == CHOOSE i \in S : Cardinality({j \in S : j < i}) = n

\* In an interval it is the n-th number.
LEMMA NextToMove ==
  ASSUME NEW x \in Nat, NEW y \in Nat, NEW n \in Nat, x + n < y
  PROVE  NextOf(x .. y - 1, n) = x + n
<1> DEFINE Before1(i) == {j \in x .. y - 1 : j < i}
<1>1. \A i \in x .. y - 1 : Cardinality(Before1(i)) = i - x
  <2> SUFFICES ASSUME NEW i \in x .. y - 1 PROVE Cardinality(Before1(i)) = i - x
    OBVIOUS
  <2>1. Before1(i) = x .. i - 1 /\ i \in Nat /\ x <= i
    OBVIOUS
  <2> HIDE DEF Before1
  <2> QED  BY <2>1, IntervalSize
<1> HIDE DEF Before1
<1>2. \A i \in x .. y - 1 : Cardinality(Before1(i)) = n <=> i = x + n
  BY <1>1
<1>3. x + n \in x .. y - 1
  OBVIOUS
<1>4. (CHOOSE i \in x .. y - 1 : Cardinality(Before1(i)) = n) = x + n
  BY <1>2, <1>3
<1> QED  BY <1>4 DEF Before1, NextOf

\* A thread moves its next key: nobody else moves one to that place.
LEMMA ScatterStep ==
  ASSUME OmpInv, NEW t \in Threads, Scatter(t)
  PROVE  OmpInv'
<1> DEFINE F == First(t)
           G == First(t + 1)
           n == idx[t]
           i == CHOOSE i \in ToMove(t) : Cardinality({j \in ToMove(t) : j < i}) = n
           b == BucketOf(key_array[i])
<1>1. /\ OmpType /\ Stages /\ Barriers /\ Created /\ Known /\ Counted /\ Pointed /\ Moved /\ Ranked /\ Added
      /\ SortedSoFar /\ Passed /\ Ended
  BY DEF OmpInv
<1>2. /\ phase = "rank" /\ phase' = "rank" /\ pc[t] = "scatter"
      /\ \/ /\ n < Cardinality(ToMove(t))
            /\ key_buff2' = [key_buff2 EXCEPT ![bucket_ptrs[t][b]] = key_array[i]]
            /\ bucket_ptrs' = [bucket_ptrs EXCEPT ![t][b] = @ + 1]
            /\ idx' = [idx EXCEPT ![t] = @ + 1] /\ pc' = pc
         \/ /\ ~(n < Cardinality(ToMove(t)))
            /\ pc' = [pc EXCEPT ![t] = "final"]
            /\ key_buff2' = key_buff2 /\ bucket_ptrs' = bucket_ptrs /\ idx' = idx
      /\ seed' = seed /\ team' = team /\ useBuckets' = useBuckets /\ round' = round
      /\ key_array' = key_array /\ key_buff1' = key_buff1 /\ work' = work
      /\ next' = next /\ partial_verify_vals' = partial_verify_vals
      /\ passed_verification' = passed_verification
  BY DEF Scatter, input, verifying
<1>3. /\ team \in Nat \ {0} /\ DOMAIN pc = Threads /\ DOMAIN bucket_ptrs = Threads /\ idx \in [Threads -> Nat]
      /\ DOMAIN bucket_ptrs[t] = Buckets /\ DOMAIN key_buff2 = Indices
      /\ K' = K /\ K \in KeyArrays /\ key_array = K /\ Threads' = Threads
      /\ t \in Nat /\ F \in Nat /\ F <= G /\ G \in Nat /\ n \in Nat
      /\ Mine(t) = F .. G - 1 /\ ToMove(t) = F .. G - 1 /\ Mine(t) \in SUBSET Indices
  BY <1>1, <1>2, SameKeys, KIs, MineIs DEF OmpType, Known
<1>4. useBuckets
  BY <1>1, <1>2 DEF OmpType, Stages
<1>5. /\ F + n <= G
      /\ \A c \in Buckets : bucket_ptrs[t][c] = Cardinality(Before(K, c, F + n))
  BY <1>1, <1>2, <1>4 DEF Pointed
<1>6. Cardinality(ToMove(t)) = G - F
  BY <1>3, IntervalSize
<1>7. Created' /\ Known' /\ Ranked' /\ Added' /\ SortedSoFar' /\ Ended'
  BY <1>1, <1>2, <1>3, <1>4 DEF Created, Known, Ranked, Added, SortedSoFar, Ended
<1>8. Passed'
  BY <1>1, <1>2, <1>3, SameKeys DEF Passed, Rounds
<1>9. CASE n < Cardinality(ToMove(t))
  <2>1. i = F + n
    <3>1. i = NextOf(F .. G - 1, n)
      BY <1>3 DEF NextOf
    <3>2. F + n < G
      BY <1>3, <1>6, <1>9
    <3> HIDE DEF i, F, G, n
    <3> QED  BY <1>3, <3>1, <3>2, NextToMove
  <2>2. PICK x \in Nat : x = F + n /\ x \in Indices /\ x \in Mine(t)
    BY <1>3, <1>6, <1>9
  <2> HIDE DEF i
  <2>3. i = x /\ b = BucketOf(K[x]) /\ b \in Buckets
    BY <1>3, <2>1, <2>2, BeforeIs
  <2>4. bucket_ptrs[t][b] = PlaceOf(K, x)
    BY <1>5, <2>2, <2>3 DEF PlaceOf
  <2> HIDE DEF b
  <2>5. /\ key_buff2' = [key_buff2 EXCEPT ![PlaceOf(K, x)] = K[x]]
        /\ bucket_ptrs' = [bucket_ptrs EXCEPT ![t][b] = @ + 1]
        /\ idx' = [idx EXCEPT ![t] = n + 1] /\ pc' = pc
    BY <1>2, <1>3, <1>9, <2>3, <2>4
  <2> HIDE DEF F, G, n
  <2>6. OmpType'
    BY <1>1, <1>2, <1>3, <2>5 DEF OmpType
  <2>7. Stages' /\ Barriers' /\ Counted'
    <3>1. Stages' /\ Barriers'
      BY <1>1, <1>2, <1>3, <2>5 DEF Stages, Barriers
    <3>2. Counted'
      <4>1. \A u \in Threads : pc'[u] # "count" =>
              \A c \in Buckets : work'[u][c] = Cardinality({j \in Mine(u) : BucketOf(K[j]) = c})
        BY <1>1, <1>2, <1>4, <2>5 DEF Counted
      <4> QED  BY <1>2, <1>3, <4>1, SameKeys DEF Counted
    <3> QED  BY <3>1, <3>2
  <2>8. Pointed'
    <3>1. ASSUME NEW c \in Buckets PROVE bucket_ptrs'[t][c] = Cardinality(Before(K, c, x + 1))
      <4>1. c \in Nat
        BY DEF Buckets
      <4>2. Cardinality(Before(K, c, x + 1)) = Cardinality(Before(K, c, x)) + IF BucketOf(K[x]) = c THEN 1 ELSE 0
        BY <1>3, <2>2, <4>1, BeforeNext
      <4>3. bucket_ptrs'[t][c] = IF c = b THEN bucket_ptrs[t][c] + 1 ELSE bucket_ptrs[t][c]
        BY <1>3, <2>5
      <4>4. Cardinality(Before(K, c, x)) \in Nat
        BY <1>3, BeforeIs
      <4> QED  BY <1>5, <2>2, <2>3, <4>2, <4>3, <4>4
    <3>2. \A u \in Threads : u # t => idx'[u] = idx[u] /\ bucket_ptrs'[u] = bucket_ptrs[u]
      BY <1>3, <2>5
    <3>3. idx'[t] = n + 1 /\ F + (n + 1) = x + 1 /\ x + 1 <= G
      BY <1>3, <1>6, <1>9, <2>2, <2>5, SMTT(60)
    <3>4. ASSUME NEW u \in Threads
          PROVE  /\ pc'[u] = "scatter" => First(u) + idx'[u] <= First(u + 1)
                 /\ pc'[u] \in {"final", "rank", "done"} => First(u) + idx'[u] = First(u + 1)
                 /\ pc'[u] \in {"scatter", "final"} =>
                      \A c \in Buckets : bucket_ptrs'[u][c] = Cardinality(Before(K, c, First(u) + idx'[u]))
                 /\ pc'[u] \in {"rank", "done"} =>
                      \A c \in Buckets : bucket_ptrs'[u][c] = Cardinality(Before(K, c + 1, 0))
      <4>1. CASE u = t
        BY <1>2, <2>5, <3>1, <3>3, <4>1 DEF F, G
      <4>2. CASE u # t
        BY <1>1, <1>2, <1>4, <2>5, <3>2, <4>2 DEF Pointed
      <4> QED  BY <4>1, <4>2
    <3> QED  BY <1>2, <1>3, <3>4, SameKeys DEF Pointed
  <2>9. Moved'
    <3>1. PlaceOf(K, x) \in Indices /\ \A j \in Indices : PlaceOf(K, j) = PlaceOf(K, x) => j = x
      BY <1>3, <2>2, PlacesAre
    <3>2. ASSUME NEW u \in Threads, NEW j \in Mine(u),
                 pc'[u] \in {"final", "rank", "done"} \/ (pc'[u] = "scatter" /\ j < First(u) + idx'[u])
          PROVE  key_buff2'[PlaceOf(K, j)] = K[j]
      <4>1. CASE j = x
        BY <1>3, <2>5, <3>1, <4>1
      <4>2. CASE j # x
        <5>1. j \in Indices /\ PlaceOf(K, j) # PlaceOf(K, x)
          BY <1>3, <3>1, <4>2, MineIs
        <5>2. key_buff2'[PlaceOf(K, j)] = key_buff2[PlaceOf(K, j)]
          BY <2>5, <5>1
        <5>3. pc[u] = "scatter" /\ j < First(u) + idx'[u] => j < First(u) + idx[u]
          <6>1. CASE u = t
            <7>1. j \in F .. G - 1 /\ (j < F + (n + 1) => j < F + n)
              BY <1>3, <2>2, <4>2, <6>1
            <7> QED  BY <1>3, <2>5, <6>1, <7>1 DEF F, n
          <6>2. CASE u # t
            BY <1>3, <2>5, <6>2
          <6> QED  BY <6>1, <6>2
        <5>4. key_buff2[PlaceOf(K, j)] = K[j]
          BY <1>1, <1>2, <1>4, <2>5, <3>2, <5>3 DEF Moved
        <5> QED  BY <5>2, <5>4
      <4> QED  BY <4>1, <4>2
    <3> QED  BY <1>2, <1>3, <3>2, SameKeys DEF Moved
  <2> QED  BY <1>7, <1>8, <2>6, <2>7, <2>8, <2>9 DEF OmpInv
<1>10. CASE ~(n < Cardinality(ToMove(t)))
  <2>1. F + n = G
    BY <1>3, <1>5, <1>6, <1>10
  <2>2. /\ pc' = [pc EXCEPT ![t] = "final"] /\ key_buff2' = key_buff2 /\ bucket_ptrs' = bucket_ptrs /\ idx' = idx
    BY <1>2, <1>10
  <2> HIDE DEF F, G, n, i, b
  <2>3. pc'[t] = "final" /\ \A u \in Threads : u # t => pc'[u] = pc[u]
    BY <1>3, <2>2
  <2>4. OmpType'
    BY <1>1, <1>2, <1>3, <2>2 DEF OmpType
  <2>5. Stages' /\ Counted'
    BY <1>1, <1>2, <1>3, <1>4, <2>2, <2>3, SameKeys DEF Stages, Counted
  <2>6. Barriers'
    BY <1>1, <1>2, <1>3, <1>4, <2>3 DEF Barriers
  <2>7. Pointed'
    <3>1. ASSUME NEW u \in Threads
          PROVE  /\ pc'[u] = "scatter" => First(u) + idx[u] <= First(u + 1)
                 /\ pc'[u] \in {"final", "rank", "done"} => First(u) + idx[u] = First(u + 1)
                 /\ pc'[u] \in {"scatter", "final"} =>
                      \A c \in Buckets : bucket_ptrs[u][c] = Cardinality(Before(K, c, First(u) + idx[u]))
                 /\ pc'[u] \in {"rank", "done"} =>
                      \A c \in Buckets : bucket_ptrs[u][c] = Cardinality(Before(K, c + 1, 0))
      <4>1. CASE u = t
        BY <1>5, <2>1, <2>3, <4>1 DEF F, G, n
      <4>2. CASE u # t
        BY <1>1, <1>2, <1>4, <2>3, <4>2 DEF Pointed
      <4> QED  BY <4>1, <4>2
    <3> QED  BY <1>2, <1>3, <2>2, <3>1, SameKeys DEF Pointed
  <2>8. Moved'
    <3>1. ASSUME NEW u \in Threads, NEW j \in Mine(u),
                 pc'[u] \in {"final", "rank", "done"} \/ (pc'[u] = "scatter" /\ j < First(u) + idx[u])
          PROVE  key_buff2[PlaceOf(K, j)] = K[j]
      <4>1. CASE u = t
        <5>1. j < F + n
          BY <1>3, <2>1, <4>1
        <5> QED  BY <1>1, <1>2, <1>4, <4>1, <5>1 DEF Moved, F, n
      <4>2. CASE u # t
        BY <1>1, <1>2, <1>4, <2>3, <3>1, <4>2 DEF Moved
      <4> QED  BY <4>1, <4>2
    <3> QED  BY <1>2, <1>3, <2>2, <3>1, SameKeys DEF Moved
  <2> QED  BY <1>7, <1>8, <2>4, <2>5, <2>6, <2>7, <2>8 DEF OmpInv
<1> QED  BY <1>9, <1>10

-----------------------------------------------------------------------------
(* The threads rank the buckets.                                           *)

\* Behind the last key a thread moves its pointers to the ends of the buckets.
LEMMA FinalStep ==
  ASSUME OmpInv, NEW t \in Threads, FinalSizes(t)
  PROVE  OmpInv'
<1>1. /\ OmpType /\ Stages /\ Barriers /\ Created /\ Known /\ Counted /\ Pointed /\ Moved /\ Ranked /\ Added
      /\ SortedSoFar /\ Passed /\ Ended
  BY DEF OmpInv
<1>2. /\ phase = "rank" /\ phase' = "rank" /\ pc[t] = "final"
      /\ \A u \in Threads : pc[u] \in {"final", "rank", "done"}
      /\ pc' = [pc EXCEPT ![t] = "rank"]
      /\ bucket_ptrs' = [bucket_ptrs EXCEPT ![t] = [b \in Buckets |->
           bucket_ptrs[t][b] + SumTo([k \in 0 .. team - 2 - t |-> work[t + 1 + k][b]], team - 1 - t)]]
      /\ seed' = seed /\ team' = team /\ useBuckets' = useBuckets /\ round' = round
      /\ key_array' = key_array /\ key_buff1' = key_buff1 /\ key_buff2' = key_buff2 /\ work' = work
      /\ idx' = idx /\ next' = next /\ partial_verify_vals' = partial_verify_vals
      /\ passed_verification' = passed_verification
  BY DEF FinalSizes, AllAt, input, verifying
<1>3. /\ team \in Nat \ {0} /\ DOMAIN pc = Threads /\ DOMAIN bucket_ptrs = Threads
      /\ K' = K /\ K \in KeyArrays /\ key_array = K /\ Threads' = Threads /\ t \in Nat
  BY <1>1, <1>2, SameKeys, KIs, MineIs DEF OmpType, Known
<1>4. useBuckets
  BY <1>1, <1>2 DEF OmpType, Stages
<1>5. /\ pc'[t] = "rank" /\ DOMAIN bucket_ptrs'[t] = Buckets
      /\ \A b \in Buckets : bucket_ptrs'[t][b] = bucket_ptrs[t][b] + LaterSum(team, work, t, b)
      /\ \A u \in Threads : u # t => pc'[u] = pc[u] /\ bucket_ptrs'[u] = bucket_ptrs[u]
  BY <1>2, <1>3 DEF LaterSum
<1>6. \A b \in Buckets : bucket_ptrs'[t][b] = Cardinality(Before(K, b + 1, 0))
  <2> SUFFICES ASSUME NEW b \in Buckets PROVE bucket_ptrs'[t][b] = Cardinality(Before(K, b + 1, 0))
    OBVIOUS
  <2>1. bucket_ptrs[t][b] = Cardinality(Before(K, b, First(t + 1)))
    BY <1>1, <1>2, <1>4 DEF Pointed
  <2>2. CountedShares(team, K, work)
    BY <1>2, <1>4, SharesAreCounted
  <2>3. PICK np \in Nat \ {0} : np = team
    BY <1>3
  <2>4. b \in Nat /\ t \in 0 .. np - 1
    BY <2>3 DEF Buckets, Threads
  <2>5. Cardinality(Before(K, b, FirstOf(np, t + 1, NUM_KEYS))) + LaterSum(np, work, t, b) = Cardinality(Before(K, b + 1, 0))
    BY <1>3, <2>2, <2>3, <2>4, LastSlotIs
  <2> QED  BY <1>5, <2>1, <2>3, <2>5 DEF First
<1>7. OmpType'
  BY <1>1, <1>2, <1>3, <1>5 DEF OmpType
<1>8. Stages'
  BY <1>1, <1>2, <1>3, <1>4, <1>5 DEF Stages
<1>9. Barriers'
  BY <1>1, <1>2, <1>3, <1>4, <1>5 DEF Barriers
<1>10. Created' /\ Known' /\ Ranked' /\ Added' /\ SortedSoFar' /\ Ended'
  BY <1>1, <1>2, <1>3, <1>4 DEF Created, Known, Ranked, Added, SortedSoFar, Ended
<1>11. Counted'
  <2>1. \A u \in Threads : \A b \in Buckets : work'[u][b] = Cardinality({i \in Mine(u) : BucketOf(K[i]) = b})
    BY <1>1, <1>2, <1>4 DEF Counted
  <2> QED  BY <1>2, <1>3, <2>1, SameKeys DEF Counted
<1>12. Pointed'
  <2>1. ASSUME NEW u \in Threads
        PROVE  /\ pc'[u] = "scatter" => First(u) + idx'[u] <= First(u + 1)
               /\ pc'[u] \in {"final", "rank", "done"} => First(u) + idx'[u] = First(u + 1)
               /\ pc'[u] \in {"scatter", "final"} =>
                    \A b \in Buckets : bucket_ptrs'[u][b] = Cardinality(Before(K, b, First(u) + idx'[u]))
               /\ pc'[u] \in {"rank", "done"} =>
                    \A b \in Buckets : bucket_ptrs'[u][b] = Cardinality(Before(K, b + 1, 0))
    <3>1. CASE u = t
      BY <1>1, <1>2, <1>4, <1>5, <1>6, <3>1 DEF Pointed
    <3>2. CASE u # t
      BY <1>1, <1>2, <1>4, <1>5, <3>2 DEF Pointed
    <3> QED  BY <3>1, <3>2
  <2> QED  BY <1>2, <1>3, <2>1, SameKeys DEF Pointed
<1>13. Moved'
  <2>1. \A u \in Threads : \A i \in Mine(u) : key_buff2[PlaceOf(K, i)] = K[i]
    BY <1>1, <1>2, <1>4 DEF Moved
  <2> QED  BY <1>2, <1>3, <2>1, SameKeys DEF Moved
<1>14. Passed'
  BY <1>1, <1>2, <1>3, SameKeys DEF Passed, Rounds
<1> QED  BY <1>7, <1>8, <1>9, <1>10, <1>11, <1>12, <1>13, <1>14 DEF OmpInv

\* When the pointers are at the ends of the buckets, the places between them are
\* those of the keys of the bucket.
LEMMA SlotsAre ==
  ASSUME K \in KeyArrays, NEW t, \A c \in Buckets : bucket_ptrs[t][c] = Cardinality(Before(K, c + 1, 0)),
         NEW b \in Nat, b \in Buckets
  PROVE  /\ Slots(t, b) = SlotsOf(K, b)
         /\ (IF b = 0 THEN 0 ELSE bucket_ptrs[t][b - 1]) = Cardinality(Before(K, b, 0))
<1>1. (IF b = 0 THEN 0 ELSE bucket_ptrs[t][b - 1]) = Cardinality(Before(K, b, 0))
  <2>1. CASE b = 0
    <3>1. \A j \in Indices : j \in Nat /\ BucketOf(K[j]) \in Nat
      BY Sizes, BeforeIs DEF Indices
    <3>2. Before(K, b, 0) = {}
      BY <2>1, <3>1 DEF Before
    <3> QED  BY <2>1, <3>2, FS_EmptySet
  <2>2. CASE b # 0
    <3>1. PICK c \in Nat : c = b - 1 /\ b = c + 1
      BY <2>2
    <3>2. c \in Buckets
      BY <3>1, Sizes DEF Buckets
    <3> QED  BY <2>2, <3>1, <3>2
  <2> QED  BY <2>1, <2>2
<1>2. bucket_ptrs[t][b] = Cardinality(Before(K, b + 1, 0))
  OBVIOUS
<1> QED  BY <1>1, <1>2 DEF Slots, SlotsOf

\* A thread takes a bucket: when all keys are in their places, the keys it finds
\* there are those of the bucket.
LEMMA RankBucketStep ==
  ASSUME OmpInv, NEW t \in Threads, RankBucket(t)
  PROVE  OmpInv'
<1>1. /\ OmpType /\ Stages /\ Barriers /\ Created /\ Known /\ Counted /\ Pointed /\ Moved /\ Ranked /\ Added
      /\ SortedSoFar /\ Passed /\ Ended
  BY DEF OmpInv
<1>2. /\ phase = "rank" /\ phase' = "rank" /\ pc[t] = "rank"
      /\ \/ next = NUM_BUCKETS /\ pc' = [pc EXCEPT ![t] = "done"] /\ key_buff1' = key_buff1 /\ next' = next
         \/ /\ next # NUM_BUCKETS /\ next' = next + 1 /\ pc' = pc
            /\ key_buff1' = [v \in KeyRange |->
                 IF v \in KeysOf(next)
                 THEN (IF next = 0 THEN 0 ELSE bucket_ptrs[t][next - 1]) + Cardinality({k \in Slots(t, next) : key_buff2[k] <= v})
                 ELSE key_buff1[v]]
      /\ seed' = seed /\ team' = team /\ useBuckets' = useBuckets /\ round' = round
      /\ key_array' = key_array /\ key_buff2' = key_buff2 /\ work' = work /\ bucket_ptrs' = bucket_ptrs
      /\ idx' = idx /\ partial_verify_vals' = partial_verify_vals
      /\ passed_verification' = passed_verification
  BY DEF RankBucket, input, verifying
<1>3. /\ team \in Nat \ {0} /\ DOMAIN pc = Threads /\ next \in Nat /\ next \in 0 .. NUM_BUCKETS /\ NUM_BUCKETS \in Nat
      /\ K' = K /\ K \in KeyArrays /\ key_array = K /\ Threads' = Threads
  BY <1>1, <1>2, SameKeys, KIs, Sizes DEF OmpType, Known
<1>4. useBuckets
  BY <1>1, <1>2 DEF OmpType, Stages
<1>5. \A u \in Threads : pc[u] \in {"final", "rank", "done"} /\ pc'[u] \in {"final", "rank", "done"}
  <2>1. \A u \in Threads : pc[u] \in {"final", "rank", "done"}
    BY <1>1, <1>2, <1>4 DEF Barriers
  <2> QED  BY <1>2, <1>3, <2>1
<1>6. \A u \in Threads : (pc[u] = "rank" /\ pc'[u] \in {"rank", "done"}) \/ pc'[u] = pc[u]
  BY <1>2, <1>3
<1>7. Placed(K, key_buff2)
  BY <1>1, <1>2, <1>3, <1>4, <1>5, MineIs DEF Moved, Placed
<1>8. OmpType'
  BY <1>1, <1>2, <1>3 DEF OmpType
<1>9. Stages'
  BY <1>1, <1>2, <1>3, <1>4, <1>5 DEF Stages
<1>10. Barriers'
  <2>1. \A u \in Threads : pc'[u] = "done" => next' = NUM_BUCKETS
    BY <1>1, <1>2, <1>3, <1>4 DEF Barriers
  <2> QED  BY <1>2, <1>3, <1>4, <1>5, <2>1 DEF Barriers
<1>11. Created' /\ Known' /\ Added' /\ SortedSoFar' /\ Ended'
  BY <1>1, <1>2, <1>3, <1>4 DEF Created, Known, Added, SortedSoFar, Ended
<1>12. Counted'
  <2>1. \A u \in Threads : \A b \in Buckets : work'[u][b] = Cardinality({i \in Mine(u) : BucketOf(K[i]) = b})
    BY <1>1, <1>2, <1>4, <1>5 DEF Counted
  <2> QED  BY <1>2, <1>3, <2>1, SameKeys DEF Counted
<1>13. Pointed'
  <2>1. ASSUME NEW u \in Threads
        PROVE  /\ pc'[u] # "scatter"
               /\ First(u) + idx'[u] = First(u + 1)
               /\ pc'[u] = "final" =>
                    \A b \in Buckets : bucket_ptrs'[u][b] = Cardinality(Before(K, b, First(u) + idx'[u]))
               /\ pc'[u] \in {"rank", "done"} =>
                    \A b \in Buckets : bucket_ptrs'[u][b] = Cardinality(Before(K, b + 1, 0))
    BY <1>1, <1>2, <1>4, <1>5, <1>6 DEF Pointed
  <2> QED  BY <1>2, <1>3, <2>1, SameKeys DEF Pointed
<1>14. Moved'
  <2>1. \A u \in Threads : \A i \in Mine(u) : key_buff2[PlaceOf(K, i)] = K[i]
    BY <1>3, <1>7, MineIs DEF Placed
  <2> QED  BY <1>2, <1>3, <2>1, SameKeys DEF Moved
<1>15. Ranked'
  <2>1. CASE next = NUM_BUCKETS
    BY <1>1, <1>2, <1>3, <1>4, <2>1 DEF Ranked
  <2>2. CASE next # NUM_BUCKETS
    <3>1. next \in Buckets
      BY <1>3, <2>2 DEF Buckets
    <3>2. \A c \in Buckets : bucket_ptrs[t][c] = Cardinality(Before(K, c + 1, 0))
      BY <1>1, <1>2, <1>4 DEF Pointed
    <3>3. /\ Slots(t, next) = SlotsOf(K, next)
          /\ (IF next = 0 THEN 0 ELSE bucket_ptrs[t][next - 1]) = Cardinality(Before(K, next, 0))
      BY <1>3, <3>1, <3>2, SlotsAre
    <3>4. ASSUME NEW v \in KeyRange, BucketOf(v) < next + 1 PROVE key_buff1'[v] = RankOf(K, v)
      <4>1. BucketOf(v) \in Nat /\ (v \in KeysOf(next) <=> BucketOf(v) = next)
        BY <3>1, BucketIs DEF Buckets
      <4>2. CASE BucketOf(v) = next
        <5>1. Cardinality(SlotsUpTo(K, key_buff2, next, v)) = Cardinality(UpTo(K, next, v))
          BY <1>3, <1>7, <3>1, SlotsHold
        <5>2. RankOf(K, v) = Cardinality(Before(K, next, 0)) + Cardinality(UpTo(K, next, v))
          BY <1>3, <3>1, <4>2, RankInBucket
        <5>3. key_buff1'[v] = (IF next = 0 THEN 0 ELSE bucket_ptrs[t][next - 1]) + Cardinality({k \in Slots(t, next) : key_buff2[k] <= v})
          BY <1>2, <2>2, <4>1, <4>2
        <5> QED  BY <3>3, <5>1, <5>2, <5>3 DEF SlotsUpTo
      <4>3. CASE BucketOf(v) # next
        <5>1. key_buff1'[v] = key_buff1[v]
          BY <1>2, <2>2, <4>1, <4>3
        <5>2. BucketOf(v) < next
          BY <1>3, <3>4, <4>1, <4>3
        <5> QED  BY <1>1, <1>2, <1>4, <5>1, <5>2 DEF Ranked
      <4> QED  BY <4>2, <4>3
    <3>5. next' = next + 1
      BY <1>2, <2>2
    <3> QED  BY <1>2, <1>3, <1>4, <3>4, <3>5 DEF Ranked
  <2> QED  BY <2>1, <2>2
<1>16. Passed'
  BY <1>1, <1>2, <1>3, SameKeys DEF Passed, Rounds
<1> QED  BY <1>8, <1>9, <1>10, <1>11, <1>12, <1>13, <1>14, <1>15, <1>16 DEF OmpInv

-----------------------------------------------------------------------------
(* Verification.                                                           *)

\* The number of test keys that are right in a call of rank().
LEMMA TestsAre ==
  ASSUME NEW L, L = Len(test_index_array), NEW P, NEW right, right = {i \in DOMAIN test_index_array : i \in P}
  PROVE  /\ L \in Nat /\ Cardinality(right) \in Nat /\ Cardinality(right) <= L
         /\ Cardinality(right) = L <=> \A i \in DOMAIN test_index_array : i \in P
<1>1. L \in Nat /\ DOMAIN test_index_array = 1 .. L
  BY SizesAssumption
<1>2. IsFiniteSet(1 .. L) /\ Cardinality(1 .. L) = L
  <2>1. 1 \in Int /\ L \in Int
    BY <1>1
  <2>2. IsFiniteSet(1 .. L) /\ Cardinality(1 .. L) = IF 1 > L THEN 0 ELSE L - 1 + 1
    BY <2>1, FS_Interval
  <2> QED  BY <1>1, <2>2
<1>3. right \subseteq 1 .. L
  BY <1>1
<1>4. IsFiniteSet(right) /\ Cardinality(right) <= Cardinality(1 .. L) /\ (Cardinality(right) = Cardinality(1 .. L) => right = 1 .. L)
  BY <1>2, <1>3, FS_Subset
<1>5. Cardinality(right) \in Nat
  BY <1>4, FS_CardinalityType
<1> QED  BY <1>1, <1>2, <1>3, <1>4, <1>5

\* The test keys are compared: only those that are in range count.
LEMMA VerifyStep ==
  ASSUME OmpInv, PartialVerify
  PROVE  OmpInv'
<1> DEFINE right == {i \in DOMAIN partial_verify_vals :
                       LET k == partial_verify_vals[i] IN
                       0 < k /\ k <= NUM_KEYS - 1 /\ key_buff1[k - 1] = TableRank(seed, round, i)}
           L == Len(test_index_array)
           c == Cardinality(right)
<1>1. /\ OmpType /\ Stages /\ Barriers /\ Created /\ Known /\ Counted /\ Pointed /\ Moved /\ Ranked /\ Added
      /\ SortedSoFar /\ Passed /\ Ended
  BY DEF OmpInv
<1>2. /\ phase = "rank" /\ phase' = "verified" /\ \A t \in Threads : pc[t] = "done"
      /\ passed_verification' = passed_verification + c
      /\ seed' = seed /\ team' = team /\ useBuckets' = useBuckets /\ round' = round
      /\ key_array' = key_array /\ key_buff1' = key_buff1 /\ key_buff2' = key_buff2 /\ work' = work
      /\ bucket_ptrs' = bucket_ptrs /\ pc' = pc /\ idx' = idx /\ next' = next
      /\ partial_verify_vals' = partial_verify_vals
  BY DEF PartialVerify, AllAt, input
<1>3. /\ seed \in 0 .. Wrap - 1 /\ team \in Nat \ {0} /\ useBuckets \in BOOLEAN /\ round \in 0 .. MAX_ITERATIONS
      /\ round \in Nat /\ MAX_ITERATIONS \in Nat /\ NUM_BUCKETS \in Nat /\ NUM_KEYS \in Nat /\ MAX_KEY \in Nat
      /\ K' = K /\ K \in KeyArrays /\ key_array = K /\ Threads' = Threads /\ 0 \in Threads
  BY <1>1, <1>2, SameKeys, KIs, MineIs, Sizes, SizesAssumption DEF OmpType, Known
<1>4. \A v \in KeyRange : key_buff1[v] = RankOf(K, v)
  <2>1. CASE useBuckets
    <3>1. next = NUM_BUCKETS
      BY <1>1, <1>2, <1>3, <2>1 DEF Barriers
    <3>2. \A v \in KeyRange : BucketOf(v) < NUM_BUCKETS
      BY <1>3, BucketIs DEF Buckets
    <3> QED  BY <1>1, <1>2, <2>1, <3>1, <3>2 DEF Ranked
  <2>2. CASE ~useBuckets
    <3> SUFFICES ASSUME NEW v \in KeyRange PROVE key_buff1[v] = RankOf(K, v)
      OBVIOUS
    <3>1. PICK t \in Threads : v \in Share(team, t, MAX_KEY)
      BY <1>3, ValuesAre
    <3>2. pc[0] # "count" /\ pc[t] = "done"
      BY <1>2, <1>3
    <3> QED  BY <1>1, <1>2, <2>2, <3>1, <3>2 DEF Added
  <2> QED  BY <1>3, <2>1, <2>2
<1>5. OmpType'
  BY <1>1, <1>2, <1>3 DEF OmpType
<1>6. Stages' /\ Barriers' /\ Created' /\ Known' /\ Counted' /\ Added' /\ SortedSoFar' /\ Ended'
  BY <1>2, <1>3 DEF Stages, Barriers, Created, Known, Counted, Added, SortedSoFar, Ended
<1>7. Pointed'
  <2>1. useBuckets => \A u \in Threads : \A b \in Buckets : bucket_ptrs[u][b] = Cardinality(Before(K, b + 1, 0))
    BY <1>1, <1>2 DEF Pointed
  <2> QED  BY <1>2, <1>3, <2>1 DEF Pointed
<1>8. Moved'
  <2>1. useBuckets => \A u \in Threads : \A i \in Mine(u) : key_buff2[PlaceOf(K, i)] = K[i]
    BY <1>1, <1>2 DEF Moved
  <2> QED  BY <1>2, <1>3, <2>1, SameKeys DEF Moved
<1>9. Ranked'
  BY <1>2, <1>3, <1>4 DEF Ranked
<1>10. right = {i \in DOMAIN test_index_array : K[test_index_array[i]] \in 1 .. NUM_KEYS - 1}
  <2>1. partial_verify_vals = [i \in DOMAIN test_index_array |-> K[test_index_array[i]]]
    BY <1>1, <1>2 DEF Passed
  <2>2. ASSUME NEW i \in DOMAIN test_index_array
        PROVE  /\ K[test_index_array[i]] \in Nat
               /\ 0 < K[test_index_array[i]] => key_buff1[K[test_index_array[i]] - 1] = TableRank(seed, round, i)
    <3>1. test_index_array[i] \in Indices
      <4>1. test_index_array \in Seq(Indices)
        BY SizesAssumption DEF Indices
      <4>2. \A S : \A q \in Seq(S) : \A j \in DOMAIN q : q[j] \in S
        OBVIOUS
      <4> QED  BY <4>1, <4>2
    <3>2. PICK k \in Nat : k = K[test_index_array[i]] /\ k \in KeyRange
      BY <1>3, <3>1, KeysAreNumbers
    <3>3. 0 < k => k - 1 \in KeyRange
      BY <1>3, <3>2 DEF KeyRange
    <3>4. TableRank(seed, round, i) = RankOf(K, k - 1)
      BY <3>2 DEF TableRank, K
    <3> QED  BY <1>4, <3>2, <3>3, <3>4
  <2> QED  BY <1>3, <2>1, <2>2
<1> HIDE DEF right
<1>11. L \in Nat /\ c \in Nat /\ c <= L /\ (c = L <=> Tested(round))
  <2> DEFINE P == {i \in DOMAIN test_index_array : K[test_index_array[i]] \in 1 .. NUM_KEYS - 1}
  <2>1. right = {i \in DOMAIN test_index_array : i \in P}
    BY <1>10
  <2>2. (\A i \in DOMAIN test_index_array : i \in P) <=> Tested(round)
    BY DEF Tested, K
  <2> HIDE DEF P
  <2> QED  BY <2>1, <2>2, TestsAre
<1> HIDE DEF c
<1>12. Passed'
  <2>1. passed_verification \in Nat /\ passed_verification' \in Nat
    BY <1>1, <1>2, <1>11 DEF Passed
  <2>2. ASSUME round > 0
        PROVE  /\ passed_verification' <= L * round
               /\ passed_verification' = L * round <=> \A r \in 1 .. round : Tested(r)
    <3>1. /\ passed_verification <= L * (round - 1)
          /\ passed_verification = L * (round - 1) <=> \A r \in 1 .. round - 1 : Tested(r)
      BY <1>1, <1>2, <2>2 DEF Passed, Rounds
    <3>2. PICK x \in Nat : x = L * (round - 1) /\ L * round = x + L
      <4>1. PICK k \in Nat : round = k + 1 /\ round - 1 = k
        BY <1>3, <2>2
      <4>2. L * (k + 1) = L * k + L /\ L * k \in Nat
        BY <1>11
      <4> HIDE DEF L
      <4> QED  BY <4>1, <4>2
    <3>3. (\A r \in 1 .. round : Tested(r)) <=> (\A r \in 1 .. round - 1 : Tested(r)) /\ Tested(round)
      <4>1. \A r \in 1 .. round : r \in 1 .. round - 1 \/ r = round
        BY <1>3
      <4>2. \A r \in 1 .. round - 1 : r \in 1 .. round
        BY <1>3
      <4>3. round \in 1 .. round
        BY <1>3, <2>2
      <4> QED  BY <4>1, <4>2, <4>3
    <3> HIDE DEF L
    <3> QED  BY <1>2, <1>11, <2>1, <3>1, <3>2, <3>3
  <2>3. Rounds' = round
    BY <1>2 DEF Rounds
  <2> QED  BY <1>2, <2>1, <2>2, <2>3, SameKeys DEF Passed
<1> QED  BY <1>5, <1>6, <1>7, <1>8, <1>9, <1>12 DEF OmpInv

\* full_verify() begins.
LEMMA StartSortStep ==
  ASSUME OmpInv, StartSort
  PROVE  OmpInv'
<1>1. /\ OmpType /\ Stages /\ Barriers /\ Created /\ Known /\ Counted /\ Pointed /\ Moved /\ Ranked /\ Added
      /\ SortedSoFar /\ Passed /\ Ended
  BY DEF OmpInv
<1>2. /\ phase = "verified" /\ phase' = "sort" /\ round = MAX_ITERATIONS /\ next' = 0
      /\ pc' = [t \in Threads |-> IF useBuckets THEN "sort" ELSE "copy"]
      /\ seed' = seed /\ team' = team /\ useBuckets' = useBuckets /\ round' = round
      /\ key_array' = key_array /\ key_buff1' = key_buff1 /\ key_buff2' = key_buff2 /\ work' = work
      /\ bucket_ptrs' = bucket_ptrs /\ idx' = idx
      /\ partial_verify_vals' = partial_verify_vals /\ passed_verification' = passed_verification
  BY DEF StartSort, input, verifying
<1>3. /\ team \in Nat \ {0} /\ useBuckets \in BOOLEAN /\ NUM_BUCKETS \in Nat
      /\ K' = K /\ K \in KeyArrays /\ DOMAIN K = Indices /\ key_array = K /\ Threads' = Threads
  BY <1>1, <1>2, SameKeys, KIs, Sizes DEF OmpType, Known, KeyArrays
<1>4. \A v \in KeyRange : key_buff1[v] = RankOf(K, v) /\ key_buff1[v] \in Int /\ ~(BucketOf(v) < 0)
  <2>1. \A v \in KeyRange : RankOf(K, v) \in Nat
    BY <1>3, RanksAreSizes
  <2>2. \A v \in KeyRange : ~(BucketOf(v) < 0)
    BY BucketIs DEF Buckets
  <2> QED  BY <1>1, <1>2, <2>1, <2>2 DEF Ranked
<1>5. OmpType'
  BY <1>1, <1>2, <1>3 DEF OmpType
<1>6. Stages' /\ Barriers' /\ Created' /\ Known' /\ Counted' /\ Ranked' /\ Added' /\ Ended'
  BY <1>2, <1>3 DEF Stages, Barriers, Created, Known, Counted, Ranked, Added, Ended
<1>7. Pointed'
  BY <1>1, <1>2, <1>3 DEF Pointed
<1>8. Moved'
  BY <1>1, <1>2, <1>3, SameKeys DEF Moved
<1>9. SortedSoFar'
  BY <1>2, <1>3, <1>4, SameKeys DEF SortedSoFar
<1>10. Passed'
  BY <1>1, <1>2, <1>3, SameKeys DEF Passed, Rounds
<1> QED  BY <1>5, <1>6, <1>7, <1>8, <1>9, <1>10 DEF OmpInv

-----------------------------------------------------------------------------
(* The threads sort the buckets.                                           *)

\* Some slots hold all the keys of the values in P, and no other key.
HoldValues(slots, P) ==
  \A v \in KeyRange : Cardinality({i \in slots : key_buff2[i] = v}) = IF v \in P THEN CountIn(K, v) ELSE 0

\* Counting the ranks down puts the keys of these values into their places, and
\* changes nothing else.
LEMMA SortedPart ==
  ASSUME K \in KeyArrays, key_array \in KeyArrays, \A v \in KeyRange : key_buff1[v] \in Int,
         NEW slots, NEW P, HoldValues(slots, P), \A v \in KeyRange : v \in P => key_buff1[v] = RankOf(K, v)
  PROVE  /\ Sorted(slots).keys \in KeyArrays /\ DOMAIN Sorted(slots).ranks = KeyRange
         /\ \A v \in KeyRange : \A k \in ValuePlaces(K, v) :
              Sorted(slots).keys[k] = IF v \in P THEN v ELSE key_array[k]
         /\ \A v \in KeyRange : Sorted(slots).ranks[v] \in Int /\ (v \notin P => Sorted(slots).ranks[v] = key_buff1[v])
<1> DEFINE many(v) == Cardinality({i \in slots : key_buff2[i] = v})
           places(v) == key_buff1[v] - many(v) .. key_buff1[v] - 1
           keys == [k \in DOMAIN key_array |-> IF \E v \in KeyRange : k \in places(v)
                                              THEN CHOOSE v \in KeyRange : k \in places(v)
                                              ELSE key_array[k]]
           all_ranks == [v \in KeyRange |-> key_buff1[v] - many(v)]
<1>1. Sorted(slots).keys = keys /\ Sorted(slots).ranks = all_ranks
  BY DEF Sorted
<1>2. /\ DOMAIN key_array = Indices /\ \A k \in Indices : key_array[k] \in KeyRange
      /\ DOMAIN K = Indices
  BY DEF KeyArrays
<1>3. \A v \in KeyRange : RankOf(K, v) \in Nat /\ CountIn(K, v) \in Nat
  BY <1>2, RanksAreSizes
<1>4. \A v \in KeyRange : many(v) = IF v \in P THEN CountIn(K, v) ELSE 0
  BY DEF HoldValues
<1> HIDE DEF many
<1>5. \A v \in KeyRange : /\ v \in P => places(v) = ValuePlaces(K, v)
                          /\ v \notin P => places(v) = {}
                          /\ key_buff1[v] - many(v) \in Int
                          /\ v \notin P => key_buff1[v] - many(v) = key_buff1[v]
  <2> SUFFICES ASSUME NEW v \in KeyRange
               PROVE  /\ v \in P => places(v) = ValuePlaces(K, v)
                      /\ v \notin P => places(v) = {}
                      /\ key_buff1[v] - many(v) \in Int
                      /\ v \notin P => key_buff1[v] - many(v) = key_buff1[v]
    OBVIOUS
  <2>1. PICK x \in Int, m \in Nat : x = key_buff1[v] /\ m = many(v)
    <3>1. key_buff1[v] \in Int /\ many(v) \in Nat
      BY <1>3, <1>4
    <3> QED  BY <3>1
  <2>2. CASE v \in P
    BY <1>4, <2>1, <2>2 DEF ValuePlaces
  <2>3. CASE v \notin P
    <3>1. m = 0
      BY <1>4, <2>1, <2>3
    <3> QED  BY <2>1, <2>3, <3>1
  <2> QED  BY <2>2, <2>3
<1> HIDE DEF places
<1>6. /\ \A v \in KeyRange : ValuePlaces(K, v) \subseteq Indices
      /\ \A v, w \in KeyRange : v # w => ValuePlaces(K, v) \cap ValuePlaces(K, w) = {}
  BY PlacesOfValues
<1>7. keys \in KeyArrays
  <2>1. \A k \in Indices : keys[k] \in KeyRange
    BY <1>2
  <2> QED  BY <1>2, <2>1 DEF KeyArrays
<1>8. ASSUME NEW v \in KeyRange, NEW k \in ValuePlaces(K, v)
      PROVE  keys[k] = IF v \in P THEN v ELSE key_array[k]
  <2>1. k \in Indices
    BY <1>6
  <2>2. \A w \in KeyRange : k \in places(w) => w = v /\ v \in P
    BY <1>5, <1>6, <1>8
  <2>3. CASE v \in P
    <3>1. k \in places(v)
      BY <1>5, <1>8, <2>3
    <3> QED  BY <1>2, <2>1, <2>2, <2>3, <3>1
  <2>4. CASE v \notin P
    BY <1>2, <2>1, <2>2, <2>4
  <2> QED  BY <2>3, <2>4
<1>9. \A v \in KeyRange : all_ranks[v] = key_buff1[v] - many(v)
  OBVIOUS
<1>10. DOMAIN all_ranks = KeyRange
  OBVIOUS
<1> HIDE DEF keys, all_ranks
<1> QED  BY <1>1, <1>5, <1>7, <1>8, <1>9, <1>10

\* A thread sorts a bucket.
LEMMA SortBucketStep ==
  ASSUME OmpInv, NEW t \in Threads, SortBucket(t)
  PROVE  OmpInv'
<1>1. /\ OmpType /\ Stages /\ Barriers /\ Created /\ Known /\ Counted /\ Pointed /\ Moved /\ Ranked /\ Added
      /\ SortedSoFar /\ Passed /\ Ended
  BY DEF OmpInv
<1>2. /\ phase = "sort" /\ phase' = "sort" /\ useBuckets /\ pc[t] = "sort"
      /\ \/ /\ next = NUM_BUCKETS /\ pc' = [pc EXCEPT ![t] = "done"] /\ key_array' = key_array
            /\ key_buff1' = key_buff1 /\ next' = next
         \/ /\ next # NUM_BUCKETS /\ next' = next + 1 /\ pc' = pc
            /\ key_array' = Sorted(Slots(t, next)).keys /\ key_buff1' = Sorted(Slots(t, next)).ranks
      /\ seed' = seed /\ team' = team /\ useBuckets' = useBuckets /\ round' = round
      /\ key_buff2' = key_buff2 /\ work' = work /\ bucket_ptrs' = bucket_ptrs
      /\ idx' = idx /\ partial_verify_vals' = partial_verify_vals
      /\ passed_verification' = passed_verification
  BY DEF SortBucket, input, verifying
<1>3. /\ team \in Nat \ {0} /\ DOMAIN pc = Threads /\ next \in Nat /\ next \in 0 .. NUM_BUCKETS /\ NUM_BUCKETS \in Nat
      /\ K' = K /\ K \in KeyArrays /\ key_array \in KeyArrays /\ Threads' = Threads
      /\ \A v \in KeyRange : key_buff1[v] \in Int
  BY <1>1, <1>2, SameKeys, KIs, Sizes DEF OmpType, SortedSoFar
<1>4. \A v \in KeyRange : IF BucketOf(v) < next THEN InPlace(v) ELSE key_buff1[v] = RankOf(K, v)
  BY <1>1, <1>2 DEF SortedSoFar
<1>5. Stages' /\ Created' /\ Known' /\ Counted' /\ Ranked' /\ Added' /\ Ended'
  BY <1>1, <1>2, <1>3 DEF Stages, Created, Known, Counted, Ranked, Added, Ended
<1>6. Pointed' /\ Moved'
  <2>1. Pointed'
    BY <1>1, <1>2, <1>3 DEF Pointed
  <2>2. Moved'
    BY <1>1, <1>2, <1>3, SameKeys DEF Moved
  <2> QED  BY <2>1, <2>2
<1>7. Passed'
  BY <1>1, <1>2, <1>3, SameKeys DEF Passed, Rounds
<1>8. Barriers'
  <2>1. \A u \in Threads : pc'[u] = "done" => next' = NUM_BUCKETS
    BY <1>1, <1>2, <1>3 DEF Barriers
  <2> QED  BY <1>2, <1>3, <2>1 DEF Barriers
<1>9. CASE next = NUM_BUCKETS
  <2>1. OmpType'
    BY <1>1, <1>2, <1>3, <1>9 DEF OmpType
  <2>2. \A v : InPlace(v)' = InPlace(v)
    BY <1>2, <1>3, <1>9 DEF InPlace
  <2>3. SortedSoFar'
    BY <1>2, <1>3, <1>4, <1>9, <2>2 DEF SortedSoFar
  <2> QED  BY <1>5, <1>6, <1>7, <1>8, <2>1, <2>3 DEF OmpInv
<1>10. CASE next # NUM_BUCKETS
  <2> DEFINE slots == Slots(t, next)
             P == {v \in KeyRange : BucketOf(v) = next}
  <2>1. next \in Buckets /\ next' = next + 1 /\ pc' = pc /\ key_array' = Sorted(slots).keys /\ key_buff1' = Sorted(slots).ranks
    BY <1>2, <1>3, <1>10 DEF Buckets
  <2>2. \A v \in KeyRange : BucketOf(v) \in Nat
    BY BucketIs DEF Buckets
  <2>3. slots = SlotsOf(K, next)
    <3>1. \A c \in Buckets : bucket_ptrs[t][c] = Cardinality(Before(K, c + 1, 0))
      BY <1>1, <1>2 DEF Pointed
    <3> QED  BY <1>3, <2>1, <3>1, SlotsAre
  <2>4. HoldValues(slots, P)
    <3>1. Placed(K, key_buff2)
      BY <1>1, <1>2, <1>3, MineIs DEF Moved, Placed
    <3>2. \A v \in KeyRange : Cardinality(SlotsWith(K, key_buff2, next, v)) = IF BucketOf(v) = next THEN CountIn(K, v) ELSE 0
      BY <1>3, <2>1, <3>1, SlotsHold
    <3> QED  BY <2>3, <3>2 DEF HoldValues, SlotsWith
  <2>5. \A v \in KeyRange : v \in P => key_buff1[v] = RankOf(K, v)
    BY <1>3, <1>4
  <2> HIDE DEF slots, P
  <2>6. /\ key_array' \in KeyArrays /\ DOMAIN key_buff1' = KeyRange
        /\ \A v \in KeyRange : \A k \in ValuePlaces(K, v) : key_array'[k] = IF v \in P THEN v ELSE key_array[k]
        /\ \A v \in KeyRange : key_buff1'[v] \in Int /\ (v \notin P => key_buff1'[v] = key_buff1[v])
    BY <1>3, <2>1, <2>4, <2>5, SortedPart
  <2>7. OmpType'
    BY <1>1, <1>2, <1>3, <1>10, <2>1, <2>6 DEF OmpType
  <2>8. ASSUME NEW v \in KeyRange
        PROVE  IF BucketOf(v) < next' THEN InPlace(v)' ELSE key_buff1'[v] = RankOf(K, v)
    <3>1. CASE BucketOf(v) = next
      <4>1. v \in P /\ BucketOf(v) < next'
        BY <1>3, <2>1, <3>1 DEF P
      <4> QED  BY <1>3, <2>6, <4>1 DEF InPlace
    <3>2. CASE BucketOf(v) # next
      <4>1. v \notin P /\ (BucketOf(v) < next' <=> BucketOf(v) < next)
        BY <1>3, <2>1, <2>2, <3>2 DEF P
      <4>2. InPlace(v) => InPlace(v)'
        BY <1>3, <2>6, <4>1 DEF InPlace
      <4> QED  BY <1>4, <2>6, <4>1, <4>2
    <3> QED  BY <3>1, <3>2
  <2>9. SortedSoFar'
    BY <1>2, <1>3, <2>6, <2>8 DEF SortedSoFar
  <2> QED  BY <1>5, <1>6, <1>7, <1>8, <2>7, <2>9 DEF OmpInv
<1> QED  BY <1>9, <1>10

-----------------------------------------------------------------------------
(* Sorting without buckets, the report, and every step.                    *)

\* Without buckets: a thread copies its share.
LEMMA CopyStep ==
  ASSUME OmpInv, NEW t \in Threads, CopyKeys(t)
  PROVE  OmpInv'
<1>1. /\ OmpType /\ Stages /\ Barriers /\ Created /\ Known /\ Counted /\ Pointed /\ Moved /\ Ranked /\ Added
      /\ SortedSoFar /\ Passed /\ Ended
  BY DEF OmpInv
<1>2. /\ phase = "sort" /\ phase' = "sort" /\ pc[t] = "copy" /\ pc' = [pc EXCEPT ![t] = "sort"]
      /\ key_buff2' = [i \in DOMAIN key_buff2 |-> IF i \in StaticChunk(t, NUM_KEYS) THEN key_array[i] ELSE key_buff2[i]]
      /\ seed' = seed /\ team' = team /\ useBuckets' = useBuckets /\ round' = round
      /\ key_array' = key_array /\ key_buff1' = key_buff1 /\ work' = work /\ bucket_ptrs' = bucket_ptrs
      /\ idx' = idx /\ next' = next /\ partial_verify_vals' = partial_verify_vals
      /\ passed_verification' = passed_verification
  BY DEF CopyKeys, input, verifying
<1>3. /\ team \in Nat \ {0} /\ DOMAIN pc = Threads /\ useBuckets \in BOOLEAN /\ DOMAIN key_buff2 = Indices
      /\ K' = K /\ K \in KeyArrays /\ key_array \in KeyArrays /\ Threads' = Threads
      /\ \A u \in Threads : Mine(u) \in SUBSET Indices
      /\ StaticChunk(t, NUM_KEYS) = Mine(t)
      /\ \A u \in Threads : u # t => Mine(u) \cap Mine(t) = {}
  BY <1>1, <1>2, SameKeys, KIs, MineIs DEF OmpType
<1>4. ~useBuckets
  BY <1>1, <1>2, <1>3 DEF Stages
<1>5. pc'[t] = "sort" /\ \A u \in Threads : u # t => pc'[u] = pc[u]
  BY <1>2, <1>3
<1>6. OmpType'
  BY <1>1, <1>2, <1>3 DEF OmpType
<1>7. Stages' /\ Barriers'
  BY <1>1, <1>2, <1>3, <1>4, <1>5 DEF Stages, Barriers
<1>8. Created' /\ Known' /\ Counted' /\ Pointed' /\ Moved' /\ Ranked' /\ Added' /\ Ended'
  BY <1>2, <1>4 DEF Created, Known, Counted, Pointed, Moved, Ranked, Added, Ended
<1>9. Passed'
  BY <1>1, <1>2, <1>3, SameKeys DEF Passed, Rounds
<1>10. SortedSoFar'
  <2>1. key_array = K /\ \A v \in KeyRange : key_buff1'[v] \in Int
    BY <1>1, <1>2, <1>4 DEF SortedSoFar
  <2>2. \A v : InPlace(v)' = InPlace(v)
    BY <1>2, <1>3 DEF InPlace
  <2>3. ASSUME NEW u \in Threads, NEW v \in KeyRange, v \in PartOf(u, MAX_KEY)
        PROVE  IF pc'[u] = "done" THEN InPlace(v)' ELSE key_buff1'[v] = RankOf(K, v)
    BY <1>1, <1>2, <1>4, <1>5, <2>2, <2>3 DEF SortedSoFar
  <2>4. ASSUME NEW u \in Threads, pc'[u] # "copy", NEW i \in Mine(u)
        PROVE  key_buff2'[i] = K[i]
    <3>1. i \in Indices
      BY <1>3
    <3>2. CASE u = t
      BY <1>2, <1>3, <2>1, <3>1, <3>2
    <3>3. CASE u # t
      BY <1>1, <1>2, <1>3, <1>4, <1>5, <2>4, <3>1, <3>3 DEF SortedSoFar
    <3> QED  BY <3>2, <3>3
  <2> QED  BY <1>2, <1>3, <1>4, <2>1, <2>3, <2>4, SameKeys DEF SortedSoFar
<1> QED  BY <1>6, <1>7, <1>8, <1>9, <1>10 DEF OmpInv

\* And, behind the barrier, sorts its part of the values.
LEMMA SortValuesStep ==
  ASSUME OmpInv, NEW t \in Threads, SortValues(t)
  PROVE  OmpInv'
<1> DEFINE share == (MAX_KEY + team - 1) \div team
           slots == {i \in DOMAIN key_buff2 : key_buff2[i] \in share * t .. share * (t + 1) - 1}
           P == PartOf(t, MAX_KEY)
<1>1. /\ OmpType /\ Stages /\ Barriers /\ Created /\ Known /\ Counted /\ Pointed /\ Moved /\ Ranked /\ Added
      /\ SortedSoFar /\ Passed /\ Ended
  BY DEF OmpInv
<1>2. /\ phase = "sort" /\ phase' = "sort" /\ ~useBuckets /\ pc[t] = "sort" /\ pc' = [pc EXCEPT ![t] = "done"]
      /\ \A u \in Threads : pc[u] \in {"sort", "done"}
      /\ key_array' = Sorted(slots).keys /\ key_buff1' = Sorted(slots).ranks
      /\ seed' = seed /\ team' = team /\ useBuckets' = useBuckets /\ round' = round
      /\ key_buff2' = key_buff2 /\ work' = work /\ bucket_ptrs' = bucket_ptrs
      /\ idx' = idx /\ next' = next /\ partial_verify_vals' = partial_verify_vals
      /\ passed_verification' = passed_verification
  BY DEF SortValues, AllAt, input, verifying
<1>3. /\ team \in Nat \ {0} /\ DOMAIN pc = Threads /\ DOMAIN key_buff2 = Indices /\ MAX_KEY \in Nat
      /\ K' = K /\ K \in KeyArrays /\ DOMAIN K = Indices /\ key_array \in KeyArrays /\ Threads' = Threads
      /\ \A i \in Indices : \E u \in Threads : i \in Mine(u)
      /\ \A v \in KeyRange : key_buff1[v] \in Int
  BY <1>1, <1>2, SameKeys, KIs, MineIs, Sizes DEF OmpType, SortedSoFar, KeyArrays
<1>4. pc'[t] = "done" /\ \A u \in Threads : u # t => pc'[u] = pc[u]
  BY <1>2, <1>3
<1>5. \A i \in Indices : key_buff2[i] = K[i]
  BY <1>1, <1>2, <1>3 DEF SortedSoFar
<1>6. slots = {i \in Indices : K[i] \in P}
  BY <1>3, <1>5 DEF PartOf
<1>7. HoldValues(slots, P)
  <2>1. ASSUME NEW v \in KeyRange
        PROVE  Cardinality({i \in slots : key_buff2[i] = v}) = IF v \in P THEN CountIn(K, v) ELSE 0
    <3> HIDE DEF P, slots
    <3>1. CountIn(K, v) = Cardinality(With(K, v))
      BY <1>3, RanksAreSizes
    <3>2. CASE v \in P
      <4>1. {i \in slots : key_buff2[i] = v} = With(K, v)
        BY <1>5, <1>6, <3>2 DEF With
      <4> QED  BY <3>1, <3>2, <4>1
    <3>3. CASE v \notin P
      <4>1. {i \in slots : key_buff2[i] = v} = {}
        BY <1>5, <1>6, <3>3
      <4> QED  BY <3>3, <4>1, FS_EmptySet
    <3> QED  BY <3>2, <3>3
  <2> QED  BY <2>1 DEF HoldValues
<1>8. \A v \in KeyRange : v \in P => key_buff1[v] = RankOf(K, v)
  BY <1>1, <1>2 DEF SortedSoFar
<1> HIDE DEF slots, P
<1>9. /\ key_array' \in KeyArrays /\ DOMAIN key_buff1' = KeyRange
      /\ \A v \in KeyRange : \A k \in ValuePlaces(K, v) : key_array'[k] = IF v \in P THEN v ELSE key_array[k]
      /\ \A v \in KeyRange : key_buff1'[v] \in Int /\ (v \notin P => key_buff1'[v] = key_buff1[v])
  BY <1>2, <1>3, <1>7, <1>8, SortedPart
<1>10. OmpType'
  BY <1>1, <1>2, <1>3, <1>9 DEF OmpType
<1>11. Stages' /\ Barriers'
  BY <1>1, <1>2, <1>3, <1>4 DEF Stages, Barriers
<1>12. Created' /\ Known' /\ Counted' /\ Pointed' /\ Moved' /\ Ranked' /\ Added' /\ Ended'
  BY <1>2 DEF Created, Known, Counted, Pointed, Moved, Ranked, Added, Ended
<1>13. Passed'
  BY <1>1, <1>2, <1>3, SameKeys DEF Passed, Rounds
<1>14. SortedSoFar'
  <2>1. ASSUME NEW u \in Threads, NEW v \in KeyRange, v \in PartOf(u, MAX_KEY)
        PROVE  IF pc'[u] = "done" THEN InPlace(v)' ELSE key_buff1'[v] = RankOf(K, v)
    <3>1. CASE u = t
      <4>1. v \in P
        BY <2>1, <3>1 DEF P
      <4> QED  BY <1>3, <1>4, <1>9, <3>1, <4>1 DEF InPlace
    <3>2. CASE u # t
      <4>1. v \notin P
        BY <1>3, <2>1, <3>2, PartsAre DEF P
      <4>2. InPlace(v) => InPlace(v)'
        BY <1>3, <1>9, <4>1 DEF InPlace
      <4>3. IF pc[u] = "done" THEN InPlace(v) ELSE key_buff1[v] = RankOf(K, v)
        BY <1>1, <1>2, <2>1 DEF SortedSoFar
      <4> QED  BY <1>4, <1>9, <3>2, <4>1, <4>2, <4>3
    <3> QED  BY <3>1, <3>2
  <2>2. \A u \in Threads : pc'[u] # "copy" /\ \A i \in Mine(u) : key_buff2'[i] = K[i]
    BY <1>1, <1>2, <1>4 DEF SortedSoFar
  <2> QED  BY <1>2, <1>3, <1>9, <2>1, <2>2, SameKeys DEF SortedSoFar
<1> QED  BY <1>10, <1>11, <1>12, <1>13, <1>14 DEF OmpInv

\* The keys are in order, and what is reported says so.
LEMMA ReportStep ==
  ASSUME OmpInv, ReportSorted
  PROVE  OmpInv'
<1> DEFINE ordered == \A i \in 1 .. NUM_KEYS - 1 : key_array[i - 1] <= key_array[i]
           L == Len(test_index_array)
           credits == passed_verification + IF ordered THEN 1 ELSE 0
<1>1. /\ OmpType /\ Stages /\ Barriers /\ SortedSoFar /\ Passed
  BY DEF OmpInv
<1>2. /\ phase = "sort" /\ phase' = "end" /\ \A t \in Threads : pc[t] = "done"
      /\ passed_verification' = IF credits = L * MAX_ITERATIONS + 1 THEN credits ELSE 0
      /\ seed' = seed /\ team' = team /\ useBuckets' = useBuckets /\ round' = round
      /\ key_array' = key_array /\ key_buff1' = key_buff1 /\ key_buff2' = key_buff2 /\ work' = work
      /\ bucket_ptrs' = bucket_ptrs /\ pc' = pc /\ idx' = idx /\ next' = next
      /\ partial_verify_vals' = partial_verify_vals
  BY DEF ReportSorted, AllAt, input
<1>3. /\ team \in Nat \ {0} /\ useBuckets \in BOOLEAN /\ round = MAX_ITERATIONS /\ MAX_ITERATIONS \in Nat \ {0}
      /\ K' = K /\ K \in KeyArrays /\ key_array \in KeyArrays /\ DOMAIN key_array = Indices /\ Threads' = Threads
      /\ 0 \in Threads /\ MAX_KEY \in Nat /\ NUM_BUCKETS \in Nat /\ L \in Nat
      /\ K = KeysAt(seed, MAX_ITERATIONS)
  <2>1. /\ team \in Nat \ {0} /\ useBuckets \in BOOLEAN /\ round = MAX_ITERATIONS
        /\ key_array \in KeyArrays /\ DOMAIN key_array = Indices
    BY <1>1, <1>2 DEF OmpType, KeyArrays
  <2>2. MAX_ITERATIONS \in Nat \ {0} /\ MAX_KEY \in Nat /\ NUM_BUCKETS \in Nat /\ L \in Nat
    BY Sizes, SizesAssumption
  <2>3. K' = K /\ K \in KeyArrays /\ Threads' = Threads /\ 0 \in Threads
    BY <1>1, <1>2, <2>1, SameKeys, KIs, MineIs
  <2>4. K = KeysAt(seed, MAX_ITERATIONS)
    BY <2>1 DEF K
  <2> QED  BY <2>1, <2>2, <2>3, <2>4
<1>4. \A v \in KeyRange : InPlace(v)
  <2>1. CASE useBuckets
    <3>1. next = NUM_BUCKETS
      BY <1>1, <1>2, <1>3, <2>1 DEF Barriers
    <3>2. \A v \in KeyRange : BucketOf(v) < NUM_BUCKETS
      BY <1>3, BucketIs DEF Buckets
    <3> QED  BY <1>1, <1>2, <2>1, <3>1, <3>2 DEF SortedSoFar
  <2>2. CASE ~useBuckets
    <3>1. \A v \in KeyRange : \E t \in Threads : v \in PartOf(t, MAX_KEY)
      BY <1>3, PartsAre DEF KeyRange
    <3> QED  BY <1>1, <1>2, <2>2, <3>1 DEF SortedSoFar
  <2> QED  BY <1>3, <2>1, <2>2
<1>5. ordered /\ \A v \in KeyRange : CountIn(key_array, v) = CountIn(K, v)
  <2>1. \A v \in KeyRange : \A k \in ValuePlaces(K, v) : key_array[k] = v
    BY <1>4 DEF InPlace
  <2> QED  BY <1>3, <2>1, SortedIs
<1> HIDE DEF ordered
<1>6. passed_verification' # 0 <=> \A r \in 1 .. MAX_ITERATIONS : Tested(r)
  <2>1. /\ passed_verification \in Nat
        /\ passed_verification = L * MAX_ITERATIONS <=> \A r \in 1 .. MAX_ITERATIONS : Tested(r)
    BY <1>1, <1>2, <1>3 DEF Passed, Rounds
  <2>2. PICK x \in Nat : x = L * MAX_ITERATIONS
    BY <1>3
  <2> HIDE DEF L
  <2> QED  BY <1>2, <1>5, <2>1, <2>2
<1>7. OmpType'
  BY <1>1, <1>2, <1>3 DEF OmpType
<1>8. Stages' /\ Barriers' /\ Created' /\ Known' /\ Counted' /\ Pointed' /\ Moved' /\ Ranked' /\ Added' /\ SortedSoFar'
  BY <1>2 DEF Stages, Barriers, Created, Known, Counted, Pointed, Moved, Ranked, Added, SortedSoFar
<1>9. Passed'
  <2>1. passed_verification' \in Nat
    <3>1. L * MAX_ITERATIONS \in Nat /\ passed_verification \in Nat
      BY <1>1, <1>3 DEF Passed
    <3> QED  BY <1>2, <3>1
  <2> QED  BY <1>2, <2>1 DEF Passed
<1>10. Ended'
  BY <1>2, <1>3, <1>5, <1>6, SameKeys DEF Ended, ordered
<1> QED  BY <1>7, <1>8, <1>9, <1>10 DEF OmpInv

\* A step that changes nothing.
LEMMA SameState ==
  ASSUME OmpInv, UNCHANGED ovars
  PROVE  OmpInv'
<1>1. /\ seed' = seed /\ team' = team /\ useBuckets' = useBuckets /\ phase' = phase /\ round' = round
      /\ key_array' = key_array /\ key_buff1' = key_buff1 /\ key_buff2' = key_buff2 /\ work' = work
      /\ bucket_ptrs' = bucket_ptrs /\ pc' = pc /\ idx' = idx /\ next' = next
      /\ partial_verify_vals' = partial_verify_vals /\ passed_verification' = passed_verification
  BY DEF ovars
<1>2. /\ OmpType' = OmpType /\ Stages' = Stages /\ Barriers' = Barriers
  BY <1>1 DEF OmpType, Stages, Barriers, Threads
<1>3. K' = K
  BY <1>1 DEF K
<1>4. /\ Created' = Created /\ Known' = Known /\ Counted' = Counted /\ Pointed' = Pointed /\ Moved' = Moved
  BY <1>1, <1>3 DEF Created, Known, Counted, Pointed, Moved, Threads, PartOf, Mine, First
<1>5. /\ Ranked' = Ranked /\ Added' = Added /\ SortedSoFar' = SortedSoFar /\ Passed' = Passed /\ Ended' = Ended
  BY <1>1, <1>3 DEF Ranked, Added, SortedSoFar, Passed, Ended, Threads, PartOf, Mine, First, OwnCount, InPlace, Tested, Rounds
<1> QED  BY <1>2, <1>4, <1>5 DEF OmpInv

\* Every step keeps the invariant.
LEMMA InvNext ==
  ASSUME OmpInv, [OmpNext]_ovars
  PROVE  OmpInv'
<1>1. ASSUME NEW t \in Threads,
             \/ CreateSeq(t) \/ Count(t) \/ AddUp(t) \/ Pointers(t) \/ Scatter(t) \/ FinalSizes(t)
             \/ RankBucket(t) \/ SortBucket(t) \/ CopyKeys(t) \/ SortValues(t)
      PROVE  OmpInv'
  BY <1>1, CreateStep, CountStep, AddStep, PointersStep, ScatterStep, FinalStep, RankBucketStep, SortBucketStep,
     CopyStep, SortValuesStep
<1>2. CASE StartRank \/ PartialVerify \/ StartSort \/ ReportSorted
  BY <1>2, StartStep, VerifyStep, StartSortStep, ReportStep
<1>3. CASE OmpExit \/ UNCHANGED ovars
  BY <1>3, SameState DEF OmpExit
<1> QED  BY <1>1, <1>2, <1>3 DEF OmpNext

-----------------------------------------------------------------------------
(* What the benchmark promises.                                            *)

\* The places from a pointer on are those of the keys of the bucket left to move.
LeftInBucket(a, x, y, b) == {i \in x .. y - 1 : BucketOf(a[i]) = b}
PlacesFrom(p, S) == p .. p + Cardinality(S) - 1

\* They are as many as these keys, from the pointer on.
LEMMA PlacesLeft ==
  ASSUME NEW a \in KeyArrays, NEW x \in Nat, NEW y \in Nat, x <= y, y <= NUM_KEYS, NEW b \in Nat, b \in Buckets
  PROVE  PlacesFrom(Cardinality(Before(a, b, x)), LeftInBucket(a, x, y, b)) = {PlaceOf(a, i) : i \in LeftInBucket(a, x, y, b)}
<1> DEFINE S == LeftInBucket(a, x, y, b)
           R == {p \in Nat \X Nat : p[1] < p[2]}
           earlier(i) == {j \in S : <<j, i>> \in R}
           place == [i \in S |-> Cardinality(earlier(i))]
<1>1. /\ S \in SUBSET Indices /\ NUM_KEYS \in Nat /\ \A i \in S : i \in Nat /\ x <= i /\ i < y /\ BucketOf(a[i]) = b
      /\ \A i \in Nat : x <= i /\ i < y /\ BucketOf(a[i]) = b => i \in S
      /\ \A i \in Indices : i \in Nat
  BY Sizes DEF LeftInBucket, Indices
<1>2. PICK c \in Nat : c = Cardinality(Before(a, b, x))
  BY BeforeIs
<1>3. IsFiniteSet(S) /\ Cardinality(S) \in Nat
  BY <1>1, Finite
<1> HIDE DEF S
<1>4. \A i \in S : PlaceOf(a, i) = c + place[i]
  <2> SUFFICES ASSUME NEW i \in S PROVE PlaceOf(a, i) = c + place[i]
    OBVIOUS
  <2>1. \A j \in S : <<j, i>> \in R <=> j < i
    BY <1>1
  <2>2. earlier(i) \in SUBSET Indices /\ Before(a, b, x) \in SUBSET Indices
    BY <1>1 DEF Before
  <2>3. Before(a, b, i) = Before(a, b, x) \cup earlier(i) /\ Before(a, b, x) \cap earlier(i) = {}
    <3>1. ASSUME NEW j \in Indices
          PROVE  /\ j \in Before(a, b, i) <=> j \in Before(a, b, x) \/ j \in earlier(i)
                 /\ ~(j \in Before(a, b, x) /\ j \in earlier(i))
      <4>1. j \in Nat /\ i \in Nat /\ x <= i /\ i < y /\ BucketOf(a[j]) \in Nat
        BY <1>1, BeforeIs
      <4>2. j \in earlier(i) <=> BucketOf(a[j]) = b /\ x <= j /\ j < i
        BY <1>1, <2>1, <4>1
      <4>3. /\ j \in Before(a, b, i) <=> BucketOf(a[j]) < b \/ (BucketOf(a[j]) = b /\ j < i)
            /\ j \in Before(a, b, x) <=> BucketOf(a[j]) < b \/ (BucketOf(a[j]) = b /\ j < x)
        BY DEF Before
      <4> HIDE DEF earlier
      <4> QED  BY <4>1, <4>2, <4>3
    <3>2. Before(a, b, i) \in SUBSET Indices
      BY DEF Before
    <3> HIDE DEF earlier
    <3> QED  BY <2>2, <3>1, <3>2
  <2> HIDE DEF earlier, R
  <2>4. IsFiniteSet(Before(a, b, x)) /\ IsFiniteSet(earlier(i))
    BY <2>2, Finite
  <2>5. Cardinality(Before(a, b, i)) = Cardinality(Before(a, b, x)) + Cardinality(earlier(i))
    BY <2>3, <2>4, SizeOfTwo
  <2>6. PlaceOf(a, i) = Cardinality(Before(a, b, i))
    BY <1>1 DEF PlaceOf
  <2> QED  BY <1>2, <2>5, <2>6
<1>5. Strict(R, S)
  BY <1>1 DEF Strict
<1>6. place \in [S -> 0 .. Cardinality(S) - 1] /\ \A k \in 0 .. Cardinality(S) - 1 : \E i \in S : place[i] = k
  <2> HIDE DEF R
  <2>1. place = [i \in S |-> Cardinality({j \in S : <<j, i>> \in R})]
    OBVIOUS
  <2> HIDE DEF place
  <2> QED  BY <1>3, <1>5, <2>1, Places
<1> HIDE DEF place
<1>7. ASSUME NEW i \in S PROVE PlaceOf(a, i) \in c .. c + Cardinality(S) - 1
  <2>1. place[i] \in 0 .. Cardinality(S) - 1
    BY <1>6
  <2> QED  BY <1>3, <1>4, <2>1
<1>8. ASSUME NEW k \in c .. c + Cardinality(S) - 1 PROVE \E i \in S : k = PlaceOf(a, i)
  <2>1. k - c \in 0 .. Cardinality(S) - 1 /\ c + (k - c) = k
    BY <1>3
  <2>2. PICK i \in S : place[i] = k - c
    BY <1>6, <2>1
  <2> QED  BY <1>4, <2>1, <2>2
<1>9. c .. c + Cardinality(S) - 1 = {PlaceOf(a, i) : i \in S}
  BY <1>7, <1>8
<1> QED  BY <1>2, <1>9 DEF PlacesFrom, S

\* So no two threads have a place in common.
LEMMA PlacesAreOwn ==
  ASSUME OmpInv
  PROVE  SlotsAreOwn
<1> DEFINE left(t) == {i \in ToMove(t) : Cardinality({j \in ToMove(t) : j < i}) >= idx[t]}
           moving == {t \in Threads : pc[t] = "scatter"}
           places(t) == UNION {LET n == Cardinality({i \in left(t) : BucketOf(key_array[i]) = b})
                               IN  bucket_ptrs[t][b] .. bucket_ptrs[t][b] + n - 1 : b \in Buckets}
           U == UNION {left(t) : t \in moving}
<1> SUFFICES ASSUME phase = "rank"
             PROVE  /\ \A t \in moving : places(t) \subseteq DOMAIN key_buff2
                    /\ Cardinality(UNION {places(t) : t \in moving}) = Cardinality(U)
  BY DEF SlotsAreOwn
<1>1. /\ OmpType /\ Stages /\ Known /\ Pointed
  BY DEF OmpInv
<1>2. /\ team \in Nat \ {0} /\ useBuckets \in BOOLEAN /\ K \in KeyArrays /\ key_array = K /\ DOMAIN key_buff2 = Indices
      /\ idx \in [Threads -> Nat]
  BY <1>1, KIs DEF OmpType, Known
<1>3. /\ \A i \in Indices : PlaceOf(K, i) \in Indices
      /\ \A i, j \in Indices : PlaceOf(K, i) = PlaceOf(K, j) => i = j
  BY <1>2, PlacesAre
<1>4. ASSUME NEW t \in moving
      PROVE  left(t) \in SUBSET Indices /\ places(t) = {PlaceOf(K, i) : i \in left(t)}
  <2>1. /\ t \in Threads /\ pc[t] = "scatter" /\ useBuckets
    BY <1>1, <1>2, <1>4 DEF Stages
  <2>2. PICK f \in Nat, y \in Nat, m \in Nat : f = First(t) /\ y = First(t + 1) /\ m = idx[t] /\ f <= y /\ y <= NUM_KEYS
    BY <1>2, <2>1, MineIs
  <2>3. ToMove(t) = f .. y - 1 /\ f .. y - 1 \in SUBSET Indices
    <3> HIDE DEF left, places, U, moving
    <3>1. ToMove(t) = Mine(t) /\ Mine(t) = First(t) .. First(t + 1) - 1 /\ Mine(t) \in SUBSET Indices
      BY <1>2, <2>1, MineIs
    <3> QED  BY <2>2, <3>1
  <2>4. f + m <= y /\ \A b \in Buckets : bucket_ptrs[t][b] = Cardinality(Before(K, b, f + m))
    BY <1>1, <2>1, <2>2 DEF Pointed
  <2>5. PICK x \in Nat : x = f + m /\ x <= y
    BY <2>4
  <2>6. left(t) = x .. y - 1
    <3>1. ASSUME NEW i \in f .. y - 1 PROVE Cardinality({j \in f .. y - 1 : j < i}) = i - f
      <4>1. {j \in f .. y - 1 : j < i} = f .. i - 1 /\ i \in Nat /\ f <= i
        OBVIOUS
      <4> QED  BY <4>1, IntervalSize
    <3>2. left(t) = {i \in f .. y - 1 : Cardinality({j \in f .. y - 1 : j < i}) >= m}
      BY <2>2, <2>3
    <3>3. left(t) = {i \in f .. y - 1 : i - f >= m}
      BY <3>1, <3>2
    <3> HIDE DEF left
    <3> QED  BY <2>5, <3>3
  <2> HIDE DEF left
  <2>7. ASSUME NEW b \in Buckets
        PROVE  LET n == Cardinality({i \in left(t) : BucketOf(key_array[i]) = b})
               IN  bucket_ptrs[t][b] .. bucket_ptrs[t][b] + n - 1
                 = {PlaceOf(K, i) : i \in LeftInBucket(K, x, y, b)}
    <3>1. b \in Nat
      BY DEF Buckets
    <3>2. PlacesFrom(Cardinality(Before(K, b, x)), LeftInBucket(K, x, y, b)) = {PlaceOf(K, i) : i \in LeftInBucket(K, x, y, b)}
      BY <1>2, <2>2, <2>5, <3>1, PlacesLeft
    <3>3. {i \in left(t) : BucketOf(key_array[i]) = b} = LeftInBucket(K, x, y, b)
      BY <1>2, <2>6 DEF LeftInBucket
    <3>4. bucket_ptrs[t][b] = Cardinality(Before(K, b, x))
      BY <2>4, <2>5
    <3> QED  BY <3>2, <3>3, <3>4 DEF PlacesFrom
  <2>8. places(t) = UNION {{PlaceOf(K, i) : i \in LeftInBucket(K, x, y, b)} : b \in Buckets}
    BY <2>7
  <2>9. left(t) \in SUBSET Indices
    BY <2>3, <2>5, <2>6
  <2>10. \A i \in left(t) : BucketOf(K[i]) \in Buckets /\ i \in LeftInBucket(K, x, y, BucketOf(K[i]))
    BY <1>2, <2>6, <2>9, BeforeIs DEF LeftInBucket
  <2>11. \A b : LeftInBucket(K, x, y, b) \subseteq left(t)
    BY <2>6 DEF LeftInBucket
  <2> HIDE DEF places
  <2> QED  BY <2>8, <2>9, <2>10, <2>11
<1> HIDE DEF left, places
<1>5. \A t \in moving : places(t) \subseteq Indices
  BY <1>3, <1>4
<1>6. UNION {places(t) : t \in moving} = {PlaceOf(K, i) : i \in U} /\ U \in SUBSET Indices
  <2> HIDE DEF moving
  <2> QED  BY <1>4
<1>7. Cardinality({PlaceOf(K, i) : i \in U}) = Cardinality(U)
  <2> HIDE DEF U
  <2>1. PICK place : place = [i \in U |-> PlaceOf(K, i)]
    OBVIOUS
  <2>2. IsFiniteSet(U) /\ \A i, j \in U : place[i] = place[j] => i = j
    BY <1>3, <1>6, <2>1, Finite
  <2>3. Cardinality({place[i] : i \in U}) = Cardinality(U)
    BY <2>2, SameSize
  <2>4. {place[i] : i \in U} = {PlaceOf(K, i) : i \in U}
    BY <2>1
  <2> QED  BY <2>3, <2>4
<1> QED  BY <1>2, <1>5, <1>6, <1>7

\* The invariant says what the benchmark promises.
LEMMA InvSorts ==
  ASSUME OmpInv
  PROVE  SortsTheKeys
<1>1. RanksAreCounts
  BY DEF OmpInv, Ranked, Known, RanksAreCounts
<1>2. phase = "end" =>
       /\ \A i \in 1 .. NUM_KEYS - 1 : key_array[i - 1] <= key_array[i]
       /\ \A v \in KeyRange : CountIn(key_array, v) = CountIn(KeysAt(seed, MAX_ITERATIONS), v)
       /\ passed_verification # 0 <=>
            \A r \in 1 .. MAX_ITERATIONS, i \in DOMAIN test_index_array :
              KeysAt(seed, r)[test_index_array[i]] \in 1 .. NUM_KEYS - 1
  BY DEF OmpInv, Ended, Tested
<1> QED  BY <1>1, <1>2, PlacesAreOwn DEF SortsTheKeys

\* The OpenMP benchmark, with and without buckets, with any number of threads and
\* in whatever order they run, sorts the keys of the serial code: no two threads
\* move a key to the same place, rank() leaves the rank of every value, the keys
\* are in order at the end, none lost, and verification passes when it should
\* (rank() and full_verify() of is.c).
THEOREM OmpSorts == OmpSpec => []SortsTheKeys
<1>1. OmpInit => OmpInv
  BY InvInit
<1>2. OmpInv /\ [OmpNext]_ovars => OmpInv'
  BY InvNext
<1>3. OmpInv => SortsTheKeys
  BY InvSorts
<1> QED  BY <1>1, <1>2, <1>3, PTL DEF OmpSpec

-----------------------------------------------------------------------------
(* The MPI version: the parts of the processes, the order of the keys in   *)
(* the buffers, and the division of the buckets.                           *)

\* A power of two is above its exponent.
LEMMA PowersAbove == \A n \in Nat : Power2[n] > n
<1> DEFINE S == {n \in Nat : Power2[n] > n}
<1>1. 0 \in S
  BY Powers
<1>2. ASSUME NEW n \in S PROVE n + 1 \in S
  <2>1. n \in Nat /\ Power2[n] \in Nat /\ Power2[n + 1] = 2 * Power2[n]
    BY Powers
  <2> QED  BY <2>1
<1>3. S = Nat
  <2>1. S \in SUBSET Nat
    OBVIOUS
  <2> HIDE DEF S
  <2> QED  BY <1>1, <1>2, <2>1, Induct
<1> QED  BY <1>3

\* The least power of two that is more than twice below: the logarithm.
LEMMA LogIs ==
  \E lg \in [Nat -> Nat] :
    \A n \in Nat : /\ n < 2 * Power2[lg[n]]
                   /\ \A k \in Nat : n < 2 * Power2[k] => lg[n] <= k
<1>1. ASSUME NEW n \in Nat
      PROVE  \E l \in Nat : n < 2 * Power2[l] /\ \A k \in Nat : n < 2 * Power2[k] => l <= k
  <2> DEFINE T == {k \in Nat : n < 2 * Power2[k]}
  <2>1. n \in T
    <3>1. Power2[n] \in Nat /\ Power2[n] > n
      BY Powers, PowersAbove
    <3> QED  BY <3>1
  <2>2. \E x \in T : \A y \in T : x <= y
    <3>1. T \in SUBSET Nat /\ T # {}
      BY <2>1
    <3> HIDE DEF T
    <3> QED  BY <3>1, LeastNumber
  <2> QED  BY <2>2
<1> DEFINE lg == [n \in Nat |-> CHOOSE l \in Nat : n < 2 * Power2[l] /\ \A k \in Nat : n < 2 * Power2[k] => l <= k]
<1>2. \A n \in Nat : /\ lg[n] \in Nat /\ n < 2 * Power2[lg[n]]
                     /\ \A k \in Nat : n < 2 * Power2[k] => lg[n] <= k
  BY <1>1
<1>3. lg \in [Nat -> Nat]
  BY <1>1
<1> HIDE DEF lg
<1> QED  BY <1>2, <1>3

\* comm_size is a power of two that is not above the number of processes.
LEMMA LargestIs ==
  ASSUME NEW n \in Nat \ {0}
  PROVE  \E k \in Nat : LargestPower(n) = Power2[k] /\ Power2[k] <= n
<1>1. PICK lg \in [Nat -> Nat] : \A i \in Nat : /\ i < 2 * Power2[lg[i]]
                                               /\ \A k \in Nat : i < 2 * Power2[k] => lg[i] <= k
  BY LogIs
<1>2. lg[n] \in Nat /\ n < 2 * Power2[lg[n]] /\ \A k \in Nat : n < 2 * Power2[k] => lg[n] <= k
  BY <1>1
<1>3. lg[n] <= n
  <2>1. Power2[n] \in Nat /\ Power2[n] > n
    BY Powers, PowersAbove
  <2> QED  BY <1>2, <2>1
<1>4. Power2[lg[n]] <= n
  <2>1. CASE lg[n] = 0
    BY <2>1, Powers
  <2>2. CASE lg[n] # 0
    <3>1. lg[n] - 1 \in Nat /\ (lg[n] - 1) + 1 = lg[n]
      BY <1>2, <2>2
    <3>2. Power2[lg[n]] = 2 * Power2[lg[n] - 1] /\ Power2[lg[n] - 1] \in Nat
      BY <3>1, Powers
    <3>3. ~(n < 2 * Power2[lg[n] - 1])
      BY <1>2, <3>1
    <3> QED  BY <3>2, <3>3
  <2> QED  BY <2>1, <2>2
<1>5. \E c \in {Power2[k] : k \in 0 .. n} : c <= n /\ n < 2 * c
  BY <1>2, <1>3, <1>4
<1>6. LargestPower(n) \in {Power2[k] : k \in 0 .. n} /\ LargestPower(n) <= n
  BY <1>5 DEF LargestPower
<1> QED  BY <1>6

\* Powers of two that are not above another divide it.
LEMMA SharesOfPower ==
  ASSUME NEW a \in Nat, NEW b \in Nat, Power2[a] <= Power2[b]
  PROVE  \E e \in Nat : /\ Power2[b] \div Power2[a] = Power2[e] /\ Power2[a] * Power2[e] = Power2[b]
                        /\ (4 * Power2[b]) \div Power2[a] = Power2[e + 2] /\ Power2[e + 2] = 4 * Power2[e]
<1>1. \A n \in Nat : Power2[n] \in Nat \ {0}
  BY Powers
<1>2. a <= b
  <2> SUFFICES ASSUME b < a PROVE FALSE
    OBVIOUS
  <2>1. a - b - 1 \in Nat /\ (b + 1) + (a - b - 1) = a /\ b + 1 \in Nat
    OBVIOUS
  <2>2. Power2[a] = Power2[b + 1] * Power2[a - b - 1] /\ Power2[b + 1] = 2 * Power2[b]
    BY <2>1, Powers, PowersMultiply
  <2>3. PICK x \in Nat : x = Power2[b] /\ x > 0
    BY <1>1
  <2>4. PICK y \in Nat : y = Power2[a - b - 1] /\ y > 0
    BY <1>1, <2>1
  <2>5. (2 * x) * y >= 2 * x
    BY <2>3, <2>4
  <2> QED  BY <2>2, <2>3, <2>4, <2>5
<1>3. b - a \in Nat /\ a + (b - a) = b
  BY <1>2
<1>4. PICK e \in Nat : e = b - a
  BY <1>3
<1>5. Power2[a] * Power2[e] = Power2[b]
  BY <1>3, <1>4, PowersMultiply
<1>6. Power2[e + 2] = 4 * Power2[e]
  <2>1. Power2[e + 1] = 2 * Power2[e] /\ Power2[(e + 1) + 1] = 2 * Power2[e + 1] /\ (e + 1) + 1 = e + 2
    BY Powers
  <2> QED  BY <1>1, <2>1
<1>7. PICK x \in Nat \ {0} : x = Power2[a]
  BY <1>1
<1>8. PICK y \in Nat \ {0} : y = Power2[e]
  BY <1>1
<1>9. Power2[b] = y * x + 0 /\ 4 * Power2[b] = (4 * y) * x + 0
  BY <1>5, <1>7, <1>8
<1>10. Power2[b] \div x = y
  BY <1>1, <1>9, Remainder
<1>11. (4 * Power2[b]) \div x = 4 * y
  <2>1. 4 * Power2[b] \in Nat /\ 4 * y \in Nat /\ 0 \in 0 .. x - 1
    BY <1>1
  <2> QED  BY <1>9, <2>1, Remainder
<1> QED  BY <1>5, <1>6, <1>7, <1>8, <1>10, <1>11

\* The multiplier squared so many times passes over as many numbers at once.
LEMMA StreamOfSquares ==
  ASSUME NEW sq, sq[0] = multiplier, \A i \in Nat : sq[i + 1] = randlc(sq[i], sq[i])
  PROVE  \A l \in Nat : /\ sq[l] \in Nat
                        /\ \A s \in Nat : \A n \in Nat : Stream(s, sq[l])[n] = Stream(s, multiplier)[Power2[l] * n]
<1> DEFINE S == {l \in Nat : /\ sq[l] \in Nat
                             /\ \A s \in Nat : \A n \in Nat : Stream(s, sq[l])[n] = Stream(s, multiplier)[Power2[l] * n]}
<1>1. 0 \in S
  <2>1. multiplier \in Nat
    BY SizesAssumption, WrapIsPositive DEF Wrap
  <2>2. \A n \in Nat : Power2[0] * n = n
    BY Powers
  <2> QED  BY <2>1, <2>2
<1>2. ASSUME NEW l \in S PROVE l + 1 \in S
  <2>1. l \in Nat /\ sq[l] \in Nat /\ sq[l + 1] = randlc(sq[l], sq[l])
    OBVIOUS
  <2>2. sq[l + 1] \in Nat
    BY <2>1, RandlcNat
  <2>3. ASSUME NEW s \in Nat, NEW n \in Nat
        PROVE  Stream(s, sq[l + 1])[n] = Stream(s, multiplier)[Power2[l + 1] * n]
    <3>1. Stream(s, sq[l + 1])[n] = Stream(s, sq[l])[2 * n]
      <4>1. \A i \in Nat : Stream(s, randlc(sq[l], sq[l]))[i] = Stream(s, sq[l])[2 * i]
        BY <2>1, StreamOfSquare
      <4> QED  BY <2>1, <4>1
    <3>2. Stream(s, sq[l])[2 * n] = Stream(s, multiplier)[Power2[l] * (2 * n)]
      <4>1. 2 * n \in Nat
        OBVIOUS
      <4> QED  BY <4>1
    <3>3. Power2[l] * (2 * n) = Power2[l + 1] * n
      BY <2>1, Powers
    <3> QED  BY <3>1, <3>2, <3>3
  <2> QED  BY <2>1, <2>2, <2>3
<1>3. S = Nat
  <2>1. S \in SUBSET Nat
    OBVIOUS
  <2> HIDE DEF S
  <2> QED  BY <1>1, <1>2, <2>1, Induct
<1>4. ASSUME NEW l \in Nat
      PROVE  sq[l] \in Nat /\ \A s \in Nat : \A n \in Nat : Stream(s, sq[l])[n] = Stream(s, multiplier)[Power2[l] * n]
  <2>1. l \in S
    <3> HIDE DEF S
    <3> QED  BY <1>3
  <2> QED  BY <2>1
<1> QED  BY <1>4

\* find_my_seed() of process kn comes to the number where its part begins, when
\* a part is a power of two.
LEMMA MpiSeedIs ==
  ASSUME NEW kn \in Nat, NEW np, NEW nn, NEW e \in Nat, nn \div np = Power2[e], NEW s \in Nat
  PROVE  MpiSeed(kn, np, nn, s) = Stream(s, multiplier)[Power2[e] * kn]
<1> DEFINE Places3 == [kk : Nat, t1 : Nat, t2 : Nat]
           T(at) == IF at.kk % 2 = 1 THEN randlc(at.t1, at.t2) ELSE at.t1
           Halved(at) == [kk |-> at.kk \div 2, t1 |-> T(at), t2 |-> randlc(at.t2, at.t2)]
           Jumps(g) == g = [at \in Places3 |-> IF at.kk \div 2 = 0 THEN T(at) ELSE g[Halved(at)]]
           Logs(g) == g = [nq \in Nat |-> IF nq > 1 THEN 1 + g[nq \div 2] ELSE 0]
           Squares(g) == g = [i \in Nat |-> IF i = 0 THEN multiplier ELSE randlc(g[i - 1], g[i - 1])]
           there == [at \in Places3 |-> Stream(at.t1, at.t2)[at.kk]]
           jump == CHOOSE g : Jumps(g)
           log2 == CHOOSE g : Logs(g)
           squared == CHOOSE g : Squares(g)
<1>1. MpiSeed(kn, np, nn, s) = jump[[kk |-> kn, t1 |-> s, t2 |-> squared[log2[Power2[e]]]]]
  BY DEF MpiSeed
<1>2. log2[Power2[e]] = e
  <2>1. \E g : Logs(g)
    <3>1. PICK lg \in [Nat -> Nat] : \A n \in Nat : /\ n < 2 * Power2[lg[n]]
                                                  /\ \A k \in Nat : n < 2 * Power2[k] => lg[n] <= k
      BY LogIs
    <3>2. ASSUME NEW n \in Nat PROVE lg[n] = IF n > 1 THEN 1 + lg[n \div 2] ELSE 0
      <4>1. CASE n > 1
        <5>1. n \div 2 \in Nat /\ \A x \in Nat : n < 2 * x <=> n \div 2 < x
          BY <4>1
        <5>2. \A k \in Nat : Power2[k] \in Nat /\ Power2[k + 1] = 2 * Power2[k]
          BY Powers
        <5> DEFINE a == lg[n]
                   b == lg[n \div 2]
        <5>3. a \in Nat /\ n < 2 * Power2[a] /\ \A k \in Nat : n < 2 * Power2[k] => a <= k
          BY <3>1
        <5>4. b \in Nat /\ n \div 2 < 2 * Power2[b] /\ \A k \in Nat : n \div 2 < 2 * Power2[k] => b <= k
          BY <3>1, <5>1
        <5> HIDE DEF a, b
        <5>5. a <= b + 1
          <6>1. n < 2 * Power2[b + 1]
            BY <5>1, <5>2, <5>4
          <6> QED  BY <5>3, <5>4, <6>1
        <5>6. a # 0
          BY <4>1, <5>3, Powers
        <5>7. b <= a - 1
          <6>1. a - 1 \in Nat /\ (a - 1) + 1 = a
            BY <5>3, <5>6
          <6>2. Power2[a] = 2 * Power2[a - 1] /\ Power2[a] \in Nat /\ Power2[a - 1] \in Nat
            BY <5>2, <5>3, <6>1
          <6>3. n \div 2 < Power2[a]
            BY <5>1, <5>3, <6>2
          <6> QED  BY <5>4, <6>1, <6>2, <6>3
        <5>8. a = 1 + b
          BY <5>3, <5>4, <5>5, <5>7
        <5> QED  BY <4>1, <5>8 DEF a, b
      <4>2. CASE ~(n > 1)
        <5>1. n < 2 * Power2[0]
          BY <4>2, Powers
        <5>2. lg[n] \in Nat /\ lg[n] <= 0
          BY <3>1, <5>1
        <5> QED  BY <4>2, <5>2
      <4> QED  BY <4>1, <4>2
    <3>3. Logs(lg)
      BY <3>2
    <3> HIDE DEF Logs
    <3> QED  BY <3>3
  <2>2. Logs(log2)
    <3> HIDE DEF Logs
    <3> QED  BY <2>1
  <2>3. \A n \in Nat : log2[n] = IF n > 1 THEN 1 + log2[n \div 2] ELSE 0
    <3> HIDE DEF log2
    <3> QED  BY <2>2
  <2> DEFINE S == {l \in Nat : log2[Power2[l]] = l}
  <2> HIDE DEF log2
  <2>4. 0 \in S
    BY <2>3, Powers
  <2>5. ASSUME NEW l \in S PROVE l + 1 \in S
    <3>1. l \in Nat /\ Power2[l] \in Nat \ {0} /\ Power2[l + 1] = 2 * Power2[l] /\ log2[Power2[l]] = l
      BY Powers
    <3>2. Power2[l + 1] > 1 /\ Power2[l + 1] \div 2 = Power2[l] /\ Power2[l + 1] \in Nat
      BY <3>1
    <3>3. log2[Power2[l + 1]] = 1 + log2[Power2[l]]
      BY <2>3, <3>2
    <3> QED  BY <3>1, <3>3
  <2>6. S = Nat
    <3>1. S \in SUBSET Nat
      OBVIOUS
    <3> HIDE DEF S
    <3> QED  BY <2>4, <2>5, <3>1, Induct
  <2> QED  BY <2>6
<1>3. /\ squared[e] \in Nat
      /\ \A v \in Nat : \A n \in Nat : Stream(v, squared[e])[n] = Stream(v, multiplier)[Power2[e] * n]
  <2>1. \E g : Squares(g)
    <3> DEFINE F == [x \in Nat \X Nat |-> randlc(x[2], x[2])]
    <3>1. F \in [Nat \X Nat -> Nat] /\ \A i, v \in Nat : F[<<i, v>>] = randlc(v, v)
      BY RandlcNat
    <3>2. multiplier \in Nat
      BY SizesAssumption, WrapIsPositive DEF Wrap
    <3> HIDE DEF F
    <3>3. PICK it : Iterates(it, Nat, multiplier, F)
      BY <3>1, <3>2, IterationExists
    <3>4. it \in [Nat -> Nat] /\ it[0] = multiplier /\ \A n \in Nat : it[n + 1] = F[<<n, it[n]>>]
      BY <3>3 DEF Iterates
    <3>5. ASSUME NEW i \in Nat, i # 0 PROVE it[i] = randlc(it[i - 1], it[i - 1])
      <4>1. i - 1 \in Nat /\ (i - 1) + 1 = i
        BY <3>5
      <4>2. it[(i - 1) + 1] = F[<<i - 1, it[i - 1]>>] /\ it[i - 1] \in Nat
        BY <3>4, <4>1
      <4> QED  BY <3>1, <4>1, <4>2
    <3>6. Squares(it)
      BY <3>4, <3>5
    <3> HIDE DEF Squares
    <3> QED  BY <3>6
  <2>2. Squares(squared)
    <3> HIDE DEF Squares
    <3> QED  BY <2>1
  <2> HIDE DEF squared
  <2>3. squared[0] = multiplier /\ \A i \in Nat : squared[i + 1] = randlc(squared[i], squared[i])
    <3>1. \A i \in Nat : squared[i] = IF i = 0 THEN multiplier ELSE randlc(squared[i - 1], squared[i - 1])
      BY <2>2
    <3>2. \A i \in Nat : i + 1 \in Nat /\ i + 1 # 0 /\ (i + 1) - 1 = i
      OBVIOUS
    <3> HIDE DEF Squares
    <3> QED  BY <3>1, <3>2
  <2> HIDE DEF Squares
  <2> QED  BY <2>3, StreamOfSquares
<1>4. ASSUME NEW at \in Places3
      PROVE  /\ T(at) \in Nat /\ at.kk \in Nat /\ at.t1 \in Nat /\ at.t2 \in Nat
             /\ at.kk \div 2 = 0 => T(at) = Stream(at.t1, at.t2)[at.kk]
             /\ at.kk \div 2 # 0 => /\ Halved(at) \in Places3 /\ Halved(at).kk < at.kk
                                    /\ Halved(at).kk = at.kk \div 2 /\ Halved(at).t1 = T(at)
                                    /\ Halved(at).t2 = randlc(at.t2, at.t2)
                                    /\ Stream(T(at), randlc(at.t2, at.t2))[at.kk \div 2] = Stream(at.t1, at.t2)[at.kk]
  <2>1. PICK k \in Nat : k = at.kk
    OBVIOUS
  <2>2. PICK x \in Nat : x = at.t1
    OBVIOUS
  <2>3. PICK a \in Nat : a = at.t2
    OBVIOUS
  <2>4. randlc(a, a) \in Nat /\ randlc(x, a) \in Nat
    BY RandlcNat
  <2>5. T(at) \in Nat
    BY <2>1, <2>2, <2>3, <2>4
  <2>6. PICK h \in Nat : h = k \div 2 /\ (k % 2 = 1 => k = 1 + 2 * h) /\ (k % 2 # 1 => k = 2 * h)
    OBVIOUS
  <2>7. \A n \in Nat : Stream(T(at), randlc(a, a))[n] = Stream(T(at), a)[2 * n]
    <3> HIDE DEF T
    <3> QED  BY <2>5, StreamOfSquare
  <2>8. Stream(T(at), a)[2 * h] = Stream(x, a)[k]
    <3>1. CASE k % 2 = 1
      <4>1. T(at) = randlc(x, a)
        BY <2>1, <2>2, <2>3, <3>1
      <4>2. 2 * h \in Nat
        OBVIOUS
      <4>3. \A n \in Nat : Stream(randlc(x, a), a)[n] = Stream(x, a)[1 + n]
        BY StreamAfterOne
      <4>4. Stream(randlc(x, a), a)[2 * h] = Stream(x, a)[1 + 2 * h]
        BY <4>2, <4>3
      <4> QED  BY <2>6, <3>1, <4>1, <4>4
    <3>2. CASE k % 2 # 1
      BY <2>1, <2>2, <2>6, <3>2
    <3> QED  BY <3>1, <3>2
  <2>9. h = 0 => T(at) = Stream(x, a)[k]
    <3> HIDE DEF T
    <3>1. 2 * 0 = 0
      OBVIOUS
    <3> QED  BY <2>3, <2>5, <2>8, <3>1, StreamIs, ZenonT(60)
  <2>10. h # 0 => h < k
    BY <2>6
  <2>11. Halved(at) = [kk |-> h, t1 |-> T(at), t2 |-> randlc(a, a)]
    BY <2>1, <2>3, <2>6
  <2> HIDE DEF T, Halved
  <2> QED  BY <2>1, <2>2, <2>3, <2>4, <2>5, <2>6, <2>7, <2>8, <2>9, <2>10, <2>11
<1>5. \A at \in Places3 : there[at] = Stream(at.t1, at.t2)[at.kk]
  OBVIOUS
<1>6. jump = CHOOSE g : Jumps(g)
  OBVIOUS
<1> HIDE DEF T, Halved, jump, log2, squared
<1>7. Jumps(there)
  <2>1. ASSUME NEW at \in Places3 PROVE there[at] = IF at.kk \div 2 = 0 THEN T(at) ELSE there[Halved(at)]
    <3> HIDE DEF Places3, there
    <3> QED  BY <1>4, <1>5
  <2>2. there = [at \in Places3 |-> there[at]]
    OBVIOUS
  <2> HIDE DEF there, Places3
  <2> QED  BY <2>1, <2>2
<1>8. Jumps(jump)
  <2> HIDE DEF Jumps, there
  <2> QED  BY <1>6, <1>7
<1>9. \A at \in Places3 : jump[at] = there[at]
  <2> DEFINE Wrong == {n \in Nat : \E at \in Places3 : at.kk = n /\ jump[at] # there[at]}
  <2>0. \A at \in Places3 : at.kk \in Nat
    OBVIOUS
  <2> SUFFICES ASSUME Wrong # {} PROVE FALSE
    <3> HIDE DEF Places3, there
    <3> QED  BY <2>0
  <2>1. Wrong \in SUBSET Nat
    OBVIOUS
  <2>2. PICK n \in Wrong : \A m \in Wrong : n <= m
    <3> HIDE DEF Wrong
    <3> QED  BY <2>1, LeastNumber
  <2>3. PICK at \in Places3 : at.kk = n /\ jump[at] # there[at]
    OBVIOUS
  <2>4. ASSUME NEW b \in Places3, b.kk < n PROVE jump[b] = there[b]
    <3>1. b.kk \in Nat /\ n \in Nat /\ ~(n <= b.kk)
      BY <2>0, <2>4
    <3> HIDE DEF Places3, there
    <3> QED  BY <2>2, <3>1
  <2> HIDE DEF Wrong, there
  <2>5. there[at] = IF at.kk \div 2 = 0 THEN T(at) ELSE there[Halved(at)]
    <3> HIDE DEF Places3
    <3> QED  BY <1>7
  <2>6. jump[at] = IF at.kk \div 2 = 0 THEN T(at) ELSE jump[Halved(at)]
    <3> HIDE DEF Places3
    <3> QED  BY <1>8
  <2> HIDE DEF Places3, Jumps
  <2> QED  BY <1>4, <2>3, <2>4, <2>5, <2>6
<1>10. \E at \in Places3 : at = [kk |-> kn, t1 |-> s, t2 |-> squared[e]]
  BY <1>3
<1>11. PICK at \in Places3 : at = [kk |-> kn, t1 |-> s, t2 |-> squared[e]]
  BY <1>10
<1> HIDE DEF there, Places3, Jumps, Logs, Squares
<1>12. jump[at] = Stream(s, squared[e])[kn]
  BY <1>5, <1>9, <1>11
<1> QED  BY <1>1, <1>2, <1>3, <1>11, <1>12

-----------------------------------------------------------------------------
(* The parts of the processes.                                             *)

\* Where the keys of process p are among those of all, when each has n.
PartAt(n, p) == n * p .. n * p + n - 1

\* The processes share the keys evenly.
Even(c, n) == c \in Nat \ {0} /\ n \in Nat \ {0} /\ c * n = NUM_KEYS

\* The parts are apart and together all the keys.
LEMMA PartsOfKeys ==
  ASSUME NEW c, NEW n, Even(c, n)
  PROVE  /\ \A p \in 0 .. c - 1 : PartAt(n, p) \subseteq Indices /\ n * p \in Nat /\ n * (p + 1) = n * p + n
         /\ \A p, q \in 0 .. c - 1 : p # q => PartAt(n, p) \cap PartAt(n, q) = {}
         /\ \A i \in Indices : \E p \in 0 .. c - 1 : i \in PartAt(n, p)
<1>1. c \in Nat \ {0} /\ n \in Nat \ {0} /\ n * c = NUM_KEYS /\ n * c >= NUM_KEYS /\ NUM_KEYS \in Nat
  BY Sizes DEF Even
<1>2. \A p \in Nat : n * p \in Nat /\ n * (p + 1) = n * p + n /\ PartAt(n, p) = n * p .. n * (p + 1) - 1
  BY <1>1 DEF PartAt
<1>3. \A p \in 0 .. c - 1 : n * (p + 1) <= NUM_KEYS
  <2> SUFFICES ASSUME NEW p \in 0 .. c - 1 PROVE n * (p + 1) <= NUM_KEYS
    OBVIOUS
  <2>1. PICK d \in Nat : c = (p + 1) + d
    <3>1. c - (p + 1) \in Nat /\ c = (p + 1) + (c - (p + 1))
      BY <1>1
    <3> QED  BY <3>1
  <2>2. n * c = n * (p + 1) + n * d /\ n * d \in Nat
    BY <1>1, <2>1
  <2> QED  BY <1>1, <2>2
<1>4. /\ \A p, q \in 0 .. c - 1 : p # q => (n * p .. n * (p + 1) - 1) \cap (n * q .. n * (q + 1) - 1) = {}
      /\ \A i \in 0 .. NUM_KEYS - 1 : \E p \in 0 .. c - 1 : i \in n * p .. n * (p + 1) - 1
  BY <1>1, SharesRoundedUp
<1>5. \A p \in 0 .. c - 1 : p \in Nat
  BY <1>1
<1>6. \A p \in 0 .. c - 1 : PartAt(n, p) \subseteq Indices
  <2> SUFFICES ASSUME NEW p \in 0 .. c - 1, NEW i \in PartAt(n, p) PROVE i \in Indices
    OBVIOUS
  <2>1. p \in Nat
    BY <1>5
  <2>2. PICK x \in Nat : x = n * p /\ n * (p + 1) = x + n
    BY <1>2, <2>1
  <2>3. i \in x .. x + n - 1
    BY <2>2 DEF PartAt
  <2>4. x + n <= NUM_KEYS
    BY <1>3, <2>2
  <2> QED  BY <1>1, <2>3, <2>4 DEF Indices
<1>7. \A p \in 0 .. c - 1 : PartAt(n, p) = n * p .. n * (p + 1) - 1 /\ n * p \in Nat /\ n * (p + 1) = n * p + n
  BY <1>2, <1>5
<1>8. \A p, q \in 0 .. c - 1 : p # q => PartAt(n, p) \cap PartAt(n, q) = {}
  <2> SUFFICES ASSUME NEW p \in 0 .. c - 1, NEW q \in 0 .. c - 1, p # q PROVE PartAt(n, p) \cap PartAt(n, q) = {}
    OBVIOUS
  <2>1. PartAt(n, p) = n * p .. n * (p + 1) - 1 /\ PartAt(n, q) = n * q .. n * (q + 1) - 1
    BY <1>7
  <2>2. (n * p .. n * (p + 1) - 1) \cap (n * q .. n * (q + 1) - 1) = {}
    BY <1>4
  <2> QED  BY <2>1, <2>2, Zenon
<1>9. \A i \in Indices : \E p \in 0 .. c - 1 : i \in PartAt(n, p)
  <2> SUFFICES ASSUME NEW i \in Indices PROVE \E p \in 0 .. c - 1 : i \in PartAt(n, p)
    OBVIOUS
  <2>1. i \in 0 .. NUM_KEYS - 1
    BY DEF Indices
  <2>2. PICK p \in 0 .. c - 1 : i \in n * p .. n * (p + 1) - 1
    BY <1>4, <2>1
  <2>3. PartAt(n, p) = n * p .. n * (p + 1) - 1
    BY <1>7
  <2>4. i \in PartAt(n, p)
    BY <2>2, <2>3, Zenon
  <2> QED  BY <2>4
<1> QED  BY <1>6, <1>7, <1>8, <1>9

\* An index of a part.
LEMMA IndexOf ==
  ASSUME NEW c, NEW n, Even(c, n), NEW p \in 0 .. c - 1
  PROVE  /\ \A j \in 0 .. n - 1 : n * p + j \in PartAt(n, p) /\ n * p + j \in Indices
         /\ \A i \in PartAt(n, p) : i - n * p \in 0 .. n - 1 /\ n * p + (i - n * p) = i
         /\ p \in Nat /\ n * p \in Nat
<1>1. n \in Nat \ {0} /\ p \in Nat /\ n * p \in Nat
  BY DEF Even
<1>2. PICK m \in Nat : m = n * p
  BY <1>1
<1>3. PartAt(n, p) = m .. m + n - 1 /\ PartAt(n, p) \subseteq Indices
  BY <1>2, PartsOfKeys DEF PartAt
<1>4. \A j \in 0 .. n - 1 : m + j \in m .. m + n - 1
  BY <1>1
<1>5. \A i \in m .. m + n - 1 : i - m \in 0 .. n - 1 /\ m + (i - m) = i
  BY <1>1
<1> QED  BY <1>1, <1>2, <1>3, <1>4, <1>5

\* What is counted in the first parts.
LEMMA PartsAddUp ==
  ASSUME NEW c, NEW n, Even(c, n), NEW T \in SUBSET Indices,
         NEW f, \A p \in 0 .. c - 1 : f[p] = Cardinality(T \cap PartAt(n, p)),
         NEW m \in 0 .. c
  PROVE  SumTo(f, m) = Cardinality({i \in T : i < n * m})
<1> DEFINE A == [p \in 0 .. c - 1 |-> T \cap PartAt(n, p)]
<1>1. c \in Nat /\ n \in Nat /\ m \in Nat /\ \A p \in 0 .. m - 1 : p \in 0 .. c - 1
  BY DEF Even
<1>2. \A p \in 0 .. m - 1 : IsFiniteSet(A[p]) /\ f[p] = Cardinality(A[p])
  <2>1. \A p \in 0 .. c - 1 : T \cap PartAt(n, p) \in SUBSET Indices
    OBVIOUS
  <2> QED  BY <1>1, <2>1, Finite
<1>3. \A p, q \in 0 .. m - 1 : p # q => A[p] \cap A[q] = {}
  BY <1>1, PartsOfKeys
<1>4. {i \in T : i < n * m} = UNION {A[p] : p \in 0 .. m - 1}
  <2>1. ASSUME NEW i \in T, i < n * m PROVE \E p \in 0 .. m - 1 : i \in A[p]
    <3>1. PICK p \in 0 .. c - 1 : i \in PartAt(n, p)
      BY PartsOfKeys
    <3>2. n * p \in Nat /\ n * p <= i /\ p \in Nat /\ i \in Nat
      BY <3>1, PartsOfKeys, KeysAreNumbers DEF PartAt, Indices
    <3>3. p < m
      <4> SUFFICES ASSUME m <= p PROVE FALSE
        BY <1>1, <3>2
      <4>1. n * m <= n * p
        BY <1>1, <3>2
      <4> QED  BY <1>1, <2>1, <3>2, <4>1
    <3>4. p \in 0 .. m - 1
      BY <1>1, <3>2, <3>3
    <3> QED  BY <3>1, <3>4
  <2>2. ASSUME NEW p \in 0 .. m - 1, NEW i \in T \cap PartAt(n, p) PROVE i < n * m
    <3>1. p \in 0 .. c - 1 /\ p \in Nat /\ p + 1 <= m
      BY <1>1
    <3>2. n * p \in Nat /\ n * (p + 1) = n * p + n
      BY <3>1, PartsOfKeys
    <3>3. n * (p + 1) <= n * m
      BY <1>1, <3>1
    <3> QED  BY <1>1, <3>2, <3>3 DEF PartAt
  <2> QED  BY <1>1, <2>1, <2>2
<1>5. Parts(f, A, m, {i \in T : i < n * m})
  <2> HIDE DEF A
  <2> QED  BY <1>2, <1>3, <1>4 DEF Parts
<1> HIDE DEF A
<1> QED  BY <1>1, <1>5, SumOfSizes

\* The buckets of the processes, one after the other.
InOrder(D, c) ==
  /\ \A r \in 0 .. c - 1 : D[r] \subseteq Buckets
  /\ \A r, s \in 0 .. c - 1 : r < s => \A b \in D[r], e \in D[s] : b < e

\* The keys, of some places, whose buckets a process has, or one of those before it.
KeysFor(a, S, buckets) == {i \in S : BucketOf(a[i]) \in buckets}
KeysBefore(a, S, D, q) == {i \in S : \E r \in 0 .. q - 1 : BucketOf(a[i]) \in D[r]}

\* What is counted for the processes before one.
LEMMA GivenAddUp ==
  ASSUME NEW c \in Nat, NEW D, InOrder(D, c), NEW a, NEW S \in SUBSET Indices,
         NEW f, \A r \in 0 .. c - 1 : f[r] = Cardinality(KeysFor(a, S, D[r])),
         NEW q \in 0 .. c
  PROVE  SumTo(f, q) = Cardinality(KeysBefore(a, S, D, q))
<1> DEFINE A == [r \in 0 .. c - 1 |-> KeysFor(a, S, D[r])]
<1>1. q \in Nat /\ \A r \in 0 .. q - 1 : r \in 0 .. c - 1 /\ r \in Nat
  OBVIOUS
<1>2. \A r \in 0 .. q - 1 : IsFiniteSet(A[r]) /\ f[r] = Cardinality(A[r])
  <2>1. \A r \in 0 .. c - 1 : KeysFor(a, S, D[r]) \in SUBSET Indices
    BY DEF KeysFor
  <2> QED  BY <1>1, <2>1, Finite
<1>3. \A r, s \in 0 .. q - 1 : r # s => A[r] \cap A[s] = {}
  <2> SUFFICES ASSUME NEW r \in 0 .. q - 1, NEW s \in 0 .. q - 1, r # s, NEW i \in A[r] \cap A[s] PROVE FALSE
    OBVIOUS
  <2>1. /\ BucketOf(a[i]) \in D[r] /\ BucketOf(a[i]) \in D[s] /\ BucketOf(a[i]) \in Buckets
        /\ r \in 0 .. c - 1 /\ s \in 0 .. c - 1 /\ r \in Nat /\ s \in Nat
    BY <1>1 DEF KeysFor, InOrder
  <2>2. BucketOf(a[i]) < BucketOf(a[i])
    <3>1. r < s \/ s < r
      BY <2>1
    <3> QED  BY <2>1, <3>1 DEF InOrder
  <2>3. BucketOf(a[i]) \in Int
    BY <2>1, Sizes DEF Buckets
  <2> QED  BY <2>2, <2>3
<1>4. KeysBefore(a, S, D, q) = UNION {A[r] : r \in 0 .. q - 1}
  <2>1. \A r \in 0 .. q - 1 : A[r] = KeysFor(a, S, D[r])
    BY <1>1
  <2> HIDE DEF A
  <2>2. UNION {A[r] : r \in 0 .. q - 1} = {i \in S : \E r \in 0 .. q - 1 : i \in A[r]}
    BY <2>1 DEF KeysFor
  <2>3. \A i \in S : \A r \in 0 .. q - 1 : i \in A[r] <=> BucketOf(a[i]) \in D[r]
    BY <2>1 DEF KeysFor
  <2> QED  BY <2>2, <2>3 DEF KeysBefore
<1>5. Parts(f, A, q, KeysBefore(a, S, D, q))
  <2> HIDE DEF A
  <2> QED  BY <1>2, <1>3, <1>4 DEF Parts
<1> HIDE DEF A
<1> QED  BY <1>1, <1>5, SumOfSizes

\* What is counted in some of the buckets.
LEMMA KeysInIs ==
  ASSUME NEW a \in KeyArrays, NEW S \in SUBSET Indices,
         NEW sizes, \A b \in Buckets : sizes[b] = Cardinality({i \in S : BucketOf(a[i]) = b}),
         NEW D \in SUBSET Buckets
  PROVE  KeysIn(sizes, D) = Cardinality(KeysFor(a, S, D))
<1> DEFINE A == [b \in Buckets |-> IF b \in D THEN {i \in S : BucketOf(a[i]) = b} ELSE {}]
           f == [b \in Buckets |-> IF b \in D THEN sizes[b] ELSE 0]
<1>1. NUM_BUCKETS \in Nat /\ Buckets = 0 .. NUM_BUCKETS - 1
  BY Sizes DEF Buckets
<1>2. \A b \in Buckets : IsFiniteSet(A[b]) /\ f[b] = Cardinality(A[b])
  <2>1. \A b : {i \in S : BucketOf(a[i]) = b} \in SUBSET Indices
    OBVIOUS
  <2> QED  BY <2>1, Finite, FS_EmptySet
<1>3. \A b, e \in Buckets : b # e => A[b] \cap A[e] = {}
  OBVIOUS
<1>4. KeysFor(a, S, D) = UNION {A[b] : b \in Buckets}
  BY DEF KeysFor
<1>5. KeysIn(sizes, D) = SumTo(f, NUM_BUCKETS)
  BY DEF KeysIn
<1>6. Parts(f, A, NUM_BUCKETS, KeysFor(a, S, D))
  <2> HIDE DEF A, f
  <2> QED  BY <1>1, <1>2, <1>3, <1>4 DEF Parts
<1> HIDE DEF A, f
<1> QED  BY <1>1, <1>5, <1>6, SumOfSizes

-----------------------------------------------------------------------------
(* The buffers.                                                            *)

\* The keys that process p has of all of them.
Slice(a, n, p) == [j \in 0 .. n - 1 |-> a[n * p + j]]

\* Elements of a part, counted by their index in the part.
LEMMA PartSize ==
  ASSUME NEW c, NEW n, Even(c, n), NEW p \in 0 .. c - 1, NEW T \in SUBSET PartAt(n, p),
         NEW U \in SUBSET (0 .. n - 1), \A j \in 0 .. n - 1 : j \in U <=> n * p + j \in T
  PROVE  Cardinality(U) = Cardinality(T)
<1>1. PICK m : m = n * p
  OBVIOUS
<1>2. /\ m \in Nat /\ n \in Nat
      /\ \A j \in 0 .. n - 1 : m + j \in PartAt(n, p)
      /\ \A i \in PartAt(n, p) : i - m \in 0 .. n - 1 /\ m + (i - m) = i
  <2>1. /\ \A j \in 0 .. n - 1 : n * p + j \in PartAt(n, p) /\ n * p + j \in Indices
        /\ \A i \in PartAt(n, p) : i - n * p \in 0 .. n - 1 /\ n * p + (i - n * p) = i
        /\ p \in Nat /\ n * p \in Nat
    BY IndexOf
  <2>2. n \in Nat
    BY DEF Even
  <2> QED  BY <1>1, <2>1, <2>2, Zenon
<1>3. U \in SUBSET Nat /\ IsFiniteSet(U)
  <2>1. IsFiniteSet(0 .. n - 1)
    BY <1>2, FS_Interval
  <2>2. IsFiniteSet(U)
    BY <2>1, FS_Subset
  <2>3. \A j \in 0 .. n - 1 : j \in Nat
    BY <1>2
  <2> QED  BY <2>2, <2>3
<1> DEFINE f == [j \in U |-> m + j]
<1>4. \A j \in U : f[j] = m + j
  OBVIOUS
<1>5. \A x, y \in U : f[x] = f[y] => x = y
  BY <1>2, <1>3, <1>4
<1>6. {f[j] : j \in U} = T
  <2>1. ASSUME NEW i \in T PROVE \E j \in U : f[j] = i
    <3>1. i - m \in 0 .. n - 1 /\ m + (i - m) = i
      BY <1>2
    <3>2. i - m \in U
      BY <1>1, <3>1
    <3> QED  BY <1>4, <3>1, <3>2
  <2>2. \A j \in U : f[j] \in T
    BY <1>1, <1>4
  <2> HIDE DEF f
  <2> QED  BY <2>1, <2>2
<1> HIDE DEF f
<1> QED  BY <1>3, <1>5, <1>6, SameSize

\* In what order the keys are in a buffer.
Lower(a, x, y) == BucketOf(a[x]) < BucketOf(a[y]) \/ (BucketOf(a[x]) = BucketOf(a[y]) /\ x < y)

\* Every key has a place of its own in the buffer.
LEMMA SlotsOfPart ==
  ASSUME NEW c, NEW n, Even(c, n), NEW p \in 0 .. c - 1, NEW a \in KeyArrays, NEW keys, keys = Slice(a, n, p)
  PROVE  /\ \A j \in 0 .. n - 1 : SlotOf(keys, j) \in 0 .. n - 1
         /\ \A i, j \in 0 .. n - 1 : SlotOf(keys, i) = SlotOf(keys, j) => i = j
         /\ DOMAIN ByBucket(keys) = 0 .. n - 1
         /\ \A j \in 0 .. n - 1 : ByBucket(keys)[SlotOf(keys, j)] = a[n * p + j]
         /\ \A j \in 0 .. n - 1 : SlotOf(keys, j) = Cardinality({x \in PartAt(n, p) : Lower(a, x, n * p + j)})
<1>1. n \in Nat /\ DOMAIN keys = 0 .. n - 1 /\ \A j \in 0 .. n - 1 : keys[j] = a[n * p + j]
  BY DEF Even, Slice
<1>2. \A j \in 0 .. n - 1 : keys[j] \in KeyRange
  <2>1. \A j \in 0 .. n - 1 : n * p + j \in Indices
    BY IndexOf
  <2> QED  BY <1>1, <2>1, KeysAreNumbers
<1>3. \A j \in 0 .. n - 1 : BucketOf(keys[j]) \in Int
  <2>1. \A v \in KeyRange : BucketOf(v) \in Buckets
    BY BucketIs
  <2>2. Buckets \subseteq Int
    BY Sizes DEF Buckets
  <2> QED  BY <1>2, <2>1, <2>2
<1> DEFINE S == 0 .. n - 1
           R == {xy \in S \X S : Lower(keys, xy[1], xy[2])}
           place == [x \in S |-> Cardinality({y \in S : <<y, x>> \in R})]
<1>4. IsFiniteSet(S) /\ Cardinality(S) = n
  <2>1. IsFiniteSet(S) /\ Cardinality(S) = IF 0 > n - 1 THEN 0 ELSE (n - 1) - 0 + 1
    BY <1>1, FS_Interval
  <2> QED  BY <1>1, <2>1
<1>5. \A x, y : <<x, y>> \in R <=> x \in S /\ y \in S /\ Lower(keys, x, y)
  OBVIOUS
<1>6. Strict(R, S)
  <2>1. ASSUME NEW x \in S, NEW y \in S, NEW z \in S, Lower(keys, x, y), Lower(keys, y, z)
        PROVE  Lower(keys, x, z)
    <3>1. PICK u \in Int, v \in Int, w \in Int : u = BucketOf(keys[x]) /\ v = BucketOf(keys[y]) /\ w = BucketOf(keys[z])
      BY <1>3
    <3>2. (u < v \/ (u = v /\ x < y)) /\ (v < w \/ (v = w /\ y < z))
      BY <1>1, <2>1, <3>1 DEF Lower
    <3>3. u < w \/ (u = w /\ x < z)
      BY <1>1, <3>2
    <3> QED  BY <3>1, <3>3 DEF Lower
  <2>2. ASSUME NEW x \in S, NEW y \in S, x # y
        PROVE  Lower(keys, x, y) \/ Lower(keys, y, x)
    <3>1. PICK u \in Int, v \in Int : u = BucketOf(keys[x]) /\ v = BucketOf(keys[y])
      BY <1>3
    <3>2. u < v \/ (u = v /\ x < y) \/ v < u \/ (v = u /\ y < x)
      BY <1>1, <2>2
    <3> QED  BY <3>1, <3>2 DEF Lower
  <2>3. \A x \in S : ~Lower(keys, x, x)
    BY <1>1, <1>3 DEF Lower
  <2> HIDE DEF R, S
  <2> QED  BY <1>5, <2>1, <2>2, <2>3 DEF Strict
<1>7. \A j \in S : place[j] = SlotOf(keys, j)
  <2> SUFFICES ASSUME NEW j \in S PROVE place[j] = SlotOf(keys, j)
    OBVIOUS
  <2>1. {y \in S : <<y, j>> \in R} = {y \in S : Lower(keys, y, j)}
    <3> HIDE DEF R, S
    <3> QED  BY <1>5
  <2>2. place[j] = Cardinality({y \in S : <<y, j>> \in R})
    OBVIOUS
  <2>3. SlotOf(keys, j) = Cardinality({y \in S : Lower(keys, y, j)})
    BY <1>1 DEF SlotOf, Lower
  <2> HIDE DEF R, place, S
  <2> QED  BY <2>1, <2>2, <2>3
<1>8. /\ place \in [S -> 0 .. Cardinality(S) - 1]
      /\ \A x, y \in S : place[x] = place[y] => x = y
      /\ \A k \in 0 .. Cardinality(S) - 1 : \E x \in S : place[x] = k
  <2>1. place = [x \in S |-> Cardinality({y \in S : <<y, x>> \in R})]
    OBVIOUS
  <2> HIDE DEF R, S, place
  <2> QED  BY <1>4, <1>6, <2>1, Places
<1> HIDE DEF place, R
<1>9. /\ \A j \in 0 .. n - 1 : SlotOf(keys, j) \in 0 .. n - 1
      /\ \A i, j \in 0 .. n - 1 : SlotOf(keys, i) = SlotOf(keys, j) => i = j
  <2>1. place \in [S -> 0 .. n - 1]
    <3> HIDE DEF S
    <3> QED  BY <1>4, <1>8
  <2>2. \A j \in S : place[j] \in 0 .. n - 1
    <3> HIDE DEF S
    <3> QED  BY <2>1
  <2>3. \A j \in S : SlotOf(keys, j) \in 0 .. n - 1
    <3> HIDE DEF S
    <3> QED  BY <1>7, <2>2
  <2>4. \A i, j \in S : SlotOf(keys, i) = SlotOf(keys, j) => i = j
    <3> HIDE DEF S
    <3> QED  BY <1>7, <1>8
  <2> QED  BY <2>3, <2>4
<1>10. /\ DOMAIN ByBucket(keys) = 0 .. n - 1
       /\ \A j \in 0 .. n - 1 : ByBucket(keys)[SlotOf(keys, j)] = a[n * p + j]
  <2>1. ByBucket(keys) = [k \in 0 .. n - 1 |-> keys[CHOOSE i \in 0 .. n - 1 : SlotOf(keys, i) = k]]
    BY <1>1 DEF ByBucket
  <2>2. ASSUME NEW j \in 0 .. n - 1 PROVE ByBucket(keys)[SlotOf(keys, j)] = a[n * p + j]
    <3>1. (CHOOSE i \in 0 .. n - 1 : SlotOf(keys, i) = SlotOf(keys, j)) = j
      BY <1>9
    <3> QED  BY <1>1, <1>9, <2>1, <3>1
  <2> QED  BY <2>1, <2>2
<1>11. ASSUME NEW j \in 0 .. n - 1
       PROVE  SlotOf(keys, j) = Cardinality({x \in PartAt(n, p) : Lower(a, x, n * p + j)})
  <2> DEFINE U == {y \in 0 .. n - 1 : Lower(keys, y, j)}
             T == {x \in PartAt(n, p) : Lower(a, x, n * p + j)}
  <2>1. SlotOf(keys, j) = Cardinality(U)
    BY <1>1 DEF SlotOf, Lower
  <2>2. \A y \in 0 .. n - 1 : y \in U <=> n * p + y \in T
    <3> SUFFICES ASSUME NEW y \in 0 .. n - 1 PROVE y \in U <=> n * p + y \in T
      OBVIOUS
    <3>1. n * p + y \in PartAt(n, p) /\ n * p \in Nat
      BY IndexOf
    <3>2. PICK m \in Nat : m = n * p
      BY <3>1
    <3>3. keys[y] = a[m + y] /\ keys[j] = a[m + j]
      BY <1>1, <3>2
    <3>4. m + y < m + j <=> y < j
      BY <1>1
    <3> QED  BY <3>1, <3>2, <3>3, <3>4 DEF Lower
  <2>3. T \in SUBSET PartAt(n, p) /\ U \in SUBSET (0 .. n - 1)
    OBVIOUS
  <2> HIDE DEF T, U
  <2>4. Cardinality(U) = Cardinality(T)
    BY <2>2, <2>3, PartSize
  <2> QED  BY <2>1, <2>4 DEF T
<1> QED  BY <1>9, <1>10, <1>11

\* Every key's bucket is a process's.
Covers(D, c, a) == \A i \in Indices : \E r \in 0 .. c - 1 : BucketOf(a[i]) \in D[r]

\* The keys for one process and for those before it: more by the ones for it.
LEMMA BeforeAndFor ==
  ASSUME NEW c \in Nat, NEW D, InOrder(D, c), NEW a \in KeyArrays, NEW S \in SUBSET Indices,
         NEW q \in 0 .. c - 1
  PROVE  /\ KeysBefore(a, S, D, q + 1) = KeysBefore(a, S, D, q) \cup KeysFor(a, S, D[q])
         /\ Cardinality(KeysBefore(a, S, D, q + 1))
              = Cardinality(KeysBefore(a, S, D, q)) + Cardinality(KeysFor(a, S, D[q]))
         /\ KeysBefore(a, S, D, q) \in SUBSET Indices /\ KeysFor(a, S, D[q]) \in SUBSET Indices
<1>1. KeysBefore(a, S, D, q) \in SUBSET Indices /\ KeysFor(a, S, D[q]) \in SUBSET Indices
  BY DEF KeysBefore, KeysFor
<1>2. KeysBefore(a, S, D, q + 1) = KeysBefore(a, S, D, q) \cup KeysFor(a, S, D[q])
  <2>1. 0 .. (q + 1) - 1 = (0 .. q - 1) \cup {q}
    OBVIOUS
  <2> QED  BY <2>1 DEF KeysBefore, KeysFor
<1>3. KeysBefore(a, S, D, q) \cap KeysFor(a, S, D[q]) = {}
  <2> SUFFICES ASSUME NEW i \in S, NEW r \in 0 .. q - 1, BucketOf(a[i]) \in D[r], BucketOf(a[i]) \in D[q] PROVE FALSE
    BY DEF KeysBefore, KeysFor
  <2>1. r \in 0 .. c - 1 /\ r < q
    OBVIOUS
  <2>2. BucketOf(a[i]) < BucketOf(a[i])
    BY <2>1 DEF InOrder
  <2>3. BucketOf(a[i]) \in Nat
    <3>1. i \in Indices
      OBVIOUS
    <3> QED  BY <3>1, BeforeIs
  <2> QED  BY <2>2, <2>3
<1> QED  BY <1>1, <1>2, <1>3, Finite, SizeOfTwo

\* The places of a process's keys for another one are next to each other.
LEMMA SlotBetween ==
  ASSUME NEW c, NEW n, Even(c, n), NEW p \in 0 .. c - 1, NEW a \in KeyArrays,
         NEW D, InOrder(D, c), Covers(D, c, a), NEW q \in 0 .. c - 1,
         NEW i \in PartAt(n, p), BucketOf(a[i]) \in D[q]
  PROVE  /\ Cardinality(KeysBefore(a, PartAt(n, p), D, q)) <= Cardinality({x \in PartAt(n, p) : Lower(a, x, i)})
         /\ Cardinality({x \in PartAt(n, p) : Lower(a, x, i)})
              < Cardinality(KeysBefore(a, PartAt(n, p), D, q)) + Cardinality(KeysFor(a, PartAt(n, p), D[q]))
<1> DEFINE P == PartAt(n, p)
           L == {x \in P : Lower(a, x, i)}
           B == KeysBefore(a, P, D, q)
           W == KeysBefore(a, P, D, q + 1)
<1>1. P \in SUBSET Indices /\ c \in Nat
  BY PartsOfKeys DEF Even
<1>2. L \in SUBSET Indices /\ B \in SUBSET Indices /\ W \in SUBSET Indices
  BY <1>1 DEF KeysBefore
<1>3. \A x \in P : BucketOf(a[x]) \in Nat /\ x \in Nat
  BY <1>1, BeforeIs, KeysAreNumbers
<1>4. B \subseteq L
  <2> SUFFICES ASSUME NEW x \in P, NEW r \in 0 .. q - 1, BucketOf(a[x]) \in D[r] PROVE x \in L
    BY DEF KeysBefore
  <2>1. r \in 0 .. c - 1 /\ r < q
    BY <1>1
  <2>2. BucketOf(a[x]) < BucketOf(a[i])
    BY <2>1 DEF InOrder
  <2> QED  BY <2>2 DEF Lower
<1>5. L \subseteq W
  <2> SUFFICES ASSUME NEW x \in L PROVE x \in W
    OBVIOUS
  <2>1. BucketOf(a[x]) <= BucketOf(a[i])
    BY <1>3 DEF Lower
  <2>2. PICK r \in 0 .. c - 1 : BucketOf(a[x]) \in D[r]
    BY <1>1 DEF Covers
  <2>3. r <= q
    <3> SUFFICES ASSUME q < r PROVE FALSE
      BY <1>1
    <3>1. BucketOf(a[i]) < BucketOf(a[x])
      BY <2>2 DEF InOrder
    <3> QED  BY <1>3, <2>1, <3>1
  <2>4. r \in 0 .. (q + 1) - 1
    BY <1>1, <2>3
  <2> QED  BY <2>2, <2>4 DEF KeysBefore
<1>6. i \in W /\ i \notin L
  <2>1. q \in 0 .. (q + 1) - 1
    BY <1>1
  <2>2. i \in W
    BY <2>1 DEF KeysBefore
  <2> QED  BY <1>3, <2>2 DEF Lower
<1>7. Cardinality(W) = Cardinality(B) + Cardinality(KeysFor(a, P, D[q]))
  <2>1. PICK S \in SUBSET Indices : S = P
    BY <1>1
  <2>2. Cardinality(KeysBefore(a, S, D, q + 1)) = Cardinality(KeysBefore(a, S, D, q)) + Cardinality(KeysFor(a, S, D[q]))
    <3> HIDE DEF P, L, B, W
    <3>1. \A T \in SUBSET Indices : Cardinality(KeysBefore(a, T, D, q + 1))
            = Cardinality(KeysBefore(a, T, D, q)) + Cardinality(KeysFor(a, T, D[q]))
      <4>1. c \in Nat
        BY <1>1
      <4> QED  BY <4>1, BeforeAndFor, Z3
    <3> QED  BY <3>1
  <2> QED  BY <2>1, <2>2
<1> HIDE DEF L, W, B, P
<1>8. Cardinality(B) <= Cardinality(L)
  BY <1>2, <1>4, Smaller
<1>9. Cardinality(L) < Cardinality(W)
  BY <1>2, <1>5, <1>6, Smaller
<1> QED  BY <1>7, <1>8, <1>9 DEF L, B, P

\* The keys of a process are those that the serial code has in its place.
LEMMA KeysOfProcess ==
  ASSUME NEW c, NEW n, Even(c, n), NEW e \in Nat, n = Power2[e], (4 * NUM_KEYS) \div c = Power2[e + 2],
         Power2[e + 2] = 4 * Power2[e], NEW p \in 0 .. c - 1, NEW s \in 0 .. Wrap - 1
  PROVE  create_seq(MpiSeed(p, c, 4 * NUM_KEYS, s), n) = Slice(TheKeys(s), n, p)
<1>0. s \in Nat /\ n \in Nat /\ p \in Nat /\ NUM_KEYS \in Nat /\ e + 2 \in Nat
  BY Sizes, WrapIsPositive, IndexOf DEF Even
<1>1. PICK nn \in Nat : nn = 4 * NUM_KEYS
  BY <1>0
<1>2. PICK m \in Nat : m = 4 * (n * p) /\ m = Power2[e + 2] * p
  <2>1. PICK x \in Nat : x = n * p
    BY <1>0
  <2>2. Power2[e + 2] * p = 4 * (n * p)
    BY <1>0
  <2> QED  BY <2>1, <2>2
<1>3. MpiSeed(p, c, nn, s) = Number(s, m)
  <2>1. nn \div c = Power2[e + 2]
    BY <1>1
  <2>2. MpiSeed(p, c, nn, s) = Stream(s, multiplier)[Power2[e + 2] * p]
    BY <1>0, <2>1, MpiSeedIs
  <2> QED  BY <1>2, <2>2 DEF Number
<1>4. PICK u \in Nat : u = Number(s, m)
  BY <1>0, <1>2, NumberIs
<1>5. create_seq(u, n) = [j \in 0 .. n - 1 |-> KeyAt(u, j)]
  BY <1>0, CreateSeqIs
<1>6. ASSUME NEW j \in 0 .. n - 1 PROVE KeyAt(u, j) = TheKeys(s)[n * p + j]
  <2>1. PICK i \in Nat : i = n * p + j
    <3>1. n * p \in Nat /\ j \in Nat
      BY <1>0
    <3> QED  BY <3>1
  <2>2. 4 * i = m + 4 * j
    <3>1. PICK x \in Nat : x = n * p
      BY <1>0
    <3> QED  BY <1>2, <2>1, <3>1
  <2>3. \A k \in 1 .. 4 : Number(u, 4 * j + k) = Number(s, 4 * i + k)
    <3> SUFFICES ASSUME NEW k \in 1 .. 4 PROVE Number(u, 4 * j + k) = Number(s, 4 * i + k)
      OBVIOUS
    <3>1. 4 * j + k \in Nat /\ m + (4 * j + k) = 4 * i + k
      BY <2>2
    <3>2. Number(u, 4 * j + k) = Number(s, m + (4 * j + k))
      BY <1>0, <1>4, <3>1, NumbersGoOn
    <3> QED  BY <3>1, <3>2
  <2>4. KeyAt(u, j) = KeyAt(s, i)
    BY <2>3 DEF KeyAt
  <2>5. i \in Indices
    BY <2>1, IndexOf
  <2>6. TheKeys(s)[i] = KeyAt(s, i)
    BY <2>5, TheKeysInRange
  <2> QED  BY <2>1, <2>4, <2>6
<1> QED  BY <1>1, <1>3, <1>4, <1>5, <1>6 DEF Slice

\* Only the first process has keys that are altered.
LEMMA SliceOfAltered ==
  ASSUME NEW c, NEW n, Even(c, n), 2 * MAX_ITERATIONS < n, NEW p \in 0 .. c - 1,
         NEW a \in KeyArrays, NEW r \in 1 .. MAX_ITERATIONS
  PROVE  Slice(Altered(a, r), n, p) = IF p = 0 THEN Altered(Slice(a, n, p), r) ELSE Slice(a, n, p)
<1>1. n \in Nat /\ MAX_ITERATIONS \in Nat /\ r \in Nat
  BY SizesAssumption DEF Even
<1>2. r \in 0 .. n - 1 /\ r + MAX_ITERATIONS \in 0 .. n - 1 /\ r # r + MAX_ITERATIONS
  BY <1>1
<1>3. PICK x : x = MAX_KEY - r
  OBVIOUS
<1>4. PICK m : m = r + MAX_ITERATIONS
  OBVIOUS
<1>5. \A f : Altered(f, r) = [f EXCEPT ![r] = r, ![m] = x]
  BY <1>3, <1>4 DEF Altered
<1>6. \A i \in Indices : Altered(a, r)[i] = IF i = m THEN x ELSE IF i = r THEN r ELSE a[i]
  BY <1>5 DEF KeyArrays
<1>7. PICK q \in Nat : q = n * p
  BY IndexOf
<1>8. \A j \in 0 .. n - 1 : q + j \in Indices
  BY <1>7, IndexOf
<1>9. Slice(Altered(a, r), n, p) = [j \in 0 .. n - 1 |-> IF q + j = m THEN x ELSE IF q + j = r THEN r ELSE a[q + j]]
  BY <1>6, <1>7, <1>8 DEF Slice
<1>10. Slice(a, n, p) = [j \in 0 .. n - 1 |-> a[q + j]]
  BY <1>7 DEF Slice
<1>11. CASE p = 0
  <2>1. q = 0
    BY <1>1, <1>7, <1>11
  <2>2. \A j \in 0 .. n - 1 : q + j = j
    BY <2>1
  <2>3. PICK f : f = Slice(a, n, p)
    OBVIOUS
  <2>4. f = [j \in 0 .. n - 1 |-> a[q + j]] /\ DOMAIN f = 0 .. n - 1
    BY <1>10, <2>3
  <2>5. PICK g : g = [f EXCEPT ![r] = r, ![m] = x]
    OBVIOUS
  <2>6. PICK h : h = [j \in 0 .. n - 1 |-> IF q + j = m THEN x ELSE IF q + j = r THEN r ELSE a[q + j]]
    OBVIOUS
  <2>7. g = h
    <3>1. DOMAIN g = 0 .. n - 1 /\ g = [j \in 0 .. n - 1 |-> g[j]]
      BY <2>4, <2>5
    <3>2. h = [j \in 0 .. n - 1 |-> h[j]]
      BY <2>6
    <3>3. ASSUME NEW j \in 0 .. n - 1 PROVE g[j] = h[j]
      <4>1. q + j = j
        BY <2>2
      <4>2. h[j] = IF j = m THEN x ELSE IF j = r THEN r ELSE a[q + j]
        BY <2>6, <4>1
      <4>3. g[j] = IF j = m THEN x ELSE IF j = r THEN r ELSE f[j]
        BY <2>4, <2>5
      <4>4. f[j] = a[q + j]
        BY <2>4
      <4> QED  BY <4>2, <4>3, <4>4
    <3> QED  BY <3>1, <3>2, <3>3, Zenon
  <2>8. Altered(f, r) = g
    BY <1>5, <2>5, Zenon
  <2>9. Slice(Altered(a, r), n, p) = h
    BY <1>9, <2>6, Zenon
  <2> QED  BY <1>11, <2>3, <2>7, <2>8, <2>9, Zenon
<1>12. CASE p # 0
  <2>1. q >= n
    <3>1. p \in Nat /\ p >= 1
      BY <1>12, IndexOf
    <3> QED  BY <1>1, <1>7, <3>1
  <2>2. \A j \in 0 .. n - 1 : q + j # m /\ q + j # r
    BY <1>1, <1>2, <1>4, <2>1
  <2> QED  BY <1>9, <1>10, <1>12, <2>2
<1> QED  BY <1>11, <1>12

\* The places of a set with a key of a bucket.
Having(keys, S, b) == {k \in S : BucketOf(keys[k]) = b}

\* What a process counts in its part.
LEMMA SliceCounts ==
  ASSUME NEW c, NEW n, Even(c, n), NEW p \in 0 .. c - 1, NEW a \in KeyArrays, NEW keys, keys = Slice(a, n, p), NEW b
  PROVE  Cardinality(Having(keys, DOMAIN keys, b)) = Cardinality(Having(a, PartAt(n, p), b))
<1> DEFINE U == {k \in 0 .. n - 1 : BucketOf(keys[k]) = b}
           T == {i \in PartAt(n, p) : BucketOf(a[i]) = b}
<1>1. DOMAIN keys = 0 .. n - 1 /\ \A j \in 0 .. n - 1 : keys[j] = a[n * p + j]
  BY DEF Slice
<1>2. \A j \in 0 .. n - 1 : j \in U <=> n * p + j \in T
  BY <1>1, IndexOf
<1>3. T \in SUBSET PartAt(n, p) /\ U \in SUBSET (0 .. n - 1)
  OBVIOUS
<1>4. Having(keys, DOMAIN keys, b) = U /\ Having(a, PartAt(n, p), b) = T
  BY <1>1 DEF Having
<1> HIDE DEF T, U
<1>5. Cardinality(U) = Cardinality(T)
  BY <1>2, <1>3, PartSize
<1> QED  BY <1>4, <1>5

\* Where a test key is: in the part of one process.
LEMMA TestKeyAt ==
  ASSUME NEW c, NEW n, Even(c, n), NEW p \in 0 .. c - 1, NEW i \in Indices
  PROVE  /\ i \div n = p <=> i \in PartAt(n, p)
         /\ i \div n = p => i % n \in 0 .. n - 1 /\ n * p + (i % n) = i
<1>1. n \in Nat \ {0} /\ i \in Nat /\ p \in Nat /\ n * p \in Nat
  BY Sizes, IndexOf DEF Even, Indices
<1>2. i = (i \div n) * n + (i % n) /\ i % n \in 0 .. n - 1 /\ i \div n \in Nat
  BY <1>1, Division
<1>3. i \div n = p => n * p + (i % n) = i
  BY <1>1, <1>2
<1>4. i \div n = p => i \in PartAt(n, p)
  <2>1. PICK x \in 0 .. n - 1 : x = i % n
    BY <1>2
  <2> QED  BY <1>3, <2>1, IndexOf
<1>5. i \in PartAt(n, p) => i \div n = p
  <2> SUFFICES ASSUME i \in PartAt(n, p) PROVE i \div n = p
    OBVIOUS
  <2>1. PICK r \in 0 .. n - 1 : r = i - n * p /\ n * p + r = i
    BY IndexOf
  <2>2. i = p * n + r
    BY <1>1, <2>1
  <2> QED  BY <1>1, <2>2, Remainder
<1> QED  BY <1>2, <1>3, <1>4, <1>5

-----------------------------------------------------------------------------
(* What is exchanged.                                                      *)

\* All the sizes are those of the keys in a.
SizesAre(a) ==
  \A p \in Processes : \A b \in Buckets :
    bucket_sizes[p][b] = Cardinality({i \in PartAt(num_keys, p) : BucketOf(a[i]) = b})

\* What the processes send to each other, and where it is in their buffers.
LEMMA SentIs ==
  ASSUME Even(comm_size, num_keys), NEW a \in KeyArrays, InOrder(Distribution, comm_size), SizesAre(a)
  PROVE  /\ \A p, q \in Processes :
              send_count(p, q) = Cardinality(KeysFor(a, PartAt(num_keys, p), Distribution[q]))
         /\ \A p \in Processes, q \in 0 .. comm_size :
              send_displ(p, q) = Cardinality(KeysBefore(a, PartAt(num_keys, p), Distribution, q))
         /\ \A q \in Processes, p \in 0 .. comm_size :
              recv_displ(q, p) = Cardinality({i \in KeysFor(a, Indices, Distribution[q]) : i < num_keys * p})
<1>1. PICK n : n = num_keys
  OBVIOUS
<1>2. PICK D : D = Distribution
  OBVIOUS
<1>3. PICK c : c = comm_size
  OBVIOUS
<1>4. Even(c, n) /\ InOrder(D, c) /\ c \in Nat /\ Processes = 0 .. c - 1
  BY <1>1, <1>2, <1>3 DEF Even, Processes
<1>5. \A p \in 0 .. c - 1 : PartAt(n, p) \in SUBSET Indices
  BY <1>4, PartsOfKeys
<1>6. ASSUME NEW p \in 0 .. c - 1, NEW q \in 0 .. c - 1
      PROVE  send_count(p, q) = Cardinality(KeysFor(a, PartAt(n, p), D[q]))
  <2>1. D[q] \in SUBSET Buckets
    BY <1>4 DEF InOrder
  <2>2. \A b \in Buckets : bucket_sizes[p][b] = Cardinality({i \in PartAt(n, p) : BucketOf(a[i]) = b})
    BY <1>1, <1>4 DEF SizesAre
  <2>3. KeysIn(bucket_sizes[p], D[q]) = Cardinality(KeysFor(a, PartAt(n, p), D[q]))
    BY <1>5, <2>1, <2>2, KeysInIs
  <2> QED  BY <1>2, <2>3 DEF send_count
<1>7. ASSUME NEW p \in 0 .. c - 1, NEW q \in 0 .. c
      PROVE  send_displ(p, q) = Cardinality(KeysBefore(a, PartAt(n, p), D, q))
  <2>1. PICK f : f = [r \in Processes |-> send_count(p, r)]
    OBVIOUS
  <2>2. \A r \in 0 .. c - 1 : f[r] = Cardinality(KeysFor(a, PartAt(n, p), D[r]))
    BY <1>4, <1>6, <2>1
  <2>3. SumTo(f, q) = Cardinality(KeysBefore(a, PartAt(n, p), D, q))
    BY <1>4, <1>5, <2>2, GivenAddUp
  <2> QED  BY <2>1, <2>3 DEF send_displ
<1>8. ASSUME NEW q \in 0 .. c - 1, NEW p \in 0 .. c
      PROVE  recv_displ(q, p) = Cardinality({i \in KeysFor(a, Indices, D[q]) : i < n * p})
  <2>1. PICK f : f = [r \in Processes |-> send_count(r, q)]
    OBVIOUS
  <2>2. PICK T \in SUBSET Indices : T = KeysFor(a, Indices, D[q])
    BY DEF KeysFor
  <2>3. \A r \in 0 .. c - 1 : f[r] = Cardinality(T \cap PartAt(n, r))
    <3> SUFFICES ASSUME NEW r \in 0 .. c - 1 PROVE f[r] = Cardinality(T \cap PartAt(n, r))
      OBVIOUS
    <3>1. T \cap PartAt(n, r) = KeysFor(a, PartAt(n, r), D[q])
      BY <1>5, <2>2 DEF KeysFor
    <3> QED  BY <1>4, <1>6, <2>1, <3>1
  <2>4. SumTo(f, p) = Cardinality({i \in T : i < n * p})
    BY <1>4, <2>3, PartsAddUp, SMTT(60)
  <2> QED  BY <2>1, <2>2, <2>4 DEF recv_displ
<1>9. \A p, q \in Processes : send_count(p, q) = Cardinality(KeysFor(a, PartAt(n, p), D[q]))
  BY <1>4, <1>6
<1>10. \A p \in Processes, q \in 0 .. c : send_displ(p, q) = Cardinality(KeysBefore(a, PartAt(n, p), D, q))
  BY <1>4, <1>7
<1>11. \A q \in Processes, p \in 0 .. c :
         recv_displ(q, p) = Cardinality({i \in KeysFor(a, Indices, D[q]) : i < n * p})
  BY <1>4, <1>8
<1> QED  BY <1>1, <1>2, <1>3, <1>9, <1>10, <1>11

\* The keys of T came, each to a place of its own.
Arrived(recv, a, T) ==
  /\ DOMAIN recv = 0 .. Cardinality(T) - 1
  /\ \E h \in [T -> 0 .. Cardinality(T) - 1] :
       /\ \A i, j \in T : h[i] = h[j] => i = j
       /\ \A k \in 0 .. Cardinality(T) - 1 : \E i \in T : h[i] = k
       /\ \A i \in T : recv[h[i]] = a[i]

\* One to one, and no more places than keys: every place is taken.
LEMMA AllPlacesTaken ==
  ASSUME NEW T \in SUBSET Indices, NEW h, \A i \in T : h[i] \in 0 .. Cardinality(T) - 1,
         \A i, j \in T : h[i] = h[j] => i = j
  PROVE  \A k \in 0 .. Cardinality(T) - 1 : \E i \in T : h[i] = k
<1>1. IsFiniteSet(T) /\ Cardinality(T) \in Nat
  BY Finite
<1>2. PICK m \in Nat : m = Cardinality(T)
  BY <1>1
<1>3. PICK R : R = {h[i] : i \in T}
  OBVIOUS
<1>4. Cardinality(R) = m
  BY <1>1, <1>2, <1>3, SameSize
<1>5. IsFiniteSet(0 .. m - 1) /\ Cardinality(0 .. m - 1) = m
  <2>1. IsFiniteSet(0 .. m - 1) /\ Cardinality(0 .. m - 1) = IF 0 > m - 1 THEN 0 ELSE (m - 1) - 0 + 1
    BY FS_Interval
  <2> QED  BY <2>1
<1>6. R \in SUBSET (0 .. m - 1)
  BY <1>2, <1>3
<1>7. R = 0 .. m - 1
  BY <1>4, <1>5, <1>6, FS_Subset
<1> QED  BY <1>2, <1>3, <1>7

\* Where the keys with certain values are.
Among(f, S, V) == {i \in S : f[i] \in V}

\* What is counted among the keys that came is what there is of them.
LEMMA ArrivedCounts ==
  ASSUME NEW a \in KeyArrays, NEW T \in SUBSET Indices, NEW recv, Arrived(recv, a, T), NEW V
  PROVE  Cardinality(Among(recv, 0 .. Cardinality(T) - 1, V)) = Cardinality(Among(a, T, V))
<1>1. PICK m : m = Cardinality(T)
  OBVIOUS
<1>2. PICK h \in [T -> 0 .. m - 1] :
        /\ \A i, j \in T : h[i] = h[j] => i = j
        /\ \A k \in 0 .. m - 1 : \E i \in T : h[i] = k
        /\ \A i \in T : recv[h[i]] = a[i]
  BY <1>1 DEF Arrived
<1>3. PICK U \in SUBSET T : U = Among(a, T, V)
  BY DEF Among
<1>4. IsFiniteSet(U)
  BY <1>3, Finite
<1>5. {h[i] : i \in U} = Among(recv, 0 .. m - 1, V)
  BY <1>2, <1>3 DEF Among
<1>6. Cardinality({h[i] : i \in U}) = Cardinality(U)
  <2>1. \A x, y \in U : h[x] = h[y] => x = y
    BY <1>2
  <2> QED  BY <1>4, <2>1, SameSize
<1> QED  BY <1>1, <1>3, <1>5, <1>6

\* The values that came are keys.
LEMMA ArrivedKeys ==
  ASSUME NEW a \in KeyArrays, NEW T \in SUBSET Indices, NEW recv, Arrived(recv, a, T),
         NEW k \in 0 .. Cardinality(T) - 1
  PROVE  recv[k] \in KeyRange
<1>1. PICK h :
        /\ \A j \in 0 .. Cardinality(T) - 1 : \E i \in T : h[i] = j
        /\ \A i \in T : recv[h[i]] = a[i]
  BY DEF Arrived
<1>2. PICK i \in T : h[i] = k
  BY <1>1
<1> QED  BY <1>1, <1>2, KeysAreNumbers

\* Where the keys up to a value are, and those of a value.
UpToValue(f, S, v) == {i \in S : f[i] <= v}
OfValue(f, S, v) == {i \in S : f[i] = v}

\* Up to a value, and of a value.
LEMMA ArrivedUpTo ==
  ASSUME NEW a \in KeyArrays, NEW T \in SUBSET Indices, NEW recv, Arrived(recv, a, T), NEW v \in KeyRange
  PROVE  /\ Cardinality(UpToValue(recv, 0 .. Cardinality(T) - 1, v)) = Cardinality(UpToValue(a, T, v))
         /\ Cardinality(OfValue(recv, 0 .. Cardinality(T) - 1, v)) = Cardinality(OfValue(a, T, v))
<1>1. PICK V : V = {x \in KeyRange : x <= v}
  OBVIOUS
<1>2. PICK W : W = {v}
  OBVIOUS
<1>3. \A i \in T : a[i] \in KeyRange
  BY KeysAreNumbers
<1>4. \A k \in 0 .. Cardinality(T) - 1 : recv[k] \in KeyRange
  BY ArrivedKeys
<1>5. /\ UpToValue(recv, 0 .. Cardinality(T) - 1, v) = Among(recv, 0 .. Cardinality(T) - 1, V)
      /\ UpToValue(a, T, v) = Among(a, T, V)
  BY <1>1, <1>3, <1>4 DEF Among, UpToValue
<1>6. /\ OfValue(recv, 0 .. Cardinality(T) - 1, v) = Among(recv, 0 .. Cardinality(T) - 1, W)
      /\ OfValue(a, T, v) = Among(a, T, W)
  BY <1>2 DEF Among, OfValue
<1>7. Cardinality(Among(recv, 0 .. Cardinality(T) - 1, V)) = Cardinality(Among(a, T, V))
  BY ArrivedCounts
<1>8. Cardinality(Among(recv, 0 .. Cardinality(T) - 1, W)) = Cardinality(Among(a, T, W))
  BY ArrivedCounts
<1> QED  BY <1>5, <1>6, <1>7, <1>8

\* Sums of numbers that follow each other grow.
LEMMA StepsGrow ==
  ASSUME NEW c \in Nat, NEW f, \A p \in 0 .. c : f[p] \in Int, \A p \in 0 .. c - 1 : f[p] <= f[p + 1],
         NEW p \in 0 .. c
  PROVE  \A r \in p .. c : f[p] <= f[r]
<1> DEFINE S == {d \in Nat : p + d <= c => f[p] <= f[p + d]}
<1>1. p \in Nat /\ p + 0 = p /\ f[p] <= f[p]
  OBVIOUS
<1>2. 0 \in S
  BY <1>1
<1>3. ASSUME NEW d \in S PROVE d + 1 \in S
  <2> SUFFICES ASSUME p + (d + 1) <= c PROVE f[p] <= f[p + (d + 1)]
    OBVIOUS
  <2>1. d \in Nat /\ p + d \in 0 .. c - 1 /\ (p + d) + 1 = p + (d + 1) /\ p + (d + 1) \in 0 .. c
    BY <1>1
  <2>2. f[p] <= f[p + d] /\ f[p + d] <= f[p + (d + 1)]
    BY <2>1
  <2>3. f[p] \in Int /\ f[p + d] \in Int /\ f[p + (d + 1)] \in Int
    BY <2>1
  <2> QED  BY <2>2, <2>3
<1>4. S = Nat
  <2>1. S \in SUBSET Nat
    OBVIOUS
  <2> HIDE DEF S
  <2> QED  BY <1>2, <1>3, <2>1, Induct
<1>5. ASSUME NEW r \in p .. c PROVE f[p] <= f[r]
  <2>1. r - p \in Nat /\ p + (r - p) = r /\ r <= c
    BY <1>1
  <2>2. r - p \in S
    <3> HIDE DEF S
    <3> QED  BY <1>4, <2>1
  <2> QED  BY <2>1, <2>2
<1> QED  BY <1>5

\* The place of a key in the buffer of its process.
PlaceInPart(a, n, p, i) == Cardinality({x \in PartAt(n, p) : Lower(a, x, i)})

\* There it is.
LEMMA PlacedInPart ==
  ASSUME NEW c, NEW n, Even(c, n), NEW p \in 0 .. c - 1, NEW a \in KeyArrays
  PROVE  /\ \A i \in PartAt(n, p) : /\ PlaceInPart(a, n, p, i) \in Nat
                                    /\ ByBucket(Slice(a, n, p))[PlaceInPart(a, n, p, i)] = a[i]
         /\ \A i, j \in PartAt(n, p) : PlaceInPart(a, n, p, i) = PlaceInPart(a, n, p, j) => i = j
<1>1. PICK keys : keys = Slice(a, n, p)
  OBVIOUS
<1>2. /\ \A j \in 0 .. n - 1 : SlotOf(keys, j) \in 0 .. n - 1
      /\ \A i, j \in 0 .. n - 1 : SlotOf(keys, i) = SlotOf(keys, j) => i = j
      /\ \A j \in 0 .. n - 1 : ByBucket(keys)[SlotOf(keys, j)] = a[n * p + j]
      /\ \A j \in 0 .. n - 1 : SlotOf(keys, j) = PlaceInPart(a, n, p, n * p + j)
  BY <1>1, SlotsOfPart DEF PlaceInPart
<1>3. \A i \in PartAt(n, p) : i - n * p \in 0 .. n - 1 /\ n * p + (i - n * p) = i
  BY IndexOf
<1>4. ASSUME NEW i \in PartAt(n, p)
      PROVE  /\ PlaceInPart(a, n, p, i) = SlotOf(keys, i - n * p) /\ i - n * p \in 0 .. n - 1
             /\ PlaceInPart(a, n, p, i) \in Nat
             /\ ByBucket(keys)[PlaceInPart(a, n, p, i)] = a[i]
  <2>1. PICK j \in 0 .. n - 1 : j = i - n * p /\ n * p + j = i
    BY <1>3
  <2>2. SlotOf(keys, j) = PlaceInPart(a, n, p, i) /\ ByBucket(keys)[SlotOf(keys, j)] = a[i] /\ SlotOf(keys, j) \in 0 .. n - 1
    BY <1>2, <2>1
  <2> QED  BY <2>1, <2>2
<1>5. ASSUME NEW i \in PartAt(n, p), NEW j \in PartAt(n, p), PlaceInPart(a, n, p, i) = PlaceInPart(a, n, p, j)
      PROVE  i = j
  <2>1. SlotOf(keys, i - n * p) = SlotOf(keys, j - n * p)
    BY <1>4, <1>5
  <2>2. i - n * p = j - n * p
    BY <1>2, <1>4, <2>1
  <2>3. n * p + (i - n * p) = i /\ n * p + (j - n * p) = j
    BY <1>3
  <2> QED  BY <2>2, <2>3
<1> QED  BY <1>1, <1>4, <1>5

\* What a process receives are the keys for it, each one once.
LEMMA ReceivedIs ==
  ASSUME Even(comm_size, num_keys), NEW a \in KeyArrays, InOrder(Distribution, comm_size),
         Covers(Distribution, comm_size, a), SizesAre(a),
         \A p \in Processes : send_buff[p] = ByBucket(Slice(a, num_keys, p)), NEW q \in Processes
  PROVE  /\ recv_displ(q, comm_size) = Cardinality(KeysFor(a, Indices, Distribution[q]))
         /\ Arrived(Received(q), a, KeysFor(a, Indices, Distribution[q]))
<1>1. PICK n : n = num_keys
  OBVIOUS
<1>2. PICK c : c = comm_size
  OBVIOUS
<1>3. PICK D : D = Distribution
  OBVIOUS
<1>4. Even(c, n) /\ c \in Nat /\ n \in Nat /\ c > 0 /\ InOrder(D, c) /\ Covers(D, c, a) /\ Processes = 0 .. c - 1
  BY <1>1, <1>2, <1>3 DEF Even, Processes
<1>5. PICK T \in SUBSET Indices : T = KeysFor(a, Indices, D[q])
  BY DEF KeysFor
<1>6. Cardinality(T) \in Nat
  BY Finite
<1> DEFINE rd == [p \in 0 .. c |-> recv_displ(q, p)]
           sd == [p \in 0 .. c - 1 |-> send_displ(p, q)]
           sc == [p \in 0 .. c - 1 |-> send_count(p, q)]
<1>7. \A p \in 0 .. c - 1 : /\ sc[p] = Cardinality(KeysFor(a, PartAt(n, p), D[q])) /\ sc[p] = send_count(p, q)
                            /\ sd[p] = Cardinality(KeysBefore(a, PartAt(n, p), D, q)) /\ sd[p] = send_displ(p, q)
  <2>1. q \in 0 .. c
    BY <1>4
  <2> QED  BY <1>1, <1>2, <1>3, <1>4, <2>1, SentIs
<1>8. \A p \in 0 .. c : rd[p] = Cardinality({i \in T : i < n * p}) /\ rd[p] = recv_displ(q, p)
  BY <1>1, <1>2, <1>3, <1>4, <1>5, SentIs
<1>9. \A p \in 0 .. c - 1 : sc[p] \in Nat /\ sd[p] \in Nat
  <2> SUFFICES ASSUME NEW p \in 0 .. c - 1 PROVE sc[p] \in Nat /\ sd[p] \in Nat
    OBVIOUS
  <2>1. KeysFor(a, PartAt(n, p), D[q]) \in SUBSET Indices /\ KeysBefore(a, PartAt(n, p), D, q) \in SUBSET Indices
    BY <1>4, PartsOfKeys DEF KeysFor, KeysBefore
  <2> QED  BY <1>7, <2>1, Finite
<1>10. /\ \A p \in 0 .. c : rd[p] \in Nat
       /\ \A p \in 0 .. c - 1 : rd[p + 1] = rd[p] + sc[p]
  <2>1. PICK f : f = [r \in Processes |-> send_count(r, q)]
    OBVIOUS
  <2>2. \A r \in 0 .. c - 1 : f[r] = sc[r] /\ f[r] \in Nat
    BY <1>4, <1>9, <2>1
  <2>3. \A p \in 0 .. c : rd[p] = SumTo(f, p)
    BY <2>1 DEF recv_displ
  <2>4. /\ \A p \in 0 .. c : SumTo(f, p) \in Nat
        /\ \A p \in 0 .. c - 1 : SumTo(f, p + 1) = SumTo(f, p) + f[p]
    BY <1>4, <2>2, SumStep
  <2>5. \A p \in 0 .. c - 1 : p + 1 \in 0 .. c /\ p \in 0 .. c
    BY <1>4
  <2> HIDE DEF rd, sc
  <2> QED  BY <2>2, <2>3, <2>4, <2>5
<1>11. rd[c] = Cardinality(T)
  <2>1. \A i \in T : i < n * c
    <3>1. n * c = NUM_KEYS
      BY <1>4 DEF Even
    <3> QED  BY <3>1, Sizes DEF Indices
  <2>2. {i \in T : i < n * c} = T
    BY <2>1
  <2>3. c \in 0 .. c
    BY <1>4
  <2> QED  BY <1>8, <2>2, <2>3
<1> HIDE DEF rd, sd, sc
<1>12. recv_displ(q, comm_size) = Cardinality(T)
  <2>1. c \in 0 .. c
    BY <1>4
  <2> QED  BY <1>2, <1>8, <1>11, <2>1
<1>13. \A p, r \in 0 .. c : p <= r => rd[p] <= rd[r]
  <2>1. \A p \in 0 .. c : rd[p] \in Int
    BY <1>10
  <2>2. \A p \in 0 .. c - 1 : rd[p] <= rd[p + 1]
    BY <1>4, <1>9, <1>10, SMTT(60)
  <2>3. ASSUME NEW p \in 0 .. c, NEW r \in 0 .. c, p <= r PROVE rd[p] <= rd[r]
    <3>1. r \in p .. c
      BY <2>3
    <3> QED  BY <1>4, <2>1, <2>2, <3>1, StepsGrow
  <2> QED  BY <2>3
<1>14. \A p, r \in 0 .. c - 1 : \A k \in Int : rd[p] <= k /\ k < rd[p + 1] /\ rd[r] <= k /\ k < rd[r + 1] => p = r
  <2> SUFFICES ASSUME NEW p \in 0 .. c - 1, NEW r \in 0 .. c - 1, NEW k \in Int,
                      rd[p] <= k, k < rd[p + 1], rd[r] <= k, k < rd[r + 1], p < r
               PROVE  FALSE
    <3>1. \A p, r \in 0 .. c - 1 : p = r \/ p < r \/ r < p
      BY <1>4
    <3> QED  BY <3>1
  <2>1. p + 1 \in 0 .. c /\ r \in 0 .. c /\ p + 1 <= r
    BY <1>4
  <2>2. rd[p + 1] <= rd[r] /\ rd[p + 1] \in Nat /\ rd[r] \in Nat
    BY <1>10, <1>13, <2>1
  <2> QED  BY <2>2
<1> DEFINE part == [i \in Indices |-> CHOOSE p \in 0 .. c - 1 : i \in PartAt(n, p)]
           h == [i \in T |-> rd[part[i]] + (PlaceInPart(a, n, part[i], i) - sd[part[i]])]
<1>15. \A i \in T : part[i] \in 0 .. c - 1 /\ i \in PartAt(n, part[i])
  <2>1. \A i \in Indices : \E p \in 0 .. c - 1 : i \in PartAt(n, p)
    BY <1>4, PartsOfKeys
  <2> QED  BY <2>1
<1>16. \A i \in T : h[i] = rd[part[i]] + (PlaceInPart(a, n, part[i], i) - sd[part[i]])
  OBVIOUS
<1> HIDE DEF part, h
<1>17. ASSUME NEW i \in T, NEW p \in 0 .. c - 1, p = part[i]
       PROVE  /\ PlaceInPart(a, n, p, i) \in Nat /\ sd[p] <= PlaceInPart(a, n, p, i)
              /\ PlaceInPart(a, n, p, i) < sd[p] + sc[p]
              /\ h[i] \in Nat /\ rd[p] <= h[i] /\ h[i] < rd[p + 1] /\ h[i] < Cardinality(T)
              /\ sd[p] + h[i] - rd[p] = PlaceInPart(a, n, p, i)
  <2>1. i \in PartAt(n, p) /\ i \in Indices
    BY <1>15, <1>17
  <2>2. BucketOf(a[i]) \in D[q] /\ q \in 0 .. c - 1
    BY <1>4, <1>5 DEF KeysFor
  <2>3. PICK x \in Nat : x = PlaceInPart(a, n, p, i)
    BY <1>4, <2>1, PlacedInPart
  <2>4. sd[p] <= x /\ x < sd[p] + sc[p]
    BY <1>4, <1>7, <2>1, <2>2, <2>3, SlotBetween DEF PlaceInPart
  <2>5. h[i] = rd[p] + (x - sd[p])
    BY <1>16, <1>17, <2>3
  <2>6. p + 1 \in 0 .. c /\ p \in 0 .. c /\ c \in 0 .. c /\ p + 1 <= c
    BY <1>4
  <2>7. rd[p + 1] = rd[p] + sc[p] /\ rd[p + 1] <= Cardinality(T) /\ rd[p] \in Nat /\ sc[p] \in Nat /\ sd[p] \in Nat
    BY <1>9, <1>10, <1>11, <1>13, <2>6
  <2> QED  BY <1>6, <2>3, <2>4, <2>5, <2>7
<1>18. h \in [T -> 0 .. Cardinality(T) - 1]
  <2>1. \A i \in T : h[i] \in 0 .. Cardinality(T) - 1
    BY <1>6, <1>15, <1>17
  <2> QED  BY <2>1 DEF h
<1>19. \A i, j \in T : h[i] = h[j] => i = j
  <2> SUFFICES ASSUME NEW i \in T, NEW j \in T, h[i] = h[j] PROVE i = j
    OBVIOUS
  <2>1. PICK p \in 0 .. c - 1 : p = part[i]
    BY <1>15
  <2>2. PICK r \in 0 .. c - 1 : r = part[j]
    BY <1>15
  <2>3. h[i] \in Nat /\ rd[p] <= h[i] /\ h[i] < rd[p + 1] /\ sd[p] + h[i] - rd[p] = PlaceInPart(a, n, p, i)
    BY <1>17, <2>1
  <2>4. rd[r] <= h[j] /\ h[j] < rd[r + 1] /\ sd[r] + h[j] - rd[r] = PlaceInPart(a, n, r, j)
    BY <1>17, <2>2
  <2>5. p = r
    BY <1>14, <2>3, <2>4
  <2>6. PlaceInPart(a, n, p, i) = PlaceInPart(a, n, p, j)
    BY <2>3, <2>4, <2>5
  <2>7. i \in PartAt(n, p) /\ j \in PartAt(n, p)
    BY <1>15, <2>1, <2>2, <2>5
  <2> QED  BY <1>4, <2>6, <2>7, PlacedInPart
<1>20. \A k \in 0 .. Cardinality(T) - 1 : \E i \in T : h[i] = k
  BY <1>18, <1>19, AllPlacesTaken
<1>21. DOMAIN Received(q) = 0 .. Cardinality(T) - 1
  BY <1>12 DEF Received
<1>22. ASSUME NEW i \in T PROVE Received(q)[h[i]] = a[i]
  <2>1. PICK p \in 0 .. c - 1 : p = part[i]
    BY <1>15
  <2>2. PICK k : k = h[i]
    OBVIOUS
  <2>3. k \in Nat /\ rd[p] <= k /\ k < rd[p + 1] /\ k < Cardinality(T) /\ sd[p] + k - rd[p] = PlaceInPart(a, n, p, i)
    BY <1>17, <2>1, <2>2
  <2>4. \A r \in 0 .. c - 1 : recv_displ(q, r) = rd[r] /\ recv_displ(q, r + 1) = rd[r + 1]
    <3>1. \A r \in 0 .. c - 1 : r \in 0 .. c /\ r + 1 \in 0 .. c
      BY <1>4
    <3> QED  BY <1>8, <3>1
  <2>5. (CHOOSE r \in Processes : recv_displ(q, r) <= k /\ k < recv_displ(q, r + 1)) = p
    <3>1. \A r \in 0 .. c - 1 : recv_displ(q, r) <= k /\ k < recv_displ(q, r + 1) <=> r = p
      BY <1>14, <2>3, <2>4
    <3> QED  BY <1>4, <3>1
  <2>6. k \in 0 .. recv_displ(q, comm_size) - 1
    BY <1>6, <1>12, <2>3
  <2>7. Received(q)[k] = send_buff[p][send_displ(p, q) + k - recv_displ(q, p)]
    BY <2>5, <2>6 DEF Received
  <2>8. send_displ(p, q) = sd[p] /\ recv_displ(q, p) = rd[p]
    BY <1>7, <2>4
  <2>9. Received(q)[k] = send_buff[p][PlaceInPart(a, n, p, i)]
    BY <2>3, <2>7, <2>8
  <2>10. send_buff[p] = ByBucket(Slice(a, n, p))
    BY <1>1, <1>4
  <2>11. i \in PartAt(n, p)
    BY <1>15, <2>1
  <2> QED  BY <1>4, <2>2, <2>9, <2>10, <2>11, PlacedInPart
<1> QED  BY <1>2, <1>3, <1>5, <1>18, <1>19, <1>20, <1>21, <1>22, <1>12 DEF Arrived

-----------------------------------------------------------------------------
(* How the buckets are divided.                                            *)

\* The totals are those of the keys in a.
TotalsAre(a) == \A b \in Buckets : bucket_size_totals[b] = Cardinality(InBucket(a, b))

\* The keys of lesser buckets.
Below(a, b) == {i \in Indices : BucketOf(a[i]) < b}

\* What the totals before a bucket add up to.
LEMMA TotalsUpTo ==
  ASSUME NEW a \in KeyArrays, TotalsAre(a)
  PROVE  /\ \A b \in Buckets : bucket_size_totals[b] \in Nat
         /\ \A b \in 0 .. NUM_BUCKETS : SumTo(bucket_size_totals, b) = Cardinality(Below(a, b))
         /\ Cardinality(Below(a, NUM_BUCKETS)) = NUM_KEYS
<1>1. NUM_BUCKETS \in Nat /\ Buckets = 0 .. NUM_BUCKETS - 1
  BY Sizes DEF Buckets
<1>2. \A e : InBucket(a, e) \in SUBSET Indices
  BY DEF InBucket
<1>3. \A b \in Buckets : bucket_size_totals[b] \in Nat
  BY <1>2, Finite DEF TotalsAre
<1>4. ASSUME NEW b \in 0 .. NUM_BUCKETS PROVE SumTo(bucket_size_totals, b) = Cardinality(Below(a, b))
  <2> DEFINE A == [e \in Buckets |-> InBucket(a, e)]
  <2>1. b \in Nat /\ \A e \in 0 .. b - 1 : e \in Buckets
    BY <1>1
  <2>2. \A e \in 0 .. b - 1 : IsFiniteSet(A[e]) /\ bucket_size_totals[e] = Cardinality(A[e])
    BY <1>2, <2>1, Finite DEF TotalsAre
  <2>3. \A e, g \in 0 .. b - 1 : e # g => A[e] \cap A[g] = {}
    BY <2>1 DEF InBucket
  <2>4. Below(a, b) = UNION {A[e] : e \in 0 .. b - 1}
    <3>1. \A i \in Indices : BucketOf(a[i]) \in Nat
      BY BeforeIs
    <3>2. \A i \in Indices : BucketOf(a[i]) < b <=> BucketOf(a[i]) \in 0 .. b - 1
      BY <2>1, <3>1
    <3>3. \A e \in 0 .. b - 1 : A[e] = {i \in Indices : BucketOf(a[i]) = e}
      BY <2>1 DEF InBucket
    <3> HIDE DEF A
    <3>4. UNION {A[e] : e \in 0 .. b - 1} = {i \in Indices : \E e \in 0 .. b - 1 : i \in A[e]}
      BY <3>3
    <3>5. \A i \in Indices : (\E e \in 0 .. b - 1 : i \in A[e]) <=> BucketOf(a[i]) \in 0 .. b - 1
      BY <3>3
    <3> QED  BY <3>2, <3>4, <3>5 DEF Below
  <2>5. Parts(bucket_size_totals, A, b, Below(a, b))
    <3> HIDE DEF A
    <3> QED  BY <2>2, <2>3, <2>4 DEF Parts
  <2> HIDE DEF A
  <2> QED  BY <2>1, <2>5, SumOfSizes
<1>5. Below(a, NUM_BUCKETS) = Indices
  <2>1. \A i \in Indices : BucketOf(a[i]) < NUM_BUCKETS
    BY <1>1, BeforeIs
  <2> QED  BY <2>1 DEF Below
<1> QED  BY <1>3, <1>4, <1>5, Finite

\* What the loop over the buckets does: one process at most has enough by one more
\* bucket.
LEMMA ServedIs ==
  ASSUME num_keys \in Nat, \A b \in Buckets : bucket_size_totals[b] \in Nat
  PROVE  /\ Served[0] = 0
         /\ \A b \in 0 .. NUM_BUCKETS : Served[b] \in Nat
         /\ \A b \in 0 .. NUM_BUCKETS - 1 :
              Served[b + 1] = IF SumTo(bucket_size_totals, b + 1) >= (Served[b] + 1) * num_keys THEN Served[b] + 1
                              ELSE Served[b]
<1>1. PICK m \in Nat : m = NUM_BUCKETS
  BY Sizes
<1>2. PICK n : n = num_keys
  OBVIOUS
<1>3. PICK S \in [Nat -> Int] : \A b \in 0 .. m : S[b] = SumTo(bucket_size_totals, b)
  <2>1. \A b \in 0 .. m : SumTo(bucket_size_totals, b) \in Nat
    BY <1>1, SumStep DEF Buckets
  <2>2. [b \in Nat |-> IF b \in 0 .. m THEN SumTo(bucket_size_totals, b) ELSE 0] \in [Nat -> Int]
    BY <2>1
  <2>3. \A b \in 0 .. m : b \in Nat
    OBVIOUS
  <2> QED  BY <2>2, <2>3
<1> DEFINE F == [x \in Nat \X Nat |-> IF S[x[1] + 1] >= (x[2] + 1) * n THEN x[2] + 1 ELSE x[2]]
           Eq(g) == g = [b \in 0 .. m |-> IF b = 0 THEN 0
                                          ELSE IF S[b] >= (g[b - 1] + 1) * n THEN g[b - 1] + 1 ELSE g[b - 1]]
<1>4. F \in [Nat \X Nat -> Nat] /\ \A b, v \in Nat : F[<<b, v>>] = IF S[b + 1] >= (v + 1) * n THEN v + 1 ELSE v
  OBVIOUS
<1> HIDE DEF F
<1>5. PICK it : Iterates(it, Nat, 0, F)
  BY <1>4, IterationExists
<1>6. it \in [Nat -> Nat] /\ it[0] = 0 /\ \A b \in Nat : it[b + 1] = F[<<b, it[b]>>]
  BY <1>5 DEF Iterates
<1>7. \E g : Eq(g)
  <2> DEFINE g == [b \in 0 .. m |-> it[b]]
  <2>1. ASSUME NEW b \in 0 .. m
        PROVE  it[b] = IF b = 0 THEN 0 ELSE IF S[b] >= (g[b - 1] + 1) * n THEN g[b - 1] + 1 ELSE g[b - 1]
    <3>1. CASE b = 0
      BY <1>6, <3>1
    <3>2. CASE b # 0
      <4>1. b - 1 \in Nat /\ b - 1 \in 0 .. m /\ (b - 1) + 1 = b
        BY <3>2
      <4>2. it[(b - 1) + 1] = F[<<b - 1, it[b - 1]>>] /\ it[b - 1] \in Nat /\ g[b - 1] = it[b - 1]
        BY <1>6, <4>1
      <4> HIDE DEF g
      <4>3. F[<<b - 1, it[b - 1]>>] = IF S[(b - 1) + 1] >= (it[b - 1] + 1) * n THEN it[b - 1] + 1 ELSE it[b - 1]
        BY <1>4, <4>1, <4>2
      <4> QED  BY <3>2, <4>1, <4>2, <4>3
    <3> QED  BY <3>1, <3>2
  <2>2. Eq(g)
    BY <2>1
  <2> HIDE DEF Eq, g
  <2> QED  BY <2>2
<1>8. Eq(Served)
  <2> DEFINE j == CHOOSE g : Eq(g)
  <2>1. Eq(j)
    <3> HIDE DEF Eq
    <3> QED  BY <1>7
  <2>2. \A g : Eq(g) <=> g = [b \in 0 .. NUM_BUCKETS |->
                                IF b = 0 THEN 0
                                ELSE LET had == g[b - 1]
                                     IN  IF SumTo(bucket_size_totals, b) >= (had + 1) * num_keys THEN had + 1 ELSE had]
    BY <1>1, <1>2, <1>3
  <2>3. Served = j
    <3> HIDE DEF Eq
    <3> QED  BY <2>2 DEF Served
  <2> HIDE DEF j, Eq
  <2> QED  BY <2>1, <2>3
<1> DEFINE w == Served
<1>9. Eq(w)
  BY <1>8
<1> HIDE DEF w
<1>10. w[0] = 0
  BY <1>9
<1>11. ASSUME NEW b \in 0 .. m - 1
       PROVE  w[b + 1] = IF S[b + 1] >= (w[b] + 1) * n THEN w[b] + 1 ELSE w[b]
  <2>1. b + 1 \in 0 .. m /\ b + 1 # 0 /\ (b + 1) - 1 = b
    OBVIOUS
  <2> QED  BY <1>9, <2>1
<1> HIDE DEF Eq
<1>12. \A b \in 0 .. m - 1 : w[b] \in Nat => w[b + 1] = F[<<b, w[b]>>]
  BY <1>4, <1>11
<1>13. \A b \in 0 .. m : w[b] = it[b]
  BY <1>5, <1>10, <1>12, IterationIs
<1>14. \A b \in 0 .. m : w[b] \in Nat
  BY <1>6, <1>13
<1>15. \A b \in 0 .. m - 1 : S[b + 1] = SumTo(bucket_size_totals, b + 1)
  <2>1. \A b \in 0 .. m - 1 : b + 1 \in 0 .. m
    OBVIOUS
  <2> QED  BY <1>3, <2>1
<1> QED  BY <1>1, <1>2, <1>10, <1>11, <1>14, <1>15 DEF w

\* The processes that are served are not more than the keys are enough for; the
\* number of them grows with the buckets.
LEMMA ServedGrows ==
  ASSUME Even(comm_size, num_keys), NEW a \in KeyArrays, TotalsAre(a)
  PROVE  /\ \A b \in 0 .. NUM_BUCKETS : /\ Served[b] \in Nat /\ Served[b] <= comm_size
                                        /\ Served[b] * num_keys <= Cardinality(Below(a, b))
         /\ \A b, e \in 0 .. NUM_BUCKETS : b <= e => Served[b] <= Served[e]
         /\ \A b \in Buckets : Served[b] < Served[NUM_BUCKETS] \/ Cardinality(Below(a, b)) = NUM_KEYS
<1>1. PICK m \in Nat : m = NUM_BUCKETS
  BY Sizes
<1>2. PICK n \in Nat : n = num_keys /\ n > 0
  BY DEF Even
<1>3. PICK c \in Nat : c = comm_size /\ c * n = NUM_KEYS
  BY <1>2 DEF Even
<1> DEFINE w == Served
           B(b) == Cardinality(Below(a, b))
<1>4. /\ w[0] = 0
      /\ \A b \in 0 .. m : w[b] \in Nat
      /\ \A b \in 0 .. m - 1 : w[b + 1] = IF SumTo(bucket_size_totals, b + 1) >= (w[b] + 1) * n THEN w[b] + 1 ELSE w[b]
  BY <1>1, <1>2, ServedIs, TotalsUpTo
<1>5. \A b : Below(a, b) \in SUBSET Indices /\ B(b) \in Nat /\ B(b) <= NUM_KEYS
  <2>1. \A b : Below(a, b) \in SUBSET Indices
    BY DEF Below
  <2> QED  BY <2>1, Finite, Smaller
<1>6. \A b \in 0 .. m - 1 : w[b + 1] = IF B(b + 1) >= (w[b] + 1) * n THEN w[b] + 1 ELSE w[b]
  <2>1. \A b \in 0 .. m - 1 : b + 1 \in 0 .. m
    OBVIOUS
  <2> HIDE DEF w
  <2> QED  BY <1>1, <1>4, <2>1, TotalsUpTo
<1>7. B(m) = NUM_KEYS
  BY <1>1, TotalsUpTo
<1> HIDE DEF w
<1>8. \A b \in 0 .. m - 1 : B(b) <= B(b + 1)
  <2> SUFFICES ASSUME NEW b \in 0 .. m - 1 PROVE B(b) <= B(b + 1)
    OBVIOUS
  <2>1. Below(a, b) \subseteq Below(a, b + 1)
    BY BeforeIs DEF Below
  <2> QED  BY <1>5, <2>1, Smaller
<1> HIDE DEF B
<1>9. ASSUME NEW b \in 0 .. m PROVE w[b] * n <= B(b)
  <2> DEFINE S == {k \in Nat : k <= m => w[k] * n <= B(k)}
  <2>1. 0 \in S
    <3>1. w[0] * n = 0 /\ B(0) \in Nat
      BY <1>4, <1>5
    <3> QED  BY <3>1
  <2>2. ASSUME NEW k \in S PROVE k + 1 \in S
    <3> SUFFICES ASSUME k + 1 <= m PROVE w[k + 1] * n <= B(k + 1)
      OBVIOUS
    <3>1. k \in 0 .. m - 1 /\ k \in 0 .. m /\ w[k] * n <= B(k)
      OBVIOUS
    <3>2. PICK x \in Nat : x = w[k]
      BY <1>4, <3>1
    <3>3. PICK y \in Nat : y = B(k) /\ B(k + 1) \in Nat /\ y <= B(k + 1)
      BY <1>5, <1>8, <3>1
    <3>4. x * n <= y
      BY <3>1, <3>2, <3>3
    <3>5. CASE B(k + 1) >= (x + 1) * n
      BY <1>6, <3>1, <3>2, <3>5
    <3>6. CASE ~(B(k + 1) >= (x + 1) * n)
      <4>1. w[k + 1] = x
        BY <1>6, <3>1, <3>2, <3>6
      <4> QED  BY <3>3, <3>4, <4>1
    <3> QED  BY <3>5, <3>6
  <2>3. S = Nat
    <3>1. S \in SUBSET Nat
      OBVIOUS
    <3> HIDE DEF S
    <3> QED  BY <2>1, <2>2, <3>1, Induct
  <2>4. b \in S
    <3> HIDE DEF S
    <3> QED  BY <2>3
  <2> QED  BY <2>4
<1>10. \A b \in 0 .. m : w[b] <= c
  <2> SUFFICES ASSUME NEW b \in 0 .. m, w[b] > c PROVE FALSE
    BY <1>4
  <2>1. PICK x \in Nat : x = w[b]
    BY <1>4
  <2>2. x * n >= (c + 1) * n /\ (c + 1) * n = c * n + n
    BY <2>1
  <2>3. x * n <= c * n
    BY <1>3, <1>5, <1>9, <2>1
  <2>4. c * n \in Nat
    OBVIOUS
  <2> QED  BY <2>2, <2>3, <2>4, <1>2
<1>11. \A b, e \in 0 .. m : b <= e => w[b] <= w[e]
  <2>1. \A b \in 0 .. m : w[b] \in Int
    BY <1>4
  <2>2. \A b \in 0 .. m - 1 : w[b] <= w[b + 1]
    <3>1. \A b \in 0 .. m - 1 : w[b] \in Nat
      BY <1>4
    <3> QED  BY <1>6, <3>1
  <2>3. ASSUME NEW b \in 0 .. m, NEW e \in 0 .. m, b <= e PROVE w[b] <= w[e]
    <3>1. e \in b .. m
      BY <2>3
    <3> QED  BY <2>1, <2>2, <3>1, StepsGrow
  <2> QED  BY <2>3
<1>12. ASSUME NEW b \in 0 .. m - 1, ~(w[b] < w[m]) PROVE B(b) = NUM_KEYS
  <2>1. PICK r \in Nat : r = w[b]
    BY <1>4
  <2>2. b \in 0 .. m /\ m - 1 \in 0 .. m /\ m \in 0 .. m /\ m - 1 \in 0 .. m - 1 /\ (m - 1) + 1 = m /\ b <= m - 1
    OBVIOUS
  <2>3. w[m - 1] = r /\ w[m] = r
    <3>1. w[b] <= w[m - 1] /\ w[m - 1] <= w[m] /\ w[m] <= w[b] /\ w[m - 1] \in Nat /\ w[m] \in Nat
      BY <1>4, <1>11, <1>12, <2>2
    <3> QED  BY <2>1, <3>1
  <2>4. w[(m - 1) + 1] = IF B((m - 1) + 1) >= (w[m - 1] + 1) * n THEN w[m - 1] + 1 ELSE w[m - 1]
    BY <1>6, <2>2
  <2>5. ~(c * n >= (r + 1) * n)
    BY <1>3, <1>7, <2>1, <2>2, <2>3, <2>4
  <2>6. c <= r
    <3> SUFFICES ASSUME c >= r + 1 PROVE FALSE
      OBVIOUS
    <3>1. PICK d \in Nat : c = (r + 1) + d
      <4>1. c - (r + 1) \in Nat /\ c = (r + 1) + (c - (r + 1))
        OBVIOUS
      <4> QED  BY <4>1
    <3>2. c * n = (r + 1) * n + d * n /\ d * n \in Nat /\ (r + 1) * n \in Nat
      BY <3>1
    <3> QED  BY <2>5, <3>2
  <2>7. r = c
    BY <1>10, <2>1, <2>2, <2>6
  <2>8. NUM_KEYS <= B(b)
    BY <1>3, <1>9, <2>1, <2>2, <2>7
  <2> QED  BY <1>5, <2>8, Sizes
<1>13. Buckets = 0 .. m - 1
  BY <1>1 DEF Buckets
<1> QED  BY <1>1, <1>2, <1>3, <1>4, <1>9, <1>10, <1>11, <1>12, <1>13 DEF w, B

\* The processes get their buckets in order, and each bucket that has keys is that
\* of one.
LEMMA DistributionIs ==
  ASSUME Even(comm_size, num_keys), NEW a \in KeyArrays, TotalsAre(a)
  PROVE  InOrder(Distribution, comm_size) /\ Covers(Distribution, comm_size, a)
<1>1. PICK m \in Nat : m = NUM_BUCKETS
  BY Sizes
<1>2. PICK c \in Nat : c = comm_size
  BY DEF Even
<1> DEFINE w == Served
           D == Distribution
<1>3. \A p \in 0 .. c - 1 : D[p] = {b \in Buckets : w[b] = p /\ p < w[m]}
  BY <1>1, <1>2 DEF Distribution, Processes
<1>4. Buckets = 0 .. m - 1
  BY <1>1 DEF Buckets
<1>5. \A b \in 0 .. m : w[b] \in Nat /\ w[b] <= c
  BY <1>1, <1>2, ServedGrows
<1>6. \A b, e \in 0 .. m : b <= e => w[b] <= w[e]
  BY <1>1, ServedGrows
<1>7. \A b \in 0 .. m - 1 : w[b] < w[m] \/ Cardinality(Below(a, b)) = NUM_KEYS
  BY <1>1, <1>4, ServedGrows
<1> HIDE DEF w, D
<1>8. \A p \in 0 .. c - 1 : D[p] \subseteq Buckets
  BY <1>3
<1>9. ASSUME NEW p \in 0 .. c - 1, NEW q \in 0 .. c - 1, p < q, NEW b \in D[p], NEW e \in D[q] PROVE b < e
  <2>1. b \in 0 .. m /\ e \in 0 .. m /\ w[b] = p /\ w[e] = q
    BY <1>3, <1>4
  <2> SUFFICES ASSUME e <= b PROVE FALSE
    BY <2>1
  <2>2. w[e] <= w[b]
    BY <1>6, <2>1
  <2> QED  BY <1>9, <2>1, <2>2
<1>10. ASSUME NEW i \in Indices PROVE \E p \in 0 .. c - 1 : BucketOf(a[i]) \in D[p]
  <2>1. PICK b \in 0 .. m - 1 : b = BucketOf(a[i])
    BY <1>4, BeforeIs
  <2>2. Cardinality(Below(a, b)) < NUM_KEYS
    <3>1. Below(a, b) \in SUBSET Indices /\ i \notin Below(a, b)
      BY <2>1 DEF Below
    <3>2. Below(a, b) # Indices
      BY <3>1
    <3>3. Cardinality(Below(a, b)) < Cardinality(Indices)
      BY <3>1, <3>2, Smaller
    <3> QED  BY <3>3, Finite
  <2>3. w[b] < w[m]
    <3>1. Cardinality(Below(a, b)) # NUM_KEYS
      BY <2>2, Sizes
    <3> QED  BY <1>7, <3>1
  <2>4. w[b] \in 0 .. c - 1
    <3>1. b \in 0 .. m /\ m \in 0 .. m
      OBVIOUS
    <3> QED  BY <1>5, <2>3, <3>1
  <2> QED  BY <1>3, <1>4, <2>1, <2>3, <2>4
<1> QED  BY <1>2, <1>8, <1>9, <1>10 DEF D, InOrder, Covers

\* When no bucket has more than half a share, a process does not get more than one
\* and a half.
LEMMA SharesAreMet ==
  ASSUME Even(comm_size, num_keys), NEW a \in KeyArrays, TotalsAre(a),
         \A b \in Buckets : 2 * bucket_size_totals[b] <= num_keys, NEW q \in Processes
  PROVE  2 * Cardinality(KeysFor(a, Indices, Distribution[q])) <= 3 * num_keys
<1>1. PICK m \in Nat : m = NUM_BUCKETS
  BY Sizes
<1>2. PICK n \in Nat : n = num_keys /\ n > 0
  BY DEF Even
<1> DEFINE w == Served
           B(b) == Cardinality(Below(a, b))
           T == KeysFor(a, Indices, Distribution[q])
<1>3. Buckets = 0 .. m - 1 /\ q \in Nat
  BY <1>1 DEF Buckets, Processes
<1>4. \A b \in 0 .. m : w[b] \in Nat /\ w[b] * n <= B(b)
  BY <1>1, <1>2, ServedGrows
<1>5. \A b \in 0 .. m - 1 : w[b + 1] = IF B(b + 1) >= (w[b] + 1) * n THEN w[b] + 1 ELSE w[b]
  <2>1. \A b \in 0 .. m - 1 : SumTo(bucket_size_totals, b + 1) = B(b + 1)
    <3>1. \A b \in 0 .. m - 1 : b + 1 \in 0 .. m
      OBVIOUS
    <3> QED  BY <1>1, <3>1, TotalsUpTo
  <2>2. \A b \in 0 .. m - 1 : w[b + 1] = IF SumTo(bucket_size_totals, b + 1) >= (w[b] + 1) * n THEN w[b] + 1 ELSE w[b]
    BY <1>1, <1>2, ServedIs, TotalsUpTo
  <2> HIDE DEF w, B
  <2> QED  BY <2>1, <2>2
<1>6. \A b : Below(a, b) \in SUBSET Indices /\ B(b) \in Nat
  <2>1. \A b : Below(a, b) \in SUBSET Indices
    BY DEF Below
  <2> QED  BY <2>1, Finite
<1>7. ASSUME NEW b \in 0 .. m - 1 PROVE B(b + 1) = B(b) + bucket_size_totals[b] /\ 2 * bucket_size_totals[b] <= n
                                        /\ bucket_size_totals[b] \in Nat
  <2>1. b \in Buckets /\ b \in 0 .. m /\ b + 1 \in 0 .. m
    BY <1>3
  <2>2. SumTo(bucket_size_totals, b + 1) = SumTo(bucket_size_totals, b) + bucket_size_totals[b]
    BY <1>1, <1>3, SumStep, TotalsUpTo, ZenonT(60)
  <2> QED  BY <1>1, <1>2, <2>1, <2>2, TotalsUpTo
<1> HIDE DEF w
<1>8. w[0] = 0 /\ B(0) = 0
  <2>1. w[0] = 0
    BY ServedIs, TotalsUpTo, <1>2 DEF w
  <2>2. Below(a, 0) = {}
    BY BeforeIs DEF Below
  <2> QED  BY <2>1, <2>2, FS_EmptySet
<1>9. ASSUME NEW b \in 0 .. m PROVE B(b) < (w[b] + 1) * n
  <2> HIDE DEF B
  <2> DEFINE S == {k \in Nat : k <= m => B(k) < (w[k] + 1) * n}
  <2>1. 0 \in S
    BY <1>2, <1>8
  <2>2. ASSUME NEW k \in S PROVE k + 1 \in S
    <3> SUFFICES ASSUME k + 1 <= m PROVE B(k + 1) < (w[k + 1] + 1) * n
      OBVIOUS
    <3>1. k \in 0 .. m - 1 /\ k \in 0 .. m /\ B(k) < (w[k] + 1) * n
      OBVIOUS
    <3>2. PICK x \in Nat : x = w[k]
      BY <1>4, <3>1
    <3>3. PICK y \in Nat : y = B(k)
      BY <1>6
    <3>4. B(k + 1) \in Nat /\ B(k + 1) <= y + n
      BY <1>6, <1>7, <3>1, <3>3
    <3>5. y < (x + 1) * n /\ ((x + 1) + 1) * n = (x + 1) * n + n /\ (x + 1) * n \in Nat
      BY <3>1, <3>2, <3>3
    <3>6. CASE B(k + 1) >= (x + 1) * n
      <4>1. w[k + 1] = x + 1
        BY <1>5, <3>1, <3>2, <3>6
      <4> QED  BY <3>4, <3>5, <4>1
    <3>7. CASE ~(B(k + 1) >= (x + 1) * n)
      <4>1. w[k + 1] = x
        BY <1>5, <3>1, <3>2, <3>7
      <4> QED  BY <3>4, <3>5, <3>7, <4>1
    <3> QED  BY <3>6, <3>7
  <2>3. S = Nat
    <3>1. S \in SUBSET Nat
      OBVIOUS
    <3> HIDE DEF S
    <3> QED  BY <2>1, <2>2, <3>1, Induct
  <2>4. b \in S
    <3> HIDE DEF S
    <3> QED  BY <2>3
  <2> QED  BY <2>4
<1> DEFINE mine == {b \in Buckets : w[b] = q}
<1>10. T \in SUBSET Indices /\ \A i \in T : BucketOf(a[i]) \in mine
  <2>1. \A b \in Distribution[q] : b \in Buckets /\ w[b] = q
    BY DEF Distribution, w
  <2> QED  BY <2>1 DEF KeysFor
<1>11. CASE mine = {}
  <2>1. T = {}
    BY <1>10, <1>11
  <2> QED  BY <1>2, <2>1, FS_EmptySet
<1>12. CASE mine # {}
  <2>1. mine \in SUBSET Nat
    BY <1>3
  <2>2. PICK lo \in mine : \A b \in mine : lo <= b
    <3> HIDE DEF mine
    <3> QED  BY <1>12, <2>1, LeastNumber
  <2>3. \E hi \in mine : \A b \in mine : b <= hi
    <3> DEFINE back == {m - b : b \in mine}
    <3>1. back \in SUBSET Nat /\ back # {}
      BY <1>3, <1>12
    <3>2. PICK x \in back : \A y \in back : x <= y
      <4> HIDE DEF back
      <4> QED  BY <3>1, LeastNumber
    <3>3. PICK hi \in mine : x = m - hi
      OBVIOUS
    <3>4. ASSUME NEW b \in mine PROVE b <= hi
      <4>1. m - b \in back
        OBVIOUS
      <4>2. m - hi <= m - b
        BY <3>2, <3>3, <4>1
      <4> QED  BY <2>1, <4>2
    <3> QED  BY <3>4
  <2>4. PICK hi \in mine : \A b \in mine : b <= hi
    BY <2>3
  <2>5. lo \in 0 .. m - 1 /\ hi \in 0 .. m - 1 /\ lo <= hi /\ w[lo] = q /\ w[hi] = q
    BY <1>3, <2>2
  <2>6. q * n <= B(lo) /\ B(hi) < (q + 1) * n /\ (q + 1) * n = q * n + n /\ q * n \in Nat
    <3>1. lo \in 0 .. m /\ hi \in 0 .. m
      BY <2>5
    <3> HIDE DEF B
    <3> QED  BY <1>3, <1>4, <1>9, <2>5, <3>1
  <2>7. B(hi + 1) = B(hi) + bucket_size_totals[hi] /\ 2 * bucket_size_totals[hi] <= n /\ bucket_size_totals[hi] \in Nat
    BY <1>7, <2>5
  <2>8. T \cap Below(a, lo) = {} /\ T \cup Below(a, lo) \subseteq Below(a, hi + 1)
    <3>1. \A i \in T : BucketOf(a[i]) \in Nat /\ lo <= BucketOf(a[i]) /\ BucketOf(a[i]) <= hi
      BY <1>10, <2>1, <2>2, <2>4
    <3>2. \A i \in Indices : BucketOf(a[i]) \in Nat
      BY BeforeIs
    <3> HIDE DEF T, mine
    <3> QED  BY <1>10, <2>5, <3>1, <3>2 DEF Below
  <2>9. Cardinality(T) + B(lo) <= B(hi + 1) /\ Cardinality(T) \in Nat
    <3>1. Cardinality(T \cup Below(a, lo)) = Cardinality(T) + B(lo)
      <4> HIDE DEF T
      <4> QED  BY <1>6, <1>10, <2>8, Finite, SizeOfTwo
    <3>2. Cardinality(T \cup Below(a, lo)) <= B(hi + 1)
      <4> HIDE DEF T
      <4> QED  BY <1>6, <2>8, Smaller
    <3>3. Cardinality(T) \in Nat
      <4> HIDE DEF T
      <4> QED  BY <1>10, Finite
    <3> QED  BY <3>1, <3>2, <3>3
  <2>10. PICK t \in Nat, bl \in Nat, bh \in Nat, g \in Nat, qn \in Nat :
           /\ t = Cardinality(T) /\ bl = B(lo) /\ bh = B(hi) /\ g = bucket_size_totals[hi] /\ qn = q * n
    BY <1>6, <2>6, <2>7, <2>9
  <2>11. t + bl <= bh + g /\ qn <= bl /\ bh < qn + n /\ 2 * g <= n
    BY <2>6, <2>7, <2>9, <2>10
  <2> QED  BY <1>2, <2>10, <2>11
<1> QED  BY <1>11, <1>12

-----------------------------------------------------------------------------
(* The ranks of a process, and those of all.                               *)

\* How many keys a process has, and how many those before it have.
LEMMA LesserIs ==
  ASSUME Even(comm_size, num_keys), NEW a \in KeyArrays, TotalsAre(a)
  PROVE  /\ \A p \in Processes : total_local_keys(p) = Cardinality(KeysFor(a, Indices, Distribution[p]))
         /\ \A p \in 0 .. comm_size : /\ Lesser(p) = Cardinality(KeysBefore(a, Indices, Distribution, p))
                                      /\ Lesser(p) \in Nat
         /\ \A p \in Processes : Lesser(p + 1) = Lesser(p) + total_local_keys(p) /\ total_local_keys(p) \in Nat
         /\ \A p, q \in 0 .. comm_size : p <= q => Lesser(p) <= Lesser(q)
         /\ Lesser(comm_size) = NUM_KEYS
<1>1. PICK c \in Nat : c = comm_size
  BY DEF Even
<1>2. PICK D : D = Distribution
  OBVIOUS
<1>3. InOrder(D, c) /\ Covers(D, c, a) /\ Processes = 0 .. c - 1
  BY <1>1, <1>2, DistributionIs DEF Processes
<1>4. ASSUME NEW p \in 0 .. c - 1 PROVE total_local_keys(p) = Cardinality(KeysFor(a, Indices, D[p]))
  <2>1. D[p] \in SUBSET Buckets
    BY <1>3 DEF InOrder
  <2>2. \A b \in Buckets : bucket_size_totals[b] = Cardinality({i \in Indices : BucketOf(a[i]) = b})
    BY DEF TotalsAre, InBucket
  <2>3. KeysIn(bucket_size_totals, D[p]) = Cardinality(KeysFor(a, Indices, D[p]))
    BY <2>1, <2>2, KeysInIs
  <2> QED  BY <1>2, <2>3 DEF total_local_keys
<1>5. PICK f : f = [q \in Processes |-> total_local_keys(q)]
  OBVIOUS
<1>6. \A p \in 0 .. c - 1 : f[p] = Cardinality(KeysFor(a, Indices, D[p])) /\ f[p] = total_local_keys(p)
  BY <1>3, <1>4, <1>5
<1>7. \A p : Lesser(p) = SumTo(f, p)
  BY <1>5 DEF Lesser
<1>8. \A p \in 0 .. c : Lesser(p) = Cardinality(KeysBefore(a, Indices, D, p))
  BY <1>3, <1>6, <1>7, GivenAddUp
<1>9. \A p \in 0 .. c - 1 : f[p] \in Nat
  <2>1. \A p \in 0 .. c - 1 : KeysFor(a, Indices, D[p]) \in SUBSET Indices
    BY DEF KeysFor
  <2> QED  BY <1>6, <2>1, Finite
<1>10. /\ \A p \in 0 .. c : Lesser(p) \in Nat
       /\ \A p \in 0 .. c - 1 : Lesser(p + 1) = Lesser(p) + f[p]
  BY <1>7, <1>9, SumStep
<1>11. \A p, q \in 0 .. c : p <= q => Lesser(p) <= Lesser(q)
  <2> DEFINE g == [p \in 0 .. c |-> Lesser(p)]
  <2>1. \A p \in 0 .. c : g[p] \in Int /\ g[p] = Lesser(p)
    BY <1>10
  <2>2. \A p \in 0 .. c - 1 : g[p] <= g[p + 1]
    <3>1. \A p \in 0 .. c - 1 : p + 1 \in 0 .. c /\ p \in 0 .. c
      OBVIOUS
    <3>2. \A p \in 0 .. c - 1 : Lesser(p) <= Lesser(p + 1)
      BY <1>9, <1>10, <3>1
    <3> HIDE DEF g
    <3> QED  BY <2>1, <3>1, <3>2
  <2> HIDE DEF g
  <2>3. ASSUME NEW p \in 0 .. c, NEW q \in 0 .. c, p <= q PROVE g[p] <= g[q]
    <3>1. q \in p .. c
      BY <2>3
    <3> QED  BY <2>1, <2>2, <3>1, StepsGrow
  <2> QED  BY <2>1, <2>3
<1>12. Lesser(c) = NUM_KEYS
  <2>1. KeysBefore(a, Indices, D, c) = Indices
    BY <1>3 DEF KeysBefore, Covers
  <2> QED  BY <1>8, <2>1, Finite
<1> QED  BY <1>1, <1>2, <1>3, <1>4, <1>6, <1>8, <1>9, <1>10, <1>11, <1>12

\* The rank of a value is what its process has up to it, and the keys of the
\* processes before.
LEMMA RankOfProcess ==
  ASSUME Even(comm_size, num_keys), NEW a \in KeyArrays, TotalsAre(a), NEW p \in Processes, NEW v \in Interval(p)
  PROVE  /\ v \in KeyRange
         /\ Cardinality({i \in KeysFor(a, Indices, Distribution[p]) : a[i] <= v}) + Lesser(p) = RankOf(a, v)
         /\ Cardinality({i \in KeysFor(a, Indices, Distribution[p]) : a[i] = v}) = CountIn(a, v)
<1>1. PICK c \in Nat : c = comm_size
  BY DEF Even
<1>2. PICK D : D = Distribution
  OBVIOUS
<1>3. InOrder(D, c) /\ Covers(D, c, a) /\ Processes = 0 .. c - 1 /\ p \in 0 .. c - 1 /\ p \in Nat /\ p \in 0 .. comm_size
  BY <1>1, <1>2, DistributionIs DEF Processes
<1>4. v \in KeyRange /\ BucketOf(v) \in D[p]
  BY <1>2 DEF Interval
<1>5. PICK T \in SUBSET Indices : T = KeysFor(a, Indices, D[p])
  BY DEF KeysFor
<1>6. PICK B \in SUBSET Indices : B = KeysBefore(a, Indices, D, p)
  BY DEF KeysBefore
<1>7. \A i \in Indices : a[i] \in KeyRange /\ a[i] \in Int /\ BucketOf(a[i]) \in Nat
  BY BeforeIs, KeysAreNumbers
<1>8. v \in Int
  BY <1>4, Sizes DEF KeyRange
<1> DEFINE U == {i \in T : a[i] <= v}
<1>9. BucketOf(v) \in Nat
  BY <1>4, BucketIs, Sizes DEF Buckets
<1>10. \A i \in B : BucketOf(a[i]) < BucketOf(v)
  <2>1. \A r \in 0 .. p - 1 : r \in 0 .. c - 1 /\ r < p
    BY <1>3
  <2> QED  BY <1>3, <1>4, <1>6, <2>1 DEF KeysBefore, InOrder
<1>11. AtMost(a, v) = B \cup U
  <2>1. ASSUME NEW i \in B PROVE a[i] <= v
    <3> SUFFICES ASSUME v <= a[i] PROVE FALSE
      BY <1>7, <1>8
    <3>1. BucketOf(v) <= BucketOf(a[i])
      BY <1>4, <1>7, BucketsGrow
    <3> QED  BY <1>7, <1>9, <1>10, <3>1
  <2>2. ASSUME NEW i \in Indices, a[i] <= v PROVE i \in B \cup U
    <3>1. BucketOf(a[i]) <= BucketOf(v)
      BY <1>4, <1>7, <2>2, BucketsGrow
    <3>2. PICK r \in 0 .. c - 1 : BucketOf(a[i]) \in D[r]
      BY <1>3 DEF Covers
    <3>3. r <= p
      <4> SUFFICES ASSUME p < r PROVE FALSE
        BY <1>3
      <4>1. BucketOf(v) < BucketOf(a[i])
        BY <1>3, <1>4, <3>2 DEF InOrder
      <4> QED  BY <1>7, <1>9, <3>1, <4>1
    <3>4. CASE r = p
      <4>1. i \in T
        BY <1>5, <3>2, <3>4 DEF KeysFor
      <4> QED  BY <2>2, <4>1
    <3>5. CASE r # p
      <4>1. r \in 0 .. p - 1
        BY <1>3, <3>3, <3>5
      <4>2. i \in B
        BY <1>6, <3>2, <4>1 DEF KeysBefore
      <4> QED  BY <4>2
    <3> QED  BY <3>4, <3>5
  <2> QED  BY <2>1, <2>2 DEF AtMost
<1>12. B \cap U = {}
  <2> SUFFICES ASSUME NEW i \in B, i \in T PROVE FALSE
    OBVIOUS
  <2>1. PICK r \in 0 .. p - 1 : BucketOf(a[i]) \in D[r]
    BY <1>6 DEF KeysBefore
  <2>2. BucketOf(a[i]) \in D[p]
    BY <1>5 DEF KeysFor
  <2>3. r \in 0 .. c - 1 /\ r < p
    BY <1>3
  <2>4. BucketOf(a[i]) < BucketOf(a[i])
    BY <1>3, <2>1, <2>2, <2>3 DEF InOrder
  <2> QED  BY <1>7, <2>4
<1>13. Cardinality(AtMost(a, v)) = Cardinality(B) + Cardinality(U)
  <2>1. U \in SUBSET Indices
    OBVIOUS
  <2> HIDE DEF U
  <2> QED  BY <1>11, <1>12, <2>1, Finite, SizeOfTwo
<1>14. Cardinality(U) \in Nat /\ Cardinality(B) \in Nat
  <2>1. U \in SUBSET Indices
    OBVIOUS
  <2> HIDE DEF U
  <2> QED  BY <2>1, Finite
<1>15. {i \in T : a[i] = v} = With(a, v)
  BY <1>4, <1>5 DEF KeysFor, With
<1>16. RankOf(a, v) = Cardinality(AtMost(a, v)) /\ CountIn(a, v) = Cardinality(With(a, v))
  BY KeysAreNumbers, RanksAreSizes
<1>17. Lesser(p) = Cardinality(B)
  BY <1>2, <1>3, <1>6, LesserIs
<1>18. RankOf(a, v) = Cardinality(U) + Lesser(p)
  BY <1>13, <1>14, <1>16, <1>17
<1> QED  BY <1>2, <1>4, <1>5, <1>15, <1>16, <1>18

\* A value is that of one process, and a key's value is.
LEMMA IntervalsApart ==
  ASSUME Even(comm_size, num_keys), NEW a \in KeyArrays, TotalsAre(a)
  PROVE  /\ \A p, q \in Processes : p # q => Interval(p) \cap Interval(q) = {}
         /\ \A i \in Indices : \E p \in Processes : a[i] \in Interval(p)
<1>1. PICK c \in Nat : c = comm_size
  BY DEF Even
<1>2. PICK D : D = Distribution
  OBVIOUS
<1>3. InOrder(D, c) /\ Covers(D, c, a) /\ Processes = 0 .. c - 1
  BY <1>1, <1>2, DistributionIs DEF Processes
<1>4. \A p \in Processes : \A v : v \in Interval(p) <=> v \in KeyRange /\ BucketOf(v) \in D[p]
  BY <1>2 DEF Interval
<1>5. ASSUME NEW p \in Processes, NEW q \in Processes, p < q PROVE Interval(p) \cap Interval(q) = {}
  <2> SUFFICES ASSUME NEW v \in KeyRange, BucketOf(v) \in D[p], BucketOf(v) \in D[q] PROVE FALSE
    BY <1>4
  <2>1. BucketOf(v) < BucketOf(v)
    BY <1>3, <1>5 DEF InOrder
  <2>2. BucketOf(v) \in Nat
    BY BucketIs, Sizes DEF Buckets
  <2> QED  BY <2>1, <2>2
<1>6. \A p, q \in Processes : p # q => p < q \/ q < p
  BY <1>3
<1>7. \A i \in Indices : \E p \in Processes : a[i] \in Interval(p)
  BY <1>3, <1>4, KeysAreNumbers DEF Covers
<1> QED  BY <1>5, <1>6, <1>7

\* The places of the values of a process come after those of the processes before.
LEMMA PlacesOfProcess ==
  ASSUME Even(comm_size, num_keys), NEW a \in KeyArrays, TotalsAre(a), NEW p \in Processes
  PROVE  /\ \A v \in Interval(p) : \A k \in ValuePlaces(a, v) :
              k - Lesser(p) \in 0 .. total_local_keys(p) - 1 /\ (k - Lesser(p)) + Lesser(p) = k
         /\ \A i \in 0 .. total_local_keys(p) - 1 :
              i + Lesser(p) \in Indices /\ \E v \in Interval(p) : i + Lesser(p) \in ValuePlaces(a, v)
<1>1. PICK c \in Nat : c = comm_size
  BY DEF Even
<1>2. Processes = 0 .. c - 1
  BY <1>1 DEF Processes
<1>3. /\ \A r \in 0 .. c : Lesser(r) \in Nat
      /\ \A r \in Processes : Lesser(r + 1) = Lesser(r) + total_local_keys(r) /\ total_local_keys(r) \in Nat
      /\ \A r, q \in 0 .. c : r <= q => Lesser(r) <= Lesser(q)
      /\ Lesser(c) = NUM_KEYS
  BY <1>1, LesserIs
<1>4. ASSUME NEW r \in Processes, NEW v \in Interval(r), NEW k \in ValuePlaces(a, v)
      PROVE  k \in Int /\ Lesser(r) <= k /\ k < Lesser(r + 1)
  <2>1. v \in KeyRange /\ Cardinality({i \in KeysFor(a, Indices, Distribution[r]) : a[i] <= v}) + Lesser(r) = RankOf(a, v)
    BY RankOfProcess
  <2>2. Cardinality({i \in KeysFor(a, Indices, Distribution[r]) : a[i] = v}) = CountIn(a, v)
    BY RankOfProcess
  <2>3. PICK T \in SUBSET Indices : T = KeysFor(a, Indices, Distribution[r]) /\ Cardinality(T) = total_local_keys(r)
    <3>1. KeysFor(a, Indices, Distribution[r]) \in SUBSET Indices
      BY DEF KeysFor
    <3> QED  BY <3>1, LesserIs
  <2> DEFINE U == {i \in T : a[i] <= v}
             W == {i \in T : a[i] = v}
  <2>4. U \in SUBSET Indices /\ W \subseteq U /\ U \subseteq T
    <3>1. v \in Int
      BY <2>1, Sizes DEF KeyRange
    <3> QED  BY <3>1
  <2>5. Cardinality(W) <= Cardinality(U) /\ Cardinality(U) <= Cardinality(T) /\ Cardinality(W) \in Nat /\ Cardinality(U) \in Nat
    <3> HIDE DEF U, W
    <3> QED  BY <2>4, Smaller
  <2>6. RankOf(a, v) = Cardinality(U) + Lesser(r) /\ CountIn(a, v) = Cardinality(W)
    BY <2>1, <2>2, <2>3
  <2>7. k \in Int /\ RankOf(a, v) - CountIn(a, v) <= k /\ k < RankOf(a, v)
    <3> HIDE DEF U, W
    <3> QED  BY <2>5, <2>6, <1>2, <1>3 DEF ValuePlaces
  <2>8. Lesser(r) \in Nat /\ Lesser(r + 1) = Lesser(r) + Cardinality(T)
    BY <1>2, <1>3, <2>3
  <2>9. PICK u \in Nat, w \in Nat, t \in Nat, l \in Nat :
          u = Cardinality(U) /\ w = Cardinality(W) /\ t = Cardinality(T) /\ l = Lesser(r) /\ w <= u /\ u <= t
    <3>1. Cardinality(T) \in Nat
      BY Finite
    <3> HIDE DEF U, W
    <3> QED  BY <2>5, <2>8, <3>1
  <2>10. k \in Int /\ (u + l) - w <= k /\ k < u + l /\ Lesser(r + 1) = l + t
    <3> HIDE DEF U, W
    <3> QED  BY <2>6, <2>7, <2>8, <2>9
  <2> QED  BY <2>9, <2>10
<1>5. ASSUME NEW v \in Interval(p), NEW k \in ValuePlaces(a, v)
      PROVE  k - Lesser(p) \in 0 .. total_local_keys(p) - 1 /\ (k - Lesser(p)) + Lesser(p) = k
  <2>1. k \in Int /\ Lesser(p) <= k /\ k < Lesser(p + 1)
    BY <1>4
  <2>2. Lesser(p) \in Nat /\ Lesser(p + 1) = Lesser(p) + total_local_keys(p) /\ total_local_keys(p) \in Nat
    BY <1>2, <1>3
  <2> QED  BY <2>1, <2>2
<1>6. ASSUME NEW i \in 0 .. total_local_keys(p) - 1
      PROVE  i + Lesser(p) \in Indices /\ \E v \in Interval(p) : i + Lesser(p) \in ValuePlaces(a, v)
  <2>1. Lesser(p) \in Nat /\ Lesser(p + 1) = Lesser(p) + total_local_keys(p) /\ total_local_keys(p) \in Nat
        /\ Lesser(p + 1) <= NUM_KEYS /\ NUM_KEYS \in Nat
    <3>1. p + 1 \in 0 .. c /\ c \in 0 .. c /\ p + 1 <= c /\ p \in 0 .. c
      BY <1>2
    <3> QED  BY <1>3, <3>1, Sizes
  <2>2. PICK k \in Nat : k = i + Lesser(p) /\ Lesser(p) <= k /\ k < Lesser(p + 1) /\ k < NUM_KEYS
    BY <2>1
  <2>3. k \in Indices
    BY <2>1, <2>2 DEF Indices
  <2>4. PICK v \in KeyRange : k \in ValuePlaces(a, v)
    BY <2>3, PlacesOfValues
  <2>5. With(a, v) # {}
    <3> SUFFICES ASSUME With(a, v) = {} PROVE FALSE
      OBVIOUS
    <3>1. CountIn(a, v) = 0 /\ RankOf(a, v) \in Nat
      BY KeysAreNumbers, RanksAreSizes, FS_EmptySet
    <3> QED  BY <2>4, <3>1 DEF ValuePlaces
  <2>6. PICK x \in Indices : a[x] = v
    BY <2>5 DEF With
  <2>7. PICK r \in Processes : v \in Interval(r)
    BY <2>6, IntervalsApart
  <2>8. Lesser(r) <= k /\ k < Lesser(r + 1)
    BY <1>4, <2>4, <2>7
  <2>9. r = p
    <3>1. \A q \in 0 .. c - 1 : q \in 0 .. c /\ q + 1 \in 0 .. c /\ q \in Nat
      OBVIOUS
    <3>2. r < p => r + 1 <= p
      BY <1>2, <3>1
    <3>3. p < r => p + 1 <= r
      BY <1>2, <3>1
    <3>4. Lesser(r) \in Nat /\ Lesser(r + 1) \in Nat /\ Lesser(p) \in Nat /\ Lesser(p + 1) \in Nat
      BY <1>2, <1>3, <3>1
    <3>5. ~(r < p)
      <4> SUFFICES ASSUME r + 1 <= p PROVE FALSE
        BY <3>2
      <4>1. Lesser(r + 1) <= Lesser(p)
        BY <1>2, <1>3, <3>1
      <4> QED  BY <2>2, <2>8, <3>4, <4>1
    <3>6. ~(p < r)
      <4> SUFFICES ASSUME p + 1 <= r PROVE FALSE
        BY <3>3
      <4>1. Lesser(p + 1) <= Lesser(r)
        BY <1>2, <1>3, <3>1
      <4> QED  BY <2>2, <2>8, <3>4, <4>1
    <3> QED  BY <1>2, <3>1, <3>5, <3>6
  <2> QED  BY <2>2, <2>3, <2>4, <2>7, <2>9
<1> QED  BY <1>5, <1>6

\* A value that is not the first of its bucket is not the least of a process.
LEMMA NotTheLeast ==
  ASSUME NEW p \in Processes, NEW v \in Interval(p), v % num_bucket_keys # 0
  PROVE  v - 1 \in Interval(p) /\ v # Min(Interval(p))
<1>1. v \in KeyRange /\ v \in Nat /\ num_bucket_keys \in Nat \ {0} /\ MAX_KEY \in Nat
  BY Sizes DEF Interval, KeyRange
<1>2. PICK m \in Nat \ {0} : m = num_bucket_keys
  BY <1>1
<1>3. v = (v \div m) * m + (v % m) /\ v % m \in 0 .. m - 1 /\ v \div m \in Nat /\ v % m # 0
  BY <1>1, <1>2, Division
<1>4. PICK q \in Nat, r \in 1 .. m - 1 : q = v \div m /\ r = v % m /\ v = q * m + r /\ q * m \in Nat
  BY <1>3
<1>5. v - 1 \in Nat /\ v - 1 = q * m + (r - 1) /\ r - 1 \in 0 .. m - 1
  BY <1>1, <1>4
<1>6. (v - 1) \div m = q
  <2>1. PICK x \in Nat, y \in 0 .. m - 1 : x = v - 1 /\ y = r - 1 /\ x = q * m + y
    BY <1>5
  <2>2. x \div m = q
    BY <2>1, Remainder
  <2> QED  BY <2>1, <2>2
<1>7. BucketOf(v - 1) = BucketOf(v)
  BY <1>2, <1>4, <1>6 DEF BucketOf
<1>8. v - 1 \in KeyRange
  BY <1>1, <1>5 DEF KeyRange
<1>9. v - 1 \in Interval(p)
  BY <1>7, <1>8 DEF Interval
<1>10. v # Min(Interval(p))
  <2> DEFINE S == Interval(p)
  <2>1. S \in SUBSET Nat /\ v \in S
    BY Sizes DEF Interval, KeyRange
  <2>2. PICK x \in S : \A y \in S : x <= y
    <3> HIDE DEF S
    <3> QED  BY <2>1, LeastNumber
  <2>3. \A y \in S : Min(S) <= y
    <3> HIDE DEF S
    <3> QED  BY <2>2 DEF Min
  <2>4. Min(S) <= v - 1
    BY <1>9, <2>3
  <2> QED  BY <1>1, <2>4
<1> QED  BY <1>9, <1>10

-----------------------------------------------------------------------------
(* The inductive invariant of the MPI version.                             *)

\* The keys of all processes in a call of rank().
AllKeys(r) == KeysAt(first_number, r)

\* The call whose totals a process has: none at first.
Done(p) == IF stage[p] \in {"create", "rank", "reduce", "aborted"} THEN iterations[p] - 1 ELSE iterations[p]

\* The processes are a power of two and share the keys evenly.
MpiWorld ==
  /\ first_number \in 0 .. Wrap - 1 /\ verified \in {"unknown", "yes", "no"}
  /\ Even(comm_size, num_keys) /\ 2 * MAX_ITERATIONS < num_keys
  /\ \E e \in Nat : num_keys = Power2[e] /\ (4 * NUM_KEYS) \div comm_size = Power2[e + 2] /\ Power2[e + 2] = 4 * Power2[e]
  /\ Processes \subseteq DOMAIN stage
  /\ DOMAIN iterations = Processes /\ DOMAIN key_arrays = Processes /\ DOMAIN send_buff = Processes
  /\ DOMAIN recv_buff = Processes /\ DOMAIN ranks = Processes /\ DOMAIN bucket_sizes = Processes
  /\ DOMAIN passed = Processes

\* Where a process is.
StageOf(p) ==
  /\ iterations[p] \in 0 .. MAX_ITERATIONS /\ passed[p] \in Nat
  /\ stage[p] \in {"create", "rank", "reduce", "divide", "exchanged", "sort", "wait", "checked",
                   "exited", "aborted", "undefined"}
  /\ stage[p] \in {"create", "aborted"} => iterations[p] = 0
  /\ stage[p] \in {"sort", "wait", "checked", "exited"} => iterations[p] = MAX_ITERATIONS
  /\ stage[p] = "exited" <=> verified # "unknown"

\* A process has its part of the keys, as altered so far.
KeysOfPart(p) ==
  /\ stage[p] = "rank" =>
       key_arrays[p] = Slice(IF iterations[p] = 0 THEN TheKeys(first_number) ELSE AllKeys(iterations[p] - 1), num_keys, p)
  /\ stage[p] \in {"reduce", "divide", "exchanged", "sort"} =>
       key_arrays[p] = Slice(AllKeys(iterations[p]), num_keys, p)

\* It has counted them and put them in order of their buckets.
SizesOfPart(p) ==
  stage[p] \in {"reduce", "divide"} =>
    /\ send_buff[p] = ByBucket(Slice(AllKeys(iterations[p]), num_keys, p))
    /\ \A b \in Buckets :
         bucket_sizes[p][b] = Cardinality({i \in PartAt(num_keys, p) : BucketOf(AllKeys(iterations[p])[i]) = b})
    /\ \A t \in Tests :
         bucket_sizes[p][t] = IF TestPlace(t) \in PartAt(num_keys, p) THEN AllKeys(iterations[p])[TestPlace(t)] ELSE 0

\* It has received the keys of its buckets.
KeysCame(p) ==
  stage[p] \in {"exchanged", "sort"} =>
    Arrived(recv_buff[p], AllKeys(Done(p)), KeysFor(AllKeys(Done(p)), Indices, Distribution[p]))

\* It has the ranks of its values among its keys.
RanksOfPart(p) ==
  stage[p] \in {"rank", "sort"} /\ Done(p) >= 0 =>
    /\ DOMAIN ranks[p] = Interval(p)
    /\ \A v \in Interval(p) : ranks[p][v] \in Nat /\ ranks[p][v] + Lesser(p) = RankOf(AllKeys(Done(p)), v)

\* In the end it has keys at the places of their values, as far as its keys go.
PlacesOfPart(p) ==
  stage[p] \in {"wait", "checked", "exited"} =>
    \A i \in 0 .. total_local_keys(p) - 1 :
      key_arrays[p][i] \in KeyRange /\ i + Lesser(p) \in ValuePlaces(AllKeys(Done(p)), key_arrays[p][i])

OfProcess(p) ==
  StageOf(p) /\ KeysOfPart(p) /\ SizesOfPart(p) /\ KeysCame(p) /\ RanksOfPart(p) /\ PlacesOfPart(p)

\* All processes have the totals of the same call, and the buckets are divided by
\* all or by none.
Lockstep ==
  \A p, q \in Processes : Done(p) = Done(q) /\ (stage[p] = "divide" => stage[q] = "divide")

TotalsRight ==
  Done(0) >= 0 =>
    /\ TotalsAre(AllKeys(Done(0)))
    /\ \A t \in Tests : bucket_size_totals[t] = AllKeys(Done(0))[TestPlace(t)]

\* What is sent to the next process is the last key, if there is one.
LastSent ==
  \A q \in DOMAIN last_keys :
    \E p \in Processes :
      /\ q = p + 1 /\ q \in Processes /\ stage[p] \in {"wait", "checked", "exited"}
      /\ total_local_keys(p) > 0 =>
           /\ last_keys[q] \in KeyRange
           /\ (total_local_keys(p) - 1) + Lesser(p) \in ValuePlaces(AllKeys(Done(p)), last_keys[q])

\* The verifications that a process has passed, and those that it is to pass.
Owed(p) ==
  IF stage[p] \in {"exchanged", "undefined"}
    THEN Cardinality({t \in Tests : bucket_size_totals[t] \in Interval(p)}) ELSE 0

Credit(p) == passed[p] + Owed(p) + IF stage[p] = "checked" THEN 0 ELSE 1

\* Everything can be passed, and the end has not come.
Countable ==
  /\ ~LowestTested /\ verified = "unknown"
  /\ (\E p \in Processes : stage[p] = "checked") => ~IdleBetween

\* The calls whose test keys are passed or owed.
CallsDue == IF stage[0] = "divide" THEN Done(0) - 1 ELSE Done(0)

\* From the first iteration on they are as many as there are test keys for all
\* calls so far, and one for every process.
Credited ==
  /\ Done(0) = 0 => \A p \in Processes : stage[p] = "reduce" => passed[p] = 0
  /\ Done(0) >= 1 /\ Countable =>
       SumTo([p \in Processes |-> Credit(p)], comm_size) = Len(test_index_array) * CallsDue + comm_size

VerifiedRight == verified # "unknown" /\ ~LowestTested /\ ~IdleBetween => verified = "yes"

MpiInv ==
  /\ MpiWorld /\ (\A p \in Processes : OfProcess(p)) /\ Lockstep /\ TotalsRight /\ LastSent
  /\ Credited /\ VerifiedRight

-----------------------------------------------------------------------------
(* The steps of the MPI version.                                           *)

\* The first process is one, and the keys of a call are in range.
LEMMA WorldIs ==
  ASSUME MpiWorld
  PROVE  /\ 0 \in Processes /\ comm_size \in Nat /\ num_keys \in Nat /\ Processes = 0 .. comm_size - 1
         /\ \A p \in Processes : p \in Nat
         /\ \A r \in 0 .. MAX_ITERATIONS : AllKeys(r) \in KeyArrays
<1>1. comm_size \in Nat \ {0} /\ num_keys \in Nat
  BY DEF MpiWorld, Even
<1>2. \A r \in 0 .. MAX_ITERATIONS : AllKeys(r) \in KeyArrays
  BY KeysAtIs DEF MpiWorld, AllKeys
<1> QED  BY <1>1, <1>2 DEF Processes

\* What is the same as long as the totals are.
LEMMA SameTotals ==
  ASSUME UNCHANGED <<first_number, comm_size, bucket_size_totals>>
  PROVE  /\ Processes' = Processes /\ num_keys' = num_keys /\ Distribution' = Distribution
         /\ \A p : Interval(p)' = Interval(p) /\ total_local_keys(p)' = total_local_keys(p) /\ Lesser(p)' = Lesser(p)
         /\ \A r : AllKeys(r)' = AllKeys(r)
         /\ \A a : TotalsAre(a)' = TotalsAre(a)
         /\ LowestTested' = LowestTested /\ IdleBetween' = IdleBetween
<1>1. Processes' = Processes /\ num_keys' = num_keys
  BY DEF Processes, num_keys
<1>2. Served' = Served
  BY <1>1 DEF Served
<1>3. Distribution' = Distribution
  BY <1>1, <1>2 DEF Distribution
<1>4. \A p : total_local_keys(p)' = total_local_keys(p)
  BY <1>3 DEF total_local_keys
<1>5. \A p : Lesser(p)' = Lesser(p)
  BY <1>1, <1>4 DEF Lesser
<1>6. IdleBetween' = IdleBetween
  BY <1>1, <1>4 DEF IdleBetween
<1>7. \A p : Interval(p)' = Interval(p)
  BY <1>3 DEF Interval
<1> QED  BY <1>1, <1>3, <1>4, <1>5, <1>6, <1>7 DEF AllKeys, TotalsAre, LowestTested

\* A step of one process, between two collective operations.
OnlyOf(p) ==
  /\ UNCHANGED <<first_number, comm_size, bucket_size_totals, verified>>
  /\ DOMAIN stage' = DOMAIN stage
  /\ DOMAIN iterations' = Processes /\ DOMAIN key_arrays' = Processes /\ DOMAIN send_buff' = Processes
  /\ DOMAIN recv_buff' = Processes /\ DOMAIN ranks' = Processes /\ DOMAIN bucket_sizes' = Processes
  /\ DOMAIN passed' = Processes
  /\ \A q \in Processes : q # p =>
       /\ stage'[q] = stage[q] /\ iterations'[q] = iterations[q] /\ key_arrays'[q] = key_arrays[q]
       /\ send_buff'[q] = send_buff[q] /\ recv_buff'[q] = recv_buff[q] /\ ranks'[q] = ranks[q]
       /\ bucket_sizes'[q] = bucket_sizes[q] /\ passed'[q] = passed[q]
  /\ stage[p] \notin {"divide", "checked"} /\ stage'[p] # "divide"
  /\ Done(p)' = Done(p)

\* It leaves the others alone.
LEMMA OthersSame ==
  ASSUME MpiInv, NEW p \in Processes, OnlyOf(p), OfProcess(p)'
  PROVE  /\ MpiWorld' /\ (\A q \in Processes' : OfProcess(q)') /\ Lockstep' /\ TotalsRight' /\ VerifiedRight'
         /\ Processes' = Processes /\ Done(0)' = Done(0) /\ CallsDue' = CallsDue
         /\ \A q \in Processes : Done(q)' = Done(q)
<1>1. /\ Processes' = Processes /\ num_keys' = num_keys /\ Distribution' = Distribution
      /\ \A q : Interval(q)' = Interval(q) /\ total_local_keys(q)' = total_local_keys(q) /\ Lesser(q)' = Lesser(q)
      /\ \A r : AllKeys(r)' = AllKeys(r)
      /\ \A a : TotalsAre(a)' = TotalsAre(a)
      /\ LowestTested' = LowestTested /\ IdleBetween' = IdleBetween
  BY SameTotals DEF OnlyOf
<1>2. MpiWorld /\ 0 \in Processes
  BY WorldIs DEF MpiInv
<1>3. MpiWorld'
  BY <1>1, <1>2 DEF MpiWorld, OnlyOf
<1>4. \A q \in Processes : Done(q)' = Done(q)
  BY DEF OnlyOf, Done
<1>5. ASSUME NEW q \in Processes, q # p PROVE OfProcess(q)'
  <2>1. /\ stage'[q] = stage[q] /\ iterations'[q] = iterations[q] /\ key_arrays'[q] = key_arrays[q]
        /\ send_buff'[q] = send_buff[q] /\ recv_buff'[q] = recv_buff[q] /\ ranks'[q] = ranks[q]
        /\ bucket_sizes'[q] = bucket_sizes[q] /\ passed'[q] = passed[q] /\ verified' = verified
        /\ first_number' = first_number /\ bucket_size_totals' = bucket_size_totals
    BY <1>5 DEF OnlyOf
  <2>2. OfProcess(q)
    BY DEF MpiInv
  <2>3. StageOf(q)'
    BY <2>1, <2>2 DEF OfProcess, StageOf
  <2>4. KeysOfPart(q)'
    BY <1>1, <2>1, <2>2 DEF OfProcess, KeysOfPart
  <2>5. SizesOfPart(q)'
    BY <1>1, <2>1, <2>2 DEF OfProcess, SizesOfPart
  <2>6. KeysCame(q)'
    BY <1>1, <1>4, <2>1, <2>2 DEF OfProcess, KeysCame
  <2>7. RanksOfPart(q)'
    BY <1>1, <1>4, <2>1, <2>2 DEF OfProcess, RanksOfPart
  <2>8. PlacesOfPart(q)'
    BY <1>1, <1>4, <2>1, <2>2 DEF OfProcess, PlacesOfPart
  <2> QED  BY <2>3, <2>4, <2>5, <2>6, <2>7, <2>8 DEF OfProcess
<1>6. \A q \in Processes' : OfProcess(q)'
  BY <1>1, <1>5
<1>7. \A q \in Processes : stage[q] # "divide" /\ stage'[q] # "divide"
  <2>1. \A q \in Processes : stage[q] # "divide"
    BY DEF MpiInv, Lockstep, OnlyOf
  <2>2. \A q \in Processes : stage'[q] # "divide"
    BY <2>1 DEF OnlyOf
  <2> QED  BY <2>1, <2>2
<1>10. Lockstep' /\ CallsDue' = CallsDue
  BY <1>1, <1>2, <1>4, <1>7 DEF MpiInv, Lockstep, CallsDue
<1>8. TotalsRight'
  BY <1>1, <1>2, <1>4 DEF MpiInv, TotalsRight, OnlyOf
<1>9. VerifiedRight'
  BY <1>1 DEF MpiInv, VerifiedRight, OnlyOf
<1> QED  BY <1>1, <1>2, <1>3, <1>4, <1>6, <1>8, <1>9, <1>10

\* When what it has sent is still right, and what it has passed and is to pass is
\* as much as before, the invariant holds behind the step.
LEMMA StepKeeps ==
  ASSUME MpiInv, NEW p \in Processes, OnlyOf(p), OfProcess(p)', LastSent',
         Done(0) = 0 /\ stage'[p] = "reduce" => passed'[p] = 0,
         Done(0) >= 1 /\ Countable' => Credit(p)' = Credit(p)
  PROVE  MpiInv'
<1>1. /\ Processes' = Processes /\ num_keys' = num_keys
      /\ \A q : Interval(q)' = Interval(q)
      /\ LowestTested' = LowestTested /\ IdleBetween' = IdleBetween
  BY SameTotals DEF OnlyOf
<1>2. /\ MpiWorld' /\ (\A q \in Processes' : OfProcess(q)') /\ Lockstep' /\ TotalsRight' /\ VerifiedRight'
      /\ Done(0)' = Done(0) /\ CallsDue' = CallsDue
  BY OthersSame
<1>3. ASSUME Done(0) = 0, NEW q \in Processes, stage'[q] = "reduce" PROVE passed'[q] = 0
  BY <1>3 DEF MpiInv, Credited, OnlyOf
<1>4. ASSUME Done(0) >= 1, Countable'
      PROVE  SumTo([q \in Processes |-> Credit(q)'], comm_size) = Len(test_index_array) * CallsDue + comm_size
  <2>1. Countable
    <3>1. (\E q \in Processes : stage[q] = "checked") => \E q \in Processes : stage'[q] = "checked"
      BY DEF OnlyOf
    <3>2. ~LowestTested /\ verified = "unknown"
      BY <1>1, <1>4 DEF Countable, OnlyOf
    <3>3. (\E q \in Processes : stage'[q] = "checked") => ~IdleBetween
      BY <1>1, <1>4 DEF Countable
    <3> QED  BY <3>1, <3>2, <3>3 DEF Countable
  <2>2. ASSUME NEW q \in Processes PROVE Credit(q)' = Credit(q)
    <3>1. CASE q = p
      BY <1>4, <3>1
    <3>2. CASE q # p
      <4>1. stage'[q] = stage[q] /\ passed'[q] = passed[q] /\ bucket_size_totals' = bucket_size_totals
        BY <3>2 DEF OnlyOf
      <4>2. Owed(q)' = Owed(q)
        BY <1>1, <4>1 DEF Owed
      <4> QED  BY <4>1, <4>2 DEF Credit
    <3> QED  BY <3>1, <3>2
  <2>3. [q \in Processes |-> Credit(q)'] = [q \in Processes |-> Credit(q)]
    BY <2>2
  <2>4. SumTo([q \in Processes |-> Credit(q)], comm_size) = Len(test_index_array) * CallsDue + comm_size
    BY <1>4, <2>1 DEF MpiInv, Credited
  <2> QED  BY <2>3, <2>4
<1>5. Credited'
  <2>1. comm_size' = comm_size
    BY DEF OnlyOf
  <2> QED  BY <1>1, <1>2, <1>3, <1>4, <2>1 DEF Credited
<1> QED  BY <1>2, <1>5 DEF MpiInv

\* What is sent stays right when nothing new is sent.
LEMMA SentSame ==
  ASSUME MpiInv, NEW p \in Processes, OnlyOf(p), last_keys' = last_keys,
         stage[p] \in {"wait", "exited"} => stage'[p] \in {"wait", "checked", "exited"}
  PROVE  LastSent'
<1>1. /\ Processes' = Processes
      /\ \A q : total_local_keys(q)' = total_local_keys(q) /\ Lesser(q)' = Lesser(q)
      /\ \A r : AllKeys(r)' = AllKeys(r)
  BY SameTotals DEF OnlyOf
<1>2. \A q \in Processes : Done(q)' = Done(q)
  BY DEF OnlyOf, Done
<1>3. \A q \in Processes : stage[q] \in {"wait", "checked", "exited"} => stage'[q] \in {"wait", "checked", "exited"}
  BY DEF OnlyOf
<1> QED  BY <1>1, <1>2, <1>3 DEF MpiInv, LastSent

\* It holds at first.
LEMMA MpiInvInit ==
  ASSUME MpiInit
  PROVE  MpiInv
<1>1. PICK np \in Started, strict \in BOOLEAN :
        /\ comm_size = LargestPower(np)
        /\ stage = [p \in 0 .. np - 1 |->
             IF comm_size # np /\ strict THEN "aborted" ELSE IF p >= comm_size THEN "exited" ELSE "create"]
  BY DEF MpiInit
<1>2. np \in Nat \ {0} /\ 2 * MAX_ITERATIONS * np < NUM_KEYS
  BY MpiAssumption
<1>3. PICK k \in Nat : comm_size = Power2[k] /\ Power2[k] <= np
  BY <1>1, <1>2, LargestIs
<1>4. MAX_ITERATIONS \in Nat /\ MAX_ITERATIONS > 0 /\ TOTAL_KEYS_LOG_2 \in Nat /\ NUM_KEYS \in Nat
  BY Sizes, SizesAssumption
<1>5. PICK c \in Nat \ {0} : c = comm_size /\ c <= np
  BY <1>3, Powers
<1>6. Power2[k] <= Power2[TOTAL_KEYS_LOG_2]
  <2>1. 2 * MAX_ITERATIONS * np >= np
    BY <1>2, <1>4
  <2> QED  BY <1>2, <1>3, <1>4, <1>5, <2>1 DEF NUM_KEYS
<1>7. PICK e \in Nat : /\ NUM_KEYS \div comm_size = Power2[e] /\ comm_size * Power2[e] = NUM_KEYS
                       /\ (4 * NUM_KEYS) \div comm_size = Power2[e + 2] /\ Power2[e + 2] = 4 * Power2[e]
  BY <1>3, <1>4, <1>6, SharesOfPower DEF NUM_KEYS
<1>8. PICK n \in Nat \ {0} : n = num_keys /\ n = Power2[e] /\ c * n = NUM_KEYS
  BY <1>5, <1>7, Powers DEF num_keys
<1>9. 2 * MAX_ITERATIONS < n
  <2>1. PICK x \in Nat : x = 2 * MAX_ITERATIONS
    BY <1>4
  <2> SUFFICES ASSUME n <= x PROVE FALSE
    BY <2>1
  <2>2. c * n <= np * n /\ np * n <= np * x /\ np * x = x * np
    BY <1>2, <1>5, <2>1
  <2>3. x * np < c * n
    BY <1>2, <1>4, <1>8, <2>1
  <2>4. c * n \in Nat /\ np * n \in Nat /\ np * x \in Nat
    BY <1>2, <2>1
  <2> QED  BY <2>2, <2>3, <2>4
<1>10. Processes = 0 .. c - 1 /\ Processes \subseteq DOMAIN stage
  BY <1>1, <1>2, <1>5 DEF Processes
<1>11. first_number \in 0 .. Wrap - 1 /\ verified = "unknown"
  BY MpiAssumption DEF MpiInit, Wrap
<1>12. MpiWorld
  <2>1. Even(comm_size, num_keys)
    BY <1>5, <1>8 DEF Even
  <2>2. /\ DOMAIN iterations = Processes /\ DOMAIN key_arrays = Processes /\ DOMAIN send_buff = Processes
        /\ DOMAIN recv_buff = Processes /\ DOMAIN ranks = Processes /\ DOMAIN bucket_sizes = Processes
        /\ DOMAIN passed = Processes
    BY DEF MpiInit
  <2> QED  BY <1>7, <1>8, <1>9, <1>10, <1>11, <2>1, <2>2 DEF MpiWorld
<1>13. \A p \in Processes : /\ stage[p] \in {"create", "aborted"} /\ iterations[p] = 0 /\ passed[p] = 0
                            /\ Done(p) = -1
  <2>1. \A p \in Processes : stage[p] \in {"create", "aborted"}
    BY <1>1, <1>2, <1>5, <1>10
  <2>2. \A p \in Processes : iterations[p] = 0 /\ passed[p] = 0
    BY DEF MpiInit
  <2> QED  BY <2>1, <2>2 DEF Done
<1>14. ASSUME NEW p \in Processes PROVE OfProcess(p)
  <2>1. StageOf(p)
    BY <1>4, <1>11, <1>13 DEF StageOf
  <2> QED  BY <1>13, <2>1 DEF OfProcess, KeysOfPart, SizesOfPart, KeysCame, RanksOfPart, PlacesOfPart
<1>15. Lockstep
  BY <1>13 DEF Lockstep
<1>16. Done(0) = -1
  BY <1>10, <1>13
<1>17. LastSent
  BY DEF MpiInit, LastSent
<1>18. TotalsRight /\ Credited
  BY <1>16 DEF TotalsRight, Credited
<1> QED  BY <1>11, <1>12, <1>14, <1>15, <1>17, <1>18 DEF MpiInv, VerifiedRight

\* find_my_seed() and create_seq() make the keys of the part.
LEMMA MakeStep ==
  ASSUME MpiInv, NEW p \in Processes, MakeKeys(p)
  PROVE  MpiInv'
<1>1. MpiWorld /\ OfProcess(p) /\ 0 \in Processes /\ \A q \in Processes : Done(q) = Done(p)
  BY WorldIs DEF MpiInv, Lockstep
<1>2. /\ stage[p] = "create" /\ iterations[p] = 0 /\ passed[p] \in Nat /\ verified = "unknown"
      /\ stage'[p] = "rank" /\ iterations' = iterations /\ passed' = passed
  BY <1>1 DEF MakeKeys, OfProcess, StageOf, MpiWorld, result
<1>3. /\ Processes' = Processes /\ num_keys' = num_keys /\ \A r : AllKeys(r)' = AllKeys(r)
      /\ first_number' = first_number /\ verified' = verified
  BY SameTotals DEF MakeKeys, world, result
<1>4. Done(p) = -1 /\ Done(p)' = -1
  BY <1>2 DEF Done
<1>5. OnlyOf(p)
  BY <1>1, <1>2, <1>4 DEF OnlyOf, MakeKeys, MpiWorld, world, result
<1>6. key_arrays'[p] = Slice(TheKeys(first_number), num_keys, p)
  <2>1. key_arrays'[p] = create_seq(MpiSeed(p, comm_size, 4 * NUM_KEYS, first_number), num_keys)
    BY <1>1 DEF MakeKeys, MpiWorld
  <2>2. PICK e \in Nat : num_keys = Power2[e] /\ (4 * NUM_KEYS) \div comm_size = Power2[e + 2] /\ Power2[e + 2] = 4 * Power2[e]
    BY <1>1 DEF MpiWorld
  <2>3. Even(comm_size, num_keys) /\ first_number \in 0 .. Wrap - 1 /\ p \in 0 .. comm_size - 1
    BY <1>1 DEF MpiWorld, Processes
  <2> QED  BY <2>1, <2>2, <2>3, KeysOfProcess
<1>7. OfProcess(p)'
  <2>1. StageOf(p)'
    BY <1>1, <1>2, <1>3 DEF OfProcess, StageOf
  <2>2. KeysOfPart(p)'
    BY <1>2, <1>3, <1>6 DEF KeysOfPart
  <2> QED  BY <1>2, <1>4, <2>1, <2>2 DEF OfProcess, SizesOfPart, KeysCame, RanksOfPart, PlacesOfPart
<1>8. LastSent'
  BY <1>2, <1>5, SentSame DEF MakeKeys
<1>9. Done(0) = -1
  BY <1>1, <1>4
<1> QED  BY <1>5, <1>7, <1>8, <1>9, StepKeeps

\* Where the test keys are.
LEMMA TestsAt ==
  /\ \A t \in Tests : /\ t \notin Buckets /\ TestPlace(t) \in Indices
                      /\ t - NUM_BUCKETS + 1 \in DOMAIN test_index_array
                      /\ test_index_array[t - NUM_BUCKETS + 1] = TestPlace(t)
  /\ IsFiniteSet(Tests) /\ Cardinality(Tests) = Len(test_index_array) /\ Len(test_index_array) \in Nat
<1>1. PICK m \in Nat : m = NUM_BUCKETS
  BY Sizes
<1>2. PICK l \in Nat : l = Len(test_index_array)
  BY SizesAssumption
<1>3. Tests = m .. m + l - 1
  BY <1>1, <1>2 DEF Tests
<1>4. DOMAIN test_index_array = 1 .. l /\ \A i \in 1 .. l : test_index_array[i] \in Indices
  <2>1. test_index_array \in Seq(Indices)
    BY SizesAssumption DEF Indices
  <2>2. test_index_array \in [1 .. Len(test_index_array) -> Indices]
    BY <2>1
  <2> QED  BY <1>2, <2>2
<1>5. ASSUME NEW t \in Tests
      PROVE  /\ t \notin Buckets /\ TestPlace(t) \in Indices
             /\ t - m + 1 \in DOMAIN test_index_array /\ test_index_array[t - m + 1] = TestPlace(t)
  <2>1. t \in Nat /\ t >= m /\ t - m + 1 \in 1 .. l
    BY <1>3
  <2>2. t \notin Buckets
    BY <1>1, <2>1 DEF Buckets
  <2> QED  BY <1>1, <1>4, <2>1, <2>2 DEF TestPlace
<1>6. IsFiniteSet(Tests) /\ Cardinality(Tests) = l
  <2>1. IsFiniteSet(m .. m + l - 1)
        /\ Cardinality(m .. m + l - 1) = IF m > m + l - 1 THEN 0 ELSE (m + l - 1) - m + 1
    BY FS_Interval
  <2> QED  BY <1>3, <2>1
<1> QED  BY <1>1, <1>2, <1>5, <1>6

\* The first half of rank(): keys altered, counted and ordered by their buckets.
LEMMA FillStep ==
  ASSUME MpiInv, NEW p \in Processes, FillBuckets(p)
  PROVE  MpiInv'
<1>1. MpiWorld /\ OfProcess(p) /\ 0 \in Processes /\ \A q \in Processes : Done(q) = Done(p)
  BY WorldIs DEF MpiInv, Lockstep
<1>2. PICK r \in 0 .. MAX_ITERATIONS : r = iterations[p]
  BY <1>1 DEF OfProcess, StageOf
<1>3. PICK keys : keys = IF p = 0 THEN Altered(key_arrays[p], IF r = 0 THEN 1 ELSE r) ELSE key_arrays[p]
  OBVIOUS
<1>4. /\ stage[p] = "rank" /\ stage'[p] = "reduce" /\ iterations' = iterations
      /\ key_arrays'[p] = keys /\ send_buff'[p] = ByBucket(keys)
      /\ bucket_sizes'[p] = [b \in Buckets \cup Tests |->
              IF b \in Buckets THEN Cardinality({k \in DOMAIN keys : BucketOf(keys[k]) = b})
              ELSE IF TestPlace(b) \div num_keys = p THEN keys[TestPlace(b) % num_keys] ELSE 0]
      /\ passed'[p] = IF r = 1 THEN 0 ELSE passed[p]
  BY <1>1, <1>2, <1>3 DEF FillBuckets, MpiWorld
<1>5. /\ Processes' = Processes /\ num_keys' = num_keys /\ \A x : AllKeys(x)' = AllKeys(x)
      /\ first_number' = first_number /\ verified' = verified
  BY SameTotals DEF FillBuckets, world
<1>6. r \in Nat /\ MAX_ITERATIONS \in Nat /\ MAX_ITERATIONS > 0 /\ Done(p) = r - 1 /\ Done(p)' = r - 1
  BY <1>2, <1>4, SizesAssumption DEF Done
<1>7. OnlyOf(p)
  BY <1>1, <1>4, <1>6 DEF OnlyOf, FillBuckets, MpiWorld, world
<1>8. PICK a \in KeyArrays : a = AllKeys(r)
  BY <1>1, <1>2, WorldIs
<1>9. PICK n : n = num_keys
  OBVIOUS
<1>10. Even(comm_size, n) /\ 2 * MAX_ITERATIONS < n /\ p \in 0 .. comm_size - 1 /\ first_number \in 0 .. Wrap - 1
  BY <1>1, <1>9 DEF MpiWorld, Processes
<1>11. keys = Slice(a, n, p)
  <2>1. CASE r = 0
    <3>1. key_arrays[p] = Slice(TheKeys(first_number), n, p)
      BY <1>1, <1>2, <1>4, <1>9, <2>1 DEF OfProcess, KeysOfPart
    <3>2. a = Altered(TheKeys(first_number), 1) /\ TheKeys(first_number) \in KeyArrays
      BY <1>8, <1>10, <2>1, KeysAtIs, TheKeysInRange DEF AllKeys
    <3>3. 1 \in 1 .. MAX_ITERATIONS
      BY <1>6
    <3>4. Slice(a, n, p) = IF p = 0 THEN Altered(Slice(TheKeys(first_number), n, p), 1) ELSE Slice(TheKeys(first_number), n, p)
      BY <1>10, <3>2, <3>3, SliceOfAltered
    <3> QED  BY <1>3, <2>1, <3>1, <3>4
  <2>2. CASE r # 0
    <3>1. r - 1 \in 0 .. MAX_ITERATIONS /\ r - 1 \in Nat /\ (r - 1) + 1 = r /\ r \in 1 .. MAX_ITERATIONS
      BY <1>6, <2>2
    <3>2. PICK z \in KeyArrays : z = AllKeys(r - 1)
      BY <1>1, <3>1, WorldIs
    <3>3. key_arrays[p] = Slice(z, n, p)
      BY <1>1, <1>2, <1>4, <1>9, <2>2, <3>2 DEF OfProcess, KeysOfPart
    <3>4. a = Altered(z, r)
      BY <1>8, <1>10, <3>1, <3>2, KeysAtIs DEF AllKeys
    <3>5. Slice(a, n, p) = IF p = 0 THEN Altered(Slice(z, n, p), r) ELSE Slice(z, n, p)
      BY <1>10, <3>1, <3>4, SliceOfAltered
    <3> QED  BY <1>3, <2>2, <3>3, <3>5
  <2> QED  BY <2>1, <2>2
<1>12. \A b \in Buckets : bucket_sizes'[p][b] = Cardinality({i \in PartAt(n, p) : BucketOf(a[i]) = b})
  <2> SUFFICES ASSUME NEW b \in Buckets
               PROVE  bucket_sizes'[p][b] = Cardinality({i \in PartAt(n, p) : BucketOf(a[i]) = b})
    OBVIOUS
  <2>1. bucket_sizes'[p][b] = Cardinality({k \in DOMAIN keys : BucketOf(keys[k]) = b})
    BY <1>4
  <2>2. Cardinality(Having(keys, DOMAIN keys, b)) = Cardinality(Having(a, PartAt(n, p), b))
    BY <1>10, <1>11, SliceCounts
  <2> QED  BY <2>1, <2>2 DEF Having
<1>13. \A t \in Tests : bucket_sizes'[p][t] = IF TestPlace(t) \in PartAt(n, p) THEN a[TestPlace(t)] ELSE 0
  <2> SUFFICES ASSUME NEW t \in Tests
               PROVE  bucket_sizes'[p][t] = IF TestPlace(t) \in PartAt(n, p) THEN a[TestPlace(t)] ELSE 0
    OBVIOUS
  <2>1. PICK i \in Indices : i = TestPlace(t) /\ t \notin Buckets
    BY TestsAt
  <2>2. bucket_sizes'[p][t] = IF i \div n = p THEN keys[i % n] ELSE 0
    BY <1>4, <1>9, <2>1
  <2>3. i \div n = p <=> i \in PartAt(n, p)
    BY <1>10, TestKeyAt
  <2>4. i \div n = p => keys[i % n] = a[i]
    <3> SUFFICES ASSUME i \div n = p PROVE keys[i % n] = a[i]
      OBVIOUS
    <3>1. PICK j \in 0 .. n - 1 : j = i % n /\ n * p + j = i
      BY <1>10, TestKeyAt
    <3> QED  BY <1>11, <3>1 DEF Slice
  <2> QED  BY <2>1, <2>2, <2>3, <2>4
<1>14. OfProcess(p)'
  <2>1. StageOf(p)'
    BY <1>1, <1>2, <1>4, <1>5 DEF OfProcess, StageOf
  <2>2. KeysOfPart(p)'
    BY <1>2, <1>4, <1>5, <1>8, <1>9, <1>11 DEF KeysOfPart
  <2>3. SizesOfPart(p)'
    BY <1>2, <1>4, <1>5, <1>8, <1>9, <1>11, <1>12, <1>13 DEF SizesOfPart
  <2> QED  BY <1>4, <2>1, <2>2, <2>3 DEF OfProcess, KeysCame, RanksOfPart, PlacesOfPart
<1>15. LastSent'
  BY <1>4, <1>7, SentSame DEF FillBuckets
<1>16. Done(0) = 0 => passed'[p] = 0
  BY <1>1, <1>4, <1>6
<1>17. Done(0) >= 1 => Credit(p)' = Credit(p)
  <2>1. Owed(p) = 0 /\ Owed(p)' = 0
    BY <1>4 DEF Owed
  <2>2. Done(0) >= 1 => passed'[p] = passed[p]
    BY <1>1, <1>4, <1>6
  <2> QED  BY <1>4, <2>1, <2>2 DEF Credit
<1> QED  BY <1>7, <1>14, <1>15, <1>16, <1>17, StepKeeps

\* The test keys whose values are a process's.
TestsOf(p) == {t \in Tests : bucket_size_totals[t] \in Interval(p)}

\* They are finite in number, and those a process has still to look at.
LEMMA TestsOfIs ==
  /\ \A p : \A S : S \subseteq TestsOf(p) => IsFiniteSet(S) /\ Cardinality(S) \in Nat
  /\ \A p : Owed(p) = IF stage[p] \in {"exchanged", "undefined"} THEN Cardinality(TestsOf(p)) ELSE 0
<1>1. ASSUME NEW p, NEW S, S \subseteq TestsOf(p) PROVE IsFiniteSet(S) /\ Cardinality(S) \in Nat
  <2>1. S \subseteq Tests
    BY <1>1 DEF TestsOf
  <2> QED  BY <2>1, TestsAt, FS_Subset, FS_CardinalityType
<1> QED  BY <1>1 DEF Owed, TestsOf

\* What rank() counts, and the test keys it finds right.
EntriesOf(p) ==
  [v \in Interval(p) |-> Cardinality({i \in 0 .. total_local_keys(p) - 1 : recv_buff[p][i] <= v})]
LowestOf(p) == {t \in TestsOf(p) : bucket_size_totals[t] = Min(Interval(p))}
RightOf(p) ==
  {t \in TestsOf(p) \ LowestOf(p) :
     EntriesOf(p)[bucket_size_totals[t] - 1] + Lesser(p) = TableRank(first_number, iterations[p], t - NUM_BUCKETS + 1)}

\* The entries are the ranks among all keys, but for those before.
LEMMA EntriesAre ==
  ASSUME MpiInv, NEW p \in Processes, stage[p] = "exchanged"
  PROVE  /\ DOMAIN EntriesOf(p) = Interval(p)
         /\ \A v \in Interval(p) : /\ EntriesOf(p)[v] \in Nat
                                   /\ EntriesOf(p)[v] + Lesser(p) = RankOf(AllKeys(iterations[p]), v)
<1>1. MpiWorld /\ OfProcess(p) /\ 0 \in Processes /\ Done(0) = Done(p) /\ Done(p) = iterations[p]
  BY WorldIs DEF MpiInv, Lockstep, Done
<1>2. iterations[p] \in 0 .. MAX_ITERATIONS /\ Even(comm_size, num_keys)
  BY <1>1 DEF OfProcess, StageOf, MpiWorld
<1>3. PICK a \in KeyArrays : a = AllKeys(iterations[p])
  BY <1>1, <1>2, WorldIs
<1>4. TotalsAre(a)
  BY <1>1, <1>2, <1>3, SizesAssumption DEF MpiInv, TotalsRight
<1>5. PICK T \in SUBSET Indices : T = KeysFor(a, Indices, Distribution[p])
  BY DEF KeysFor
<1>6. total_local_keys(p) = Cardinality(T)
  BY <1>2, <1>4, <1>5, LesserIs
<1>7. Arrived(recv_buff[p], a, T)
  BY <1>1, <1>3, <1>5 DEF OfProcess, KeysCame
<1>8. ASSUME NEW v \in Interval(p)
      PROVE  EntriesOf(p)[v] \in Nat /\ EntriesOf(p)[v] + Lesser(p) = RankOf(a, v)
  <2>1. /\ v \in KeyRange
        /\ Cardinality({i \in T : a[i] <= v}) + Lesser(p) = RankOf(a, v)
    BY <1>2, <1>4, <1>5, RankOfProcess
  <2>2. Cardinality(UpToValue(recv_buff[p], 0 .. Cardinality(T) - 1, v)) = Cardinality(UpToValue(a, T, v))
    BY <1>7, <2>1, ArrivedUpTo
  <2>3. EntriesOf(p)[v] = Cardinality(UpToValue(recv_buff[p], 0 .. Cardinality(T) - 1, v))
    BY <1>6 DEF EntriesOf, UpToValue
  <2>4. UpToValue(a, T, v) = {i \in T : a[i] <= v} /\ UpToValue(a, T, v) \in SUBSET Indices
    BY DEF UpToValue
  <2>5. Cardinality(UpToValue(a, T, v)) \in Nat
    BY <2>4, Finite
  <2> QED  BY <2>1, <2>2, <2>3, <2>4, <2>5
<1> QED  BY <1>3, <1>8 DEF EntriesOf

\* The test keys that cannot be the least of a process are found right.
LEMMA AllRight ==
  ASSUME MpiInv, NEW p \in Processes, stage[p] = "exchanged", Done(0) >= 1, ~LowestTested
  PROVE  LowestOf(p) = {} /\ RightOf(p) = TestsOf(p)
<1>1. MpiWorld /\ OfProcess(p) /\ 0 \in Processes /\ Done(0) = Done(p) /\ Done(p) = iterations[p]
  BY WorldIs DEF MpiInv, Lockstep, Done
<1>2. PICK r \in 1 .. MAX_ITERATIONS : r = iterations[p] /\ r \in 0 .. MAX_ITERATIONS
  <2>1. iterations[p] \in 0 .. MAX_ITERATIONS /\ MAX_ITERATIONS \in Nat
    BY <1>1, SizesAssumption DEF OfProcess, StageOf
  <2> QED  BY <1>1, <2>1
<1>3. PICK a \in KeyArrays : a = AllKeys(r)
  BY <1>1, <1>2, WorldIs
<1>4. ASSUME NEW t \in TestsOf(p) PROVE t \notin LowestOf(p) /\ t \in RightOf(p)
  <2>1. PICK j \in DOMAIN test_index_array : j = t - NUM_BUCKETS + 1 /\ test_index_array[j] = TestPlace(t) /\ t \in Tests
    BY TestsAt DEF TestsOf
  <2>2. PICK v \in Interval(p) : v = bucket_size_totals[t]
    BY DEF TestsOf
  <2>3. v = a[TestPlace(t)]
    <3>1. Done(0) >= 0
      BY <1>1, <1>2
    <3>2. bucket_size_totals[t] = AllKeys(Done(0))[TestPlace(t)]
      BY <2>1, <3>1 DEF MpiInv, TotalsRight
    <3> QED  BY <1>1, <1>2, <1>3, <2>2, <3>2
  <2>4. v % num_bucket_keys # 0
    <3>1. v = KeysAt(first_number, r)[test_index_array[j]]
      BY <1>3, <2>1, <2>3 DEF AllKeys
    <3> QED  BY <2>1, <3>1 DEF LowestTested
  <2>5. v - 1 \in Interval(p) /\ v # Min(Interval(p))
    BY <2>4, NotTheLeast
  <2>6. t \notin LowestOf(p)
    BY <2>2, <2>5 DEF LowestOf
  <2>7. EntriesOf(p)[v - 1] + Lesser(p) = RankOf(a, v - 1)
    BY <1>2, <1>3, <2>5, EntriesAre
  <2>8. TableRank(first_number, r, j) = RankOf(a, v - 1)
    BY <1>3, <2>1, <2>3 DEF TableRank, AllKeys
  <2> QED  BY <1>2, <2>1, <2>2, <2>6, <2>7, <2>8 DEF RightOf
<1>5. LowestOf(p) \subseteq TestsOf(p) /\ RightOf(p) \subseteq TestsOf(p)
  BY DEF LowestOf, RightOf
<1> QED  BY <1>4, <1>5

\* The rest of rank().
LEMMA RankKeysStep ==
  ASSUME MpiInv, NEW p \in Processes, RankKeys(p)
  PROVE  MpiInv'
<1>1. MpiWorld /\ OfProcess(p) /\ 0 \in Processes /\ Done(0) = Done(p)
  BY WorldIs DEF MpiInv, Lockstep
<1>2. PICK r \in 0 .. MAX_ITERATIONS : r = iterations[p] /\ r \in Nat
  BY <1>1, SizesAssumption DEF OfProcess, StageOf
<1>3. PICK lucky \in SUBSET LowestOf(p) : passed' = [passed EXCEPT ![p] = @ + Cardinality(RightOf(p) \cup lucky)]
  BY DEF RankKeys, LowestOf, RightOf, TestsOf, EntriesOf
<1>4. /\ stage[p] = "exchanged"
      /\ stage' = [stage EXCEPT ![p] = IF r < MAX_ITERATIONS THEN "rank" ELSE "sort"]
      /\ iterations' = [iterations EXCEPT ![p] = IF r < MAX_ITERATIONS THEN r + 1 ELSE r]
      /\ ranks' = [ranks EXCEPT ![p] = EntriesOf(p)]
      /\ UNCHANGED <<world, key_arrays, send_buff, recv_buff, bucket_sizes, bucket_size_totals, last_keys, verified>>
  BY <1>2 DEF RankKeys, EntriesOf
<1>5. /\ stage'[p] = (IF r < MAX_ITERATIONS THEN "rank" ELSE "sort")
      /\ iterations'[p] = (IF r < MAX_ITERATIONS THEN r + 1 ELSE r)
      /\ ranks'[p] = EntriesOf(p)
      /\ passed'[p] = passed[p] + Cardinality(RightOf(p) \cup lucky)
      /\ key_arrays' = key_arrays /\ recv_buff' = recv_buff
  BY <1>1, <1>3, <1>4 DEF MpiWorld
<1>6. Done(p) = r /\ Done(p)' = r
  BY <1>2, <1>4, <1>5 DEF Done
<1>7. OnlyOf(p)
  BY <1>1, <1>3, <1>4, <1>5, <1>6 DEF OnlyOf, MpiWorld, world
<1>8. /\ Processes' = Processes /\ num_keys' = num_keys /\ Distribution' = Distribution /\ Interval(p)' = Interval(p)
      /\ Lesser(p)' = Lesser(p) /\ \A x : AllKeys(x)' = AllKeys(x)
      /\ first_number' = first_number /\ verified' = verified /\ LowestTested' = LowestTested
  BY <1>4, SameTotals DEF world
<1>9. PICK a \in KeyArrays : a = AllKeys(r)
  BY <1>1, <1>2, WorldIs
<1>10. RightOf(p) \cup lucky \subseteq TestsOf(p)
  BY DEF RightOf, LowestOf
<1>11. Cardinality(RightOf(p) \cup lucky) \in Nat /\ Cardinality(TestsOf(p)) \in Nat
  BY <1>10, TestsOfIs
<1>12. passed[p] \in Nat /\ verified = "unknown" /\ MAX_ITERATIONS \in Nat
  BY <1>1, <1>4, SizesAssumption DEF OfProcess, StageOf
<1>13. OfProcess(p)'
  <2>1. StageOf(p)'
    <3>1. iterations'[p] \in 0 .. MAX_ITERATIONS /\ passed'[p] \in Nat
      BY <1>2, <1>5, <1>11, <1>12
    <3>2. stage'[p] = "sort" => iterations'[p] = MAX_ITERATIONS
      BY <1>2, <1>5, <1>12
    <3> QED  BY <1>5, <1>8, <1>12, <3>1, <3>2 DEF StageOf
  <2>2. KeysOfPart(p)'
    <3>1. key_arrays[p] = Slice(a, num_keys, p)
      BY <1>1, <1>2, <1>4, <1>9 DEF OfProcess, KeysOfPart
    <3>2. stage'[p] = "rank" => iterations'[p] # 0 /\ iterations'[p] - 1 = r
      BY <1>2, <1>5, <1>12
    <3>3. stage'[p] # "rank" => stage'[p] = "sort" /\ iterations'[p] = r
      BY <1>5
    <3> QED  BY <1>5, <1>8, <1>9, <3>1, <3>2, <3>3 DEF KeysOfPart
  <2>3. SizesOfPart(p)' /\ PlacesOfPart(p)'
    BY <1>5 DEF SizesOfPart, PlacesOfPart
  <2>4. KeysCame(p)'
    <3>1. Arrived(recv_buff[p], a, KeysFor(a, Indices, Distribution[p]))
      BY <1>1, <1>4, <1>6, <1>9 DEF OfProcess, KeysCame
    <3> QED  BY <1>5, <1>6, <1>8, <1>9, <3>1 DEF KeysCame
  <2>5. RanksOfPart(p)'
    <3>1. /\ DOMAIN EntriesOf(p) = Interval(p)
          /\ \A v \in Interval(p) : EntriesOf(p)[v] \in Nat /\ EntriesOf(p)[v] + Lesser(p) = RankOf(a, v)
      BY <1>2, <1>4, <1>9, EntriesAre
    <3> QED  BY <1>5, <1>6, <1>8, <1>9, <3>1 DEF RanksOfPart
  <2> QED  BY <2>1, <2>2, <2>3, <2>4, <2>5 DEF OfProcess
<1>14. LastSent'
  BY <1>4, <1>7, SentSame
<1>15. ASSUME Done(0) >= 1, Countable' PROVE Credit(p)' = Credit(p)
  <2>1. LowestOf(p) = {} /\ RightOf(p) = TestsOf(p)
    BY <1>4, <1>8, <1>15, AllRight DEF Countable
  <2>2. passed'[p] = passed[p] + Cardinality(TestsOf(p))
    BY <1>5, <2>1
  <2>3. Owed(p) = Cardinality(TestsOf(p))
    BY <1>4, TestsOfIs
  <2>4. Owed(p)' = 0
    BY <1>5 DEF Owed
  <2> QED  BY <1>4, <1>5, <1>11, <1>12, <2>2, <2>3, <2>4 DEF Credit
<1>16. stage'[p] # "reduce"
  BY <1>5
<1> QED  BY <1>7, <1>13, <1>14, <1>15, <1>16, StepKeeps

\* Where full_verify() puts the keys of a value, and what it makes of the array.
ManyOf(p, v) == Cardinality({i \in 0 .. total_local_keys(p) - 1 : recv_buff[p][i] = v})
LocalPlaces(p, v) == ranks[p][v] - ManyOf(p, v) .. ranks[p][v] - 1
SortedOf(p) ==
  [i \in DOMAIN key_arrays[p] \cup 0 .. total_local_keys(p) - 1 |->
     IF \E v \in Interval(p) : i \in LocalPlaces(p, v) THEN CHOOSE v \in Interval(p) : i \in LocalPlaces(p, v)
     ELSE key_arrays[p][i]]

\* What a process knows when it has ranked its keys for the last time.
LEMMA LastRanks ==
  ASSUME MpiInv, NEW p \in Processes, stage[p] \in {"sort", "wait", "checked", "exited"}
  PROVE  /\ Even(comm_size, num_keys) /\ AllKeys(MAX_ITERATIONS) \in KeyArrays /\ TotalsAre(AllKeys(MAX_ITERATIONS))
         /\ iterations[p] = MAX_ITERATIONS /\ Done(0) = MAX_ITERATIONS /\ MAX_ITERATIONS \in Nat
         /\ \A q \in Processes : Done(q) = MAX_ITERATIONS
<1>1. MpiWorld /\ OfProcess(p) /\ 0 \in Processes /\ \A q \in Processes : Done(q) = Done(p)
  BY WorldIs DEF MpiInv, Lockstep
<1>2. iterations[p] = MAX_ITERATIONS /\ MAX_ITERATIONS \in Nat /\ MAX_ITERATIONS \in 0 .. MAX_ITERATIONS
  BY <1>1, SizesAssumption DEF OfProcess, StageOf
<1>3. Done(p) = MAX_ITERATIONS
  BY <1>2 DEF Done
<1>4. AllKeys(MAX_ITERATIONS) \in KeyArrays
  BY <1>1, <1>2, WorldIs
<1>5. TotalsAre(AllKeys(MAX_ITERATIONS))
  BY <1>1, <1>2, <1>3 DEF MpiInv, TotalsRight
<1> QED  BY <1>1, <1>2, <1>3, <1>4, <1>5 DEF MpiWorld

\* The places are those of the values, but for the keys before.
LEMMA LocalPlacesAre ==
  ASSUME MpiInv, NEW p \in Processes, stage[p] = "sort", NEW v \in Interval(p), NEW i \in Int
  PROVE  i \in LocalPlaces(p, v) <=> i + Lesser(p) \in ValuePlaces(AllKeys(MAX_ITERATIONS), v)
<1>1. PICK a \in KeyArrays : a = AllKeys(MAX_ITERATIONS) /\ TotalsAre(a) /\ Even(comm_size, num_keys) /\ Done(p) = MAX_ITERATIONS
  BY LastRanks
<1>2. OfProcess(p) /\ p \in 0 .. comm_size /\ MAX_ITERATIONS \in Nat
  <2>1. p \in 0 .. comm_size
    BY <1>1 DEF Processes, Even
  <2> QED  BY <2>1, SizesAssumption DEF MpiInv
<1>3. PICK T \in SUBSET Indices : T = KeysFor(a, Indices, Distribution[p])
  BY DEF KeysFor
<1>4. total_local_keys(p) = Cardinality(T) /\ Lesser(p) \in Nat
  BY <1>1, <1>2, <1>3, LesserIs
<1>5. Arrived(recv_buff[p], a, T)
  BY <1>1, <1>2, <1>3 DEF OfProcess, KeysCame
<1>6. /\ v \in KeyRange
      /\ Cardinality({k \in T : a[k] = v}) = CountIn(a, v)
  BY <1>1, <1>3, RankOfProcess
<1>7. Cardinality(OfValue(recv_buff[p], 0 .. Cardinality(T) - 1, v)) = Cardinality(OfValue(a, T, v))
  BY <1>5, <1>6, ArrivedUpTo
<1>8. ManyOf(p, v) = CountIn(a, v)
  BY <1>4, <1>6, <1>7 DEF ManyOf, OfValue
<1>9. CountIn(a, v) \in Nat /\ RankOf(a, v) \in Nat
  BY KeysAreNumbers, RanksAreSizes
<1>10. ranks[p][v] \in Nat /\ ranks[p][v] + Lesser(p) = RankOf(a, v)
  BY <1>1, <1>2 DEF OfProcess, RanksOfPart
<1>11. PICK c \in Nat, l \in Nat, x \in Nat : c = CountIn(a, v) /\ l = Lesser(p) /\ x = ranks[p][v] /\ RankOf(a, v) = x + l
  BY <1>4, <1>9, <1>10
<1>12. LocalPlaces(p, v) = x - c .. x - 1 /\ ValuePlaces(a, v) = (x + l) - c .. (x + l) - 1
  BY <1>8, <1>11 DEF LocalPlaces, ValuePlaces
<1>13. i \in x - c .. x - 1 <=> i + l \in (x + l) - c .. (x + l) - 1
  BY <1>11
<1> QED  BY <1>1, <1>11, <1>12, <1>13

\* Each of its places has the key that is to be there.
LEMMA SortedOfIs ==
  ASSUME MpiInv, NEW p \in Processes, stage[p] = "sort", NEW i \in 0 .. total_local_keys(p) - 1
  PROVE  /\ SortedOf(p)[i] \in KeyRange
         /\ i + Lesser(p) \in ValuePlaces(AllKeys(MAX_ITERATIONS), SortedOf(p)[i])
<1>1. PICK a \in KeyArrays : a = AllKeys(MAX_ITERATIONS) /\ TotalsAre(a) /\ Even(comm_size, num_keys)
  BY LastRanks
<1>2. i \in Int
  OBVIOUS
<1>3. PICK v \in Interval(p) : i + Lesser(p) \in ValuePlaces(a, v)
  BY <1>1, PlacesOfProcess
<1>4. i \in LocalPlaces(p, v)
  BY <1>1, <1>2, <1>3, LocalPlacesAre
<1>5. PICK w : w = CHOOSE x \in Interval(p) : i \in LocalPlaces(p, x)
  OBVIOUS
<1>6. w \in Interval(p) /\ i \in LocalPlaces(p, w)
  BY <1>4, <1>5
<1>7. SortedOf(p)[i] = w
  BY <1>4, <1>5 DEF SortedOf
<1>8. i + Lesser(p) \in ValuePlaces(a, w) /\ w \in KeyRange
  BY <1>1, <1>2, <1>6, LocalPlacesAre DEF Interval
<1> QED  BY <1>1, <1>7, <1>8

\* full_verify() up to the message.
LEMMA SortStep ==
  ASSUME MpiInv, NEW p \in Processes, SortAndSend(p)
  PROVE  MpiInv'
<1> DEFINE n == total_local_keys(p)
<1>1. MpiWorld /\ OfProcess(p) /\ 0 \in Processes /\ Done(0) = Done(p)
  BY WorldIs DEF MpiInv, Lockstep
<1>2. /\ stage[p] = "sort" /\ key_arrays' = [key_arrays EXCEPT ![p] = SortedOf(p)]
      /\ stage' = [stage EXCEPT ![p] = "wait"]
      /\ last_keys' = IF p = comm_size - 1 THEN last_keys
                      ELSE [q \in DOMAIN last_keys \cup {p + 1} |->
                             IF q = p + 1 THEN SortedOf(p)[IF n = 0 THEN 0 ELSE n - 1] ELSE last_keys[q]]
      /\ UNCHANGED <<world, iterations, send_buff, recv_buff, ranks, bucket_sizes, bucket_size_totals, result>>
  BY DEF SortAndSend, SortedOf, LocalPlaces, ManyOf
<1>3. PICK a \in KeyArrays : a = AllKeys(MAX_ITERATIONS) /\ TotalsAre(a) /\ Even(comm_size, num_keys)
                             /\ Done(p) = MAX_ITERATIONS /\ MAX_ITERATIONS \in Nat /\ iterations[p] = MAX_ITERATIONS
  BY <1>2, LastRanks
<1>4. stage'[p] = "wait" /\ key_arrays'[p] = SortedOf(p) /\ iterations' = iterations /\ passed' = passed
  BY <1>1, <1>2 DEF MpiWorld, result
<1>5. Done(p)' = MAX_ITERATIONS
  BY <1>3, <1>4 DEF Done
<1>6. OnlyOf(p)
  BY <1>1, <1>2, <1>3, <1>4, <1>5 DEF OnlyOf, MpiWorld, world, result
<1>7. /\ Processes' = Processes
      /\ \A q : total_local_keys(q)' = total_local_keys(q) /\ Lesser(q)' = Lesser(q)
      /\ \A x : AllKeys(x)' = AllKeys(x)
      /\ verified' = verified /\ bucket_size_totals' = bucket_size_totals
  BY <1>2, SameTotals DEF world, result
<1>8. \A i \in 0 .. n - 1 : SortedOf(p)[i] \in KeyRange /\ i + Lesser(p) \in ValuePlaces(a, SortedOf(p)[i])
  BY <1>2, <1>3, SortedOfIs
<1>9. n \in Nat /\ p \in Nat /\ p <= comm_size - 1 /\ comm_size \in Nat
  BY <1>1, <1>3, LesserIs, WorldIs DEF Processes
<1>10. OfProcess(p)'
  <2>1. StageOf(p)'
    BY <1>1, <1>2, <1>3, <1>4, <1>7 DEF OfProcess, StageOf
  <2>2. PlacesOfPart(p)'
    BY <1>3, <1>4, <1>5, <1>7, <1>8 DEF PlacesOfPart
  <2> QED  BY <1>4, <2>1, <2>2 DEF OfProcess, KeysOfPart, SizesOfPart, KeysCame, RanksOfPart
<1>11. \A q \in Processes : Done(q)' = Done(q) /\ (stage[q] \in {"wait", "checked", "exited"} => stage'[q] = stage[q])
  BY <1>2, <1>6 DEF OnlyOf, Done
<1>12. ASSUME NEW q \in DOMAIN last_keys, last_keys'[q] = last_keys[q]
       PROVE  \E x \in Processes :
                /\ q = x + 1 /\ q \in Processes /\ stage'[x] \in {"wait", "checked", "exited"}
                /\ total_local_keys(x) > 0 =>
                     /\ last_keys'[q] \in KeyRange
                     /\ (total_local_keys(x) - 1) + Lesser(x) \in ValuePlaces(AllKeys(Done(x)'), last_keys'[q])
  <2>1. PICK x \in Processes :
          /\ q = x + 1 /\ q \in Processes /\ stage[x] \in {"wait", "checked", "exited"}
          /\ total_local_keys(x) > 0 =>
               /\ last_keys[q] \in KeyRange
               /\ (total_local_keys(x) - 1) + Lesser(x) \in ValuePlaces(AllKeys(Done(x)), last_keys[q])
    BY DEF MpiInv, LastSent
  <2> QED  BY <1>11, <1>12, <2>1
<1>13. ASSUME p # comm_size - 1
       PROVE  /\ p + 1 \in Processes
              /\ n > 0 => /\ last_keys'[p + 1] \in KeyRange
                          /\ (n - 1) + Lesser(p) \in ValuePlaces(AllKeys(Done(p)'), last_keys'[p + 1])
  <2>1. p + 1 \in Processes
    BY <1>9, <1>13 DEF Processes
  <2>2. n > 0 => last_keys'[p + 1] = SortedOf(p)[n - 1] /\ n - 1 \in 0 .. n - 1
    BY <1>2, <1>9, <1>13
  <2> QED  BY <1>3, <1>5, <1>8, <2>1, <2>2
<1>14. LastSent'
  <2> SUFFICES ASSUME NEW q \in DOMAIN last_keys'
               PROVE  \E x \in Processes :
                        /\ q = x + 1 /\ q \in Processes /\ stage'[x] \in {"wait", "checked", "exited"}
                        /\ total_local_keys(x) > 0 =>
                             /\ last_keys'[q] \in KeyRange
                             /\ (total_local_keys(x) - 1) + Lesser(x) \in ValuePlaces(AllKeys(Done(x)'), last_keys'[q])
    BY <1>7 DEF LastSent
  <2>1. CASE q = p + 1 /\ p # comm_size - 1
    BY <1>4, <1>13, <2>1
  <2>2. CASE ~(q = p + 1 /\ p # comm_size - 1)
    <3>1. q \in DOMAIN last_keys /\ last_keys'[q] = last_keys[q]
      BY <1>2, <2>2
    <3> QED  BY <1>12, <3>1
  <2> QED  BY <2>1, <2>2
<1>15. Credit(p)' = Credit(p)
  BY <1>2, <1>4 DEF Credit, Owed
<1>16. stage'[p] # "reduce"
  BY <1>4
<1> QED  BY <1>6, <1>10, <1>14, <1>15, <1>16, StepKeeps

\* Lesser places have no greater values.
LEMMA PlacesInOrder ==
  ASSUME NEW a \in KeyArrays, NEW x \in KeyRange, NEW y \in KeyRange,
         NEW k \in ValuePlaces(a, x), NEW l \in ValuePlaces(a, y), k <= l
  PROVE  x <= y
<1>1. x \in Int /\ y \in Int /\ x - 1 \in Int
  BY Sizes DEF KeyRange
<1> SUFFICES ASSUME y <= x - 1 PROVE FALSE
  BY <1>1
<1>2. RankOf(a, y) <= RankOf(a, x - 1)
  BY <1>1, RanksGrow
<1>3. RankOf(a, x) = RankOf(a, x - 1) + CountIn(a, x)
  BY <1>1, RankStep
<1>4. RankOf(a, y) \in Nat /\ RankOf(a, x) \in Nat /\ RankOf(a, x - 1) \in Nat /\ CountIn(a, x) \in Nat
      /\ CountIn(a, y) \in Nat
  BY KeysAreNumbers, RanksAreSizes
<1>5. k \in Int /\ RankOf(a, x) - CountIn(a, x) <= k
  BY <1>4 DEF ValuePlaces
<1>6. l \in Int /\ l < RankOf(a, y)
  BY <1>4 DEF ValuePlaces
<1> QED  BY <1>2, <1>3, <1>4, <1>5, <1>6

\* What full_verify() counts.
WrongOf(p) ==
  \/ p > 0 /\ total_local_keys(p) > 0 /\ last_keys[p] > key_arrays[p][0]
  \/ \E i \in 1 .. total_local_keys(p) - 1 : key_arrays[p][i - 1] > key_arrays[p][i]

\* It finds nothing wrong, unless what was sent is no key.
LEMMA NothingWrong ==
  ASSUME MpiInv, NEW p \in Processes, stage[p] = "wait", p > 0 => p \in DOMAIN last_keys, ~IdleBetween
  PROVE  ~WrongOf(p)
<1> DEFINE n == total_local_keys(p)
<1>1. PICK a \in KeyArrays : a = AllKeys(MAX_ITERATIONS) /\ TotalsAre(a) /\ Even(comm_size, num_keys)
                             /\ \A q \in Processes : Done(q) = MAX_ITERATIONS
  BY LastRanks
<1>2. MpiWorld /\ OfProcess(p)
  BY DEF MpiInv
<1>3. \A i \in 0 .. n - 1 : key_arrays[p][i] \in KeyRange /\ i + Lesser(p) \in ValuePlaces(a, key_arrays[p][i])
  BY <1>1, <1>2 DEF OfProcess, PlacesOfPart
<1>4. n \in Nat /\ Lesser(p) \in Nat /\ p \in Nat
  <2>1. p \in 0 .. comm_size
    BY <1>1 DEF Processes, Even
  <2> QED  BY <1>1, <2>1, LesserIs
<1>5. \A v \in KeyRange : v \in Int
  BY Sizes DEF KeyRange
<1>6. ASSUME NEW i \in 1 .. n - 1 PROVE key_arrays[p][i - 1] <= key_arrays[p][i]
  <2>1. i - 1 \in 0 .. n - 1 /\ i \in 0 .. n - 1 /\ (i - 1) + Lesser(p) <= i + Lesser(p)
    BY <1>4
  <2> QED  BY <1>3, <2>1, PlacesInOrder
<1>7. ASSUME p > 0, n > 0 PROVE last_keys[p] \in KeyRange /\ last_keys[p] <= key_arrays[p][0]
  <2>1. p \in DOMAIN last_keys
    BY <1>7
  <2>2. PICK x \in Processes :
          /\ p = x + 1
          /\ total_local_keys(x) > 0 =>
               /\ last_keys[p] \in KeyRange
               /\ (total_local_keys(x) - 1) + Lesser(x) \in ValuePlaces(AllKeys(Done(x)), last_keys[p])
    BY <2>1 DEF MpiInv, LastSent
  <2>3. x \in Nat /\ x < p
    BY <1>1, <2>2 DEF Processes, Even
  <2>4. total_local_keys(x) # 0
    BY <1>7, <2>3 DEF IdleBetween
  <2>5. x \in 0 .. comm_size
    BY <1>1 DEF Processes, Even
  <2>6. total_local_keys(x) \in Nat /\ Lesser(p) = Lesser(x) + total_local_keys(x) /\ Lesser(x) \in Nat
    BY <1>1, <2>2, <2>5, LesserIs
  <2>7. last_keys[p] \in KeyRange /\ (total_local_keys(x) - 1) + Lesser(x) \in ValuePlaces(a, last_keys[p])
    BY <1>1, <2>2, <2>4, <2>6
  <2>8. (total_local_keys(x) - 1) + Lesser(x) <= 0 + Lesser(p)
    BY <2>6
  <2>9. key_arrays[p][0] \in KeyRange /\ 0 + Lesser(p) \in ValuePlaces(a, key_arrays[p][0])
    BY <1>3, <1>4, <1>7
  <2> QED  BY <2>7, <2>8, <2>9, PlacesInOrder
<1>8. ~(p > 0 /\ n > 0 /\ last_keys[p] > key_arrays[p][0])
  <2> SUFFICES ASSUME p > 0, n > 0, last_keys[p] > key_arrays[p][0] PROVE FALSE
    OBVIOUS
  <2>1. key_arrays[p][0] \in KeyRange
    BY <1>3, <1>4
  <2> QED  BY <1>5, <1>7, <2>1
<1>9. ~\E i \in 1 .. n - 1 : key_arrays[p][i - 1] > key_arrays[p][i]
  <2> SUFFICES ASSUME NEW i \in 1 .. n - 1, key_arrays[p][i - 1] > key_arrays[p][i] PROVE FALSE
    OBVIOUS
  <2>1. i - 1 \in 0 .. n - 1 /\ i \in 0 .. n - 1
    BY <1>4
  <2>2. key_arrays[p][i - 1] \in Int /\ key_arrays[p][i] \in Int
    BY <1>3, <1>5, <2>1
  <2> QED  BY <1>6, <2>2
<1> QED  BY <1>8, <1>9 DEF WrongOf

\* full_verify() behind the message.
LEMMA CheckStep ==
  ASSUME MpiInv, NEW p \in Processes, CheckOrder(p)
  PROVE  MpiInv'
<1>1. MpiWorld /\ OfProcess(p) /\ 0 \in Processes /\ Done(0) = Done(p)
  BY WorldIs DEF MpiInv, Lockstep
<1>2. /\ stage[p] = "wait" /\ (p > 0 => p \in DOMAIN last_keys)
      /\ passed' = [passed EXCEPT ![p] = IF WrongOf(p) THEN @ ELSE @ + 1]
      /\ stage' = [stage EXCEPT ![p] = "checked"]
      /\ UNCHANGED <<world, iterations, key_arrays, send_buff, recv_buff, ranks, bucket_sizes, bucket_size_totals,
                     last_keys, verified>>
  BY DEF CheckOrder, WrongOf
<1>3. stage'[p] = "checked" /\ passed'[p] = IF WrongOf(p) THEN passed[p] ELSE passed[p] + 1
  BY <1>1, <1>2 DEF MpiWorld
<1>4. Done(p)' = Done(p)
  BY <1>2, <1>3 DEF Done
<1>5. OnlyOf(p)
  BY <1>1, <1>2, <1>3, <1>4 DEF OnlyOf, MpiWorld, world
<1>6. /\ Processes' = Processes /\ IdleBetween' = IdleBetween
      /\ total_local_keys(p)' = total_local_keys(p) /\ Lesser(p)' = Lesser(p)
      /\ \A x : AllKeys(x)' = AllKeys(x)
  BY <1>2, SameTotals DEF world
<1>7. OfProcess(p)'
  <2>1. StageOf(p)'
    BY <1>1, <1>2, <1>3 DEF OfProcess, StageOf
  <2>2. PlacesOfPart(p)'
    BY <1>1, <1>2, <1>3, <1>4, <1>6 DEF OfProcess, PlacesOfPart
  <2> QED  BY <1>3, <2>1, <2>2 DEF OfProcess, KeysOfPart, SizesOfPart, KeysCame, RanksOfPart
<1>8. LastSent'
  BY <1>2, <1>3, <1>5, SentSame
<1>9. ASSUME Countable' PROVE Credit(p)' = Credit(p)
  <2>1. ~IdleBetween
    BY <1>1, <1>3, <1>6, <1>9 DEF Countable
  <2>2. passed'[p] = passed[p] + 1
    BY <1>2, <1>3, <2>1, NothingWrong
  <2>3. Owed(p) = 0 /\ Owed(p)' = 0
    BY <1>2, <1>3 DEF Owed
  <2>4. passed[p] \in Nat
    BY <1>1 DEF OfProcess, StageOf
  <2> QED  BY <1>2, <1>3, <2>2, <2>3, <2>4 DEF Credit
<1> QED  BY <1>3, <1>5, <1>7, <1>8, <1>9, StepKeeps

\* What is added up by entries that are the sums of two.
LEMMA SumOfBoth ==
  ASSUME NEW n \in Nat, NEW f, NEW g, NEW h,
         \A i \in 0 .. n - 1 : f[i] \in Nat /\ g[i] \in Nat /\ h[i] = f[i] + g[i]
  PROVE  SumTo(h, n) = SumTo(f, n) + SumTo(g, n)
<1>1. \A i \in 0 .. n - 1 : h[i] \in Nat
  OBVIOUS
<1>2. SumTo(f, 0) = 0 /\ SumTo(g, 0) = 0 /\ SumTo(h, 0) = 0
  BY <1>1, SumStep
<1>3. \A m \in 0 .. n : SumTo(f, m) \in Nat /\ SumTo(g, m) \in Nat
  BY SumStep
<1>4. \A m \in 0 .. n - 1 : /\ SumTo(f, m + 1) = SumTo(f, m) + f[m] /\ SumTo(g, m + 1) = SumTo(g, m) + g[m]
                            /\ SumTo(h, m + 1) = SumTo(h, m) + h[m]
  BY <1>1, SumStep
<1> DEFINE S == {m \in Nat : m <= n => SumTo(h, m) = SumTo(f, m) + SumTo(g, m)}
<1>5. 0 \in S
  BY <1>2
<1>6. ASSUME NEW m \in S PROVE m + 1 \in S
  <2> SUFFICES ASSUME m + 1 <= n PROVE SumTo(h, m + 1) = SumTo(f, m + 1) + SumTo(g, m + 1)
    OBVIOUS
  <2>1. m \in 0 .. n - 1 /\ m \in 0 .. n
    OBVIOUS
  <2>2. SumTo(h, m) = SumTo(f, m) + SumTo(g, m)
    BY <2>1
  <2>3. f[m] \in Nat /\ g[m] \in Nat /\ h[m] = f[m] + g[m] /\ SumTo(f, m) \in Nat /\ SumTo(g, m) \in Nat
    BY <1>3, <2>1
  <2> QED  BY <1>4, <2>1, <2>2, <2>3
<1> HIDE DEF S
<1>7. S = Nat
  <2>1. S \in SUBSET Nat
    BY DEF S
  <2> QED  BY <1>5, <1>6, <2>1, Induct
<1>8. n \in S
  BY <1>7
<1> QED  BY <1>8 DEF S

\* What is added up depends on the entries only.
LEMMA SumSame ==
  ASSUME NEW n \in Nat, NEW f, NEW g, \A i \in 0 .. n - 1 : f[i] \in Nat /\ g[i] = f[i]
  PROVE  SumTo(g, n) = SumTo(f, n)
<1>1. \A i \in 0 .. n - 1 : g[i] \in Nat
  OBVIOUS
<1>2. /\ SumTo(f, 0) = 0 /\ SumTo(g, 0) = 0
      /\ \A m \in 0 .. n - 1 : SumTo(f, m + 1) = SumTo(f, m) + f[m] /\ SumTo(g, m + 1) = SumTo(g, m) + g[m]
  BY <1>1, SumStep
<1> DEFINE S == {m \in Nat : m <= n => SumTo(g, m) = SumTo(f, m)}
<1>3. 0 \in S
  BY <1>2
<1>4. ASSUME NEW m \in S PROVE m + 1 \in S
  <2> SUFFICES ASSUME m + 1 <= n PROVE SumTo(g, m + 1) = SumTo(f, m + 1)
    OBVIOUS
  <2>1. m \in 0 .. n - 1 /\ SumTo(g, m) = SumTo(f, m) /\ g[m] = f[m]
    OBVIOUS
  <2> QED  BY <1>2, <2>1
<1> HIDE DEF S
<1>5. S = Nat
  <2>1. S \in SUBSET Nat
    BY DEF S
  <2> QED  BY <1>3, <1>4, <2>1, Induct
<1>6. n \in S
  BY <1>5
<1> QED  BY <1>6 DEF S

\* One entry at most is something.
LEMMA SumOfOne ==
  ASSUME NEW n \in Nat, NEW q \in 0 .. n - 1, NEW v \in Nat,
         NEW f, \A i \in 0 .. n - 1 : f[i] = IF i = q THEN v ELSE 0
  PROVE  SumTo(f, n) = v
<1>1. \A i \in 0 .. n - 1 : f[i] \in Nat
  OBVIOUS
<1>2. SumTo(f, 0) = 0 /\ \A m \in 0 .. n - 1 : SumTo(f, m + 1) = SumTo(f, m) + f[m]
  BY <1>1, SumStep
<1> DEFINE S == {m \in Nat : m <= n => SumTo(f, m) = IF q < m THEN v ELSE 0}
<1>3. 0 \in S
  BY <1>2
<1>4. ASSUME NEW m \in S PROVE m + 1 \in S
  <2> SUFFICES ASSUME m + 1 <= n PROVE SumTo(f, m + 1) = IF q < m + 1 THEN v ELSE 0
    OBVIOUS
  <2>1. m \in 0 .. n - 1 /\ m \in Nat /\ q \in Nat
    OBVIOUS
  <2>2. SumTo(f, m) = IF q < m THEN v ELSE 0
    BY <2>1
  <2>3. SumTo(f, m + 1) = SumTo(f, m) + f[m] /\ f[m] = IF m = q THEN v ELSE 0
    BY <1>2, <2>1
  <2>4. CASE q < m
    BY <2>1, <2>2, <2>3, <2>4
  <2>5. CASE q = m
    BY <2>1, <2>2, <2>3, <2>5
  <2>6. CASE m < q
    BY <2>1, <2>2, <2>3, <2>6
  <2> QED  BY <2>1, <2>4, <2>5, <2>6
<1> HIDE DEF S
<1>5. S = Nat
  <2>1. S \in SUBSET Nat
    BY DEF S
  <2> QED  BY <1>3, <1>4, <2>1, Induct
<1>6. n \in S /\ q < n
  BY <1>5
<1> QED  BY <1>6 DEF S

\* Ones are as many as there are entries.
LEMMA SumOfOnes ==
  ASSUME NEW n \in Nat, NEW f, \A i \in 0 .. n - 1 : f[i] = 1
  PROVE  SumTo(f, n) = n
<1>1. \A i \in 0 .. n - 1 : f[i] \in Nat
  OBVIOUS
<1>2. SumTo(f, 0) = 0 /\ \A m \in 0 .. n - 1 : SumTo(f, m + 1) = SumTo(f, m) + f[m]
  BY <1>1, SumStep
<1> DEFINE S == {m \in Nat : m <= n => SumTo(f, m) = m}
<1>3. 0 \in S
  BY <1>2
<1>4. ASSUME NEW m \in S PROVE m + 1 \in S
  <2> SUFFICES ASSUME m + 1 <= n PROVE SumTo(f, m + 1) = m + 1
    OBVIOUS
  <2>1. m \in 0 .. n - 1 /\ m \in Nat /\ SumTo(f, m) = m
    OBVIOUS
  <2> QED  BY <1>2, <2>1
<1> HIDE DEF S
<1>5. S = Nat
  <2>1. S \in SUBSET Nat
    BY DEF S
  <2> QED  BY <1>3, <1>4, <2>1, Induct
<1>6. n \in S
  BY <1>5
<1> QED  BY <1>6 DEF S

\* The parts of all processes together are all.
LEMMA AllParts ==
  ASSUME NEW c, NEW n, Even(c, n), NEW T \in SUBSET Indices,
         NEW f, \A p \in 0 .. c - 1 : f[p] = Cardinality(T \cap PartAt(n, p))
  PROVE  SumTo(f, c) = Cardinality(T)
<1>1. c \in Nat /\ n \in Nat /\ c * n = NUM_KEYS /\ n * c = NUM_KEYS /\ c \in 0 .. c
  BY DEF Even
<1>2. SumTo(f, c) = Cardinality({i \in T : i < n * c})
  BY <1>1, PartsAddUp
<1>3. \A i \in T : i < n * c
  BY <1>1, Sizes DEF Indices
<1>4. {i \in T : i < n * c} = T
  BY <1>3
<1> QED  BY <1>2, <1>4

\* A test key is in one part.
LEMMA OneHasTest ==
  ASSUME NEW c, NEW n, Even(c, n), NEW a \in KeyArrays, NEW i \in Indices,
         NEW f, \A p \in 0 .. c - 1 : f[p] = IF i \in PartAt(n, p) THEN a[i] ELSE 0
  PROVE  SumTo(f, c) = a[i]
<1>1. PICK q \in 0 .. c - 1 : i \in PartAt(n, q)
  BY PartsOfKeys
<1>2. \A p \in 0 .. c - 1 : i \in PartAt(n, p) <=> p = q
  BY <1>1, PartsOfKeys
<1>3. \A p \in 0 .. c - 1 : f[p] = IF p = q THEN a[i] ELSE 0
  BY <1>2
<1>4. c \in Nat /\ a[i] \in Nat
  BY KeysAreNumbers DEF Even
<1> QED  BY <1>3, <1>4, SumOfOne, ZenonT(60)

\* When all have counted their keys, what all of them have is what there is.
LEMMA AllCounted ==
  ASSUME MpiInv, Everyone("reduce")
  PROVE  \E r \in 0 .. MAX_ITERATIONS : \E a \in KeyArrays :
           /\ a = AllKeys(r) /\ r \in Nat
           /\ \A p \in Processes : iterations[p] = r /\ Done(p) = r - 1
           /\ \A b \in Buckets : SumTo([p \in Processes |-> bucket_sizes[p][b]], comm_size) = Cardinality(InBucket(a, b))
           /\ \A t \in Tests : SumTo([p \in Processes |-> bucket_sizes[p][t]], comm_size) = a[TestPlace(t)]
<1>1. MpiWorld /\ 0 \in Processes /\ Processes = 0 .. comm_size - 1 /\ MAX_ITERATIONS \in Nat
  BY WorldIs, SizesAssumption DEF MpiInv
<1>2. \A p \in Processes : stage[p] = "reduce"
  BY DEF Everyone
<1>3. \A p \in Processes : iterations[p] \in 0 .. MAX_ITERATIONS /\ Done(p) = iterations[p] - 1 /\ Done(p) = Done(0)
  BY <1>1, <1>2 DEF MpiInv, OfProcess, StageOf, Done, Lockstep
<1>4. PICK r \in 0 .. MAX_ITERATIONS : r = iterations[0] /\ r \in Nat
  BY <1>1, <1>3
<1>5. \A p \in Processes : iterations[p] = r /\ Done(p) = r - 1
  <2> SUFFICES ASSUME NEW p \in Processes PROVE iterations[p] = r /\ Done(p) = r - 1
    OBVIOUS
  <2>1. PICK x \in Nat : x = iterations[p] /\ Done(p) = x - 1
    BY <1>1, <1>3
  <2>2. Done(0) = r - 1 /\ Done(p) = Done(0)
    BY <1>1, <1>3, <1>4
  <2> QED  BY <1>4, <2>1, <2>2
<1>6. PICK a \in KeyArrays : a = AllKeys(r)
  BY <1>1, WorldIs
<1>7. PICK c, n : c = comm_size /\ n = num_keys /\ Even(c, n)
  BY <1>1 DEF MpiWorld
<1>8. \A p \in Processes :
        /\ \A b \in Buckets : bucket_sizes[p][b] = Cardinality({i \in PartAt(n, p) : BucketOf(a[i]) = b})
        /\ \A t \in Tests : bucket_sizes[p][t] = IF TestPlace(t) \in PartAt(n, p) THEN a[TestPlace(t)] ELSE 0
  BY <1>2, <1>5, <1>6, <1>7 DEF MpiInv, OfProcess, SizesOfPart
<1>9. ASSUME NEW b \in Buckets
      PROVE  SumTo([p \in Processes |-> bucket_sizes[p][b]], c) = Cardinality(InBucket(a, b))
  <2>1. PICK f : f = [p \in Processes |-> bucket_sizes[p][b]]
    OBVIOUS
  <2>2. InBucket(a, b) \in SUBSET Indices
    BY DEF InBucket
  <2>3. ASSUME NEW p \in 0 .. c - 1 PROVE f[p] = Cardinality(InBucket(a, b) \cap PartAt(n, p))
    <3>1. InBucket(a, b) \cap PartAt(n, p) = {i \in PartAt(n, p) : BucketOf(a[i]) = b}
      BY <1>7, PartsOfKeys DEF InBucket
    <3> QED  BY <1>1, <1>7, <1>8, <2>1, <3>1
  <2>4. SumTo(f, c) = Cardinality(InBucket(a, b))
    BY <1>7, <2>2, <2>3, AllParts
  <2> QED  BY <2>1, <2>4
<1>10. ASSUME NEW t \in Tests
       PROVE  SumTo([p \in Processes |-> bucket_sizes[p][t]], c) = a[TestPlace(t)]
  <2>1. PICK f : f = [p \in Processes |-> bucket_sizes[p][t]]
    OBVIOUS
  <2>2. PICK i \in Indices : i = TestPlace(t)
    BY TestsAt
  <2>3. \A p \in 0 .. c - 1 : f[p] = IF i \in PartAt(n, p) THEN a[i] ELSE 0
    BY <1>1, <1>7, <1>8, <2>1, <2>2
  <2>4. SumTo(f, c) = a[i]
    BY <1>7, <2>3, OneHasTest
  <2> QED  BY <2>1, <2>2, <2>4
<1> QED  BY <1>4, <1>5, <1>6, <1>7, <1>9, <1>10

\* MPI_Allreduce.
LEMMA SumSizesStep ==
  ASSUME MpiInv, SumSizes
  PROVE  MpiInv'
<1>1. MpiWorld /\ 0 \in Processes /\ Processes = 0 .. comm_size - 1 /\ comm_size \in Nat /\ Processes \subseteq DOMAIN stage
  BY WorldIs DEF MpiInv, MpiWorld
<1>2. /\ Everyone("reduce") /\ \A p \in Processes : stage[p] = "reduce"
      /\ bucket_size_totals' = [b \in Buckets \cup Tests |-> SumTo([p \in Processes |-> bucket_sizes[p][b]], comm_size)]
      /\ \A p \in Processes : stage'[p] = "divide"
      /\ DOMAIN stage' = DOMAIN stage
      /\ UNCHANGED <<world, iterations, key_arrays, send_buff, recv_buff, ranks, bucket_sizes, last_keys, result>>
  BY <1>1 DEF SumSizes, Everyone
<1>3. PICK r \in 0 .. MAX_ITERATIONS, a \in KeyArrays :
        /\ a = AllKeys(r) /\ r \in Nat
        /\ \A p \in Processes : iterations[p] = r /\ Done(p) = r - 1
        /\ \A b \in Buckets : SumTo([p \in Processes |-> bucket_sizes[p][b]], comm_size) = Cardinality(InBucket(a, b))
        /\ \A t \in Tests : SumTo([p \in Processes |-> bucket_sizes[p][t]], comm_size) = a[TestPlace(t)]
  BY <1>2, AllCounted
<1>4. /\ Processes' = Processes /\ num_keys' = num_keys /\ \A x : AllKeys(x)' = AllKeys(x)
      /\ LowestTested' = LowestTested /\ first_number' = first_number /\ comm_size' = comm_size
      /\ iterations' = iterations /\ key_arrays' = key_arrays /\ send_buff' = send_buff /\ bucket_sizes' = bucket_sizes
      /\ passed' = passed /\ verified' = verified /\ last_keys' = last_keys
  BY <1>2 DEF Processes, num_keys, AllKeys, LowestTested, world, result
<1>5. \A p \in Processes : Done(p)' = r
  BY <1>2, <1>3, <1>4 DEF Done
<1>6. MpiWorld'
  BY <1>1, <1>2, <1>4 DEF MpiWorld
<1>7. ASSUME NEW p \in Processes PROVE OfProcess(p)'
  <2>1. OfProcess(p)
    BY DEF MpiInv
  <2>2. StageOf(p)'
    BY <1>2, <1>4, <2>1 DEF OfProcess, StageOf
  <2>3. KeysOfPart(p)'
    BY <1>2, <1>4, <2>1 DEF OfProcess, KeysOfPart
  <2>4. SizesOfPart(p)'
    BY <1>2, <1>4, <2>1 DEF OfProcess, SizesOfPart
  <2> QED  BY <1>2, <2>2, <2>3, <2>4 DEF OfProcess, KeysCame, RanksOfPart, PlacesOfPart
<1>8. Lockstep'
  BY <1>2, <1>4, <1>5 DEF Lockstep
<1>9. TotalsRight'
  <2>1. \A b \in Buckets : bucket_size_totals'[b] = Cardinality(InBucket(a, b))
    BY <1>2, <1>3
  <2>2. \A t \in Tests : bucket_size_totals'[t] = a[TestPlace(t)]
    BY <1>2, <1>3
  <2> QED  BY <1>1, <1>3, <1>4, <1>5, <2>1, <2>2 DEF TotalsRight, TotalsAre
<1>10. LastSent'
  <2>1. DOMAIN last_keys = {}
    BY <1>2 DEF MpiInv, LastSent
  <2> QED  BY <1>4, <2>1 DEF LastSent
<1>11. CallsDue' = r - 1 /\ CallsDue = r - 1
  BY <1>1, <1>2, <1>3, <1>5 DEF CallsDue
<1>12. ASSUME Countable', r >= 1
       PROVE  SumTo([p \in Processes |-> Credit(p)'], comm_size) = Len(test_index_array) * (r - 1) + comm_size
  <2>1. \A p \in Processes : passed[p] \in Nat
    BY DEF MpiInv, OfProcess, StageOf
  <2>2. \A p \in Processes : Credit(p) = passed[p] + 1 /\ Credit(p)' = passed[p] + 1
    BY <1>2, <1>4, <2>1 DEF Credit, Owed
  <2>3. [p \in Processes |-> Credit(p)'] = [p \in Processes |-> Credit(p)]
    BY <2>2
  <2>4. CASE r >= 2
    <3>1. Countable
      BY <1>2, <1>4, <1>12 DEF Countable
    <3>2. Done(0) >= 1
      BY <1>1, <1>3, <2>4
    <3> QED  BY <1>11, <2>3, <3>1, <3>2 DEF MpiInv, Credited
  <2>5. CASE r = 1
    <3>1. \A p \in Processes : passed[p] = 0
      BY <1>1, <1>2, <1>3, <2>5 DEF MpiInv, Credited
    <3>2. PICK f : f = [p \in Processes |-> Credit(p)]
      OBVIOUS
    <3>3. \A p \in 0 .. comm_size - 1 : f[p] = 1
      BY <1>1, <2>2, <3>1, <3>2
    <3>4. SumTo(f, comm_size) = comm_size
      BY <1>1, <3>3, SumOfOnes
    <3> QED  BY <1>1, <2>3, <2>5, <3>2, <3>4, TestsAt, SMTT(60)
  <2> QED  BY <1>3, <1>12, <2>4, <2>5
<1>13. Credited'
  BY <1>1, <1>2, <1>4, <1>5, <1>11, <1>12 DEF Credited
<1>14. VerifiedRight'
  <2>1. verified = "unknown"
    BY <1>1, <1>2 DEF MpiInv, OfProcess, StageOf
  <2> QED  BY <1>4, <2>1 DEF VerifiedRight
<1> QED  BY <1>4, <1>6, <1>7, <1>8, <1>9, <1>10, <1>13, <1>14 DEF MpiInv

\* What is known when the buckets are divided.
LEMMA WhenDivided ==
  ASSUME MpiInv, Everyone("divide")
  PROVE  \E r \in 0 .. MAX_ITERATIONS : \E a \in KeyArrays :
           /\ a = AllKeys(r) /\ r \in Nat
           /\ \A p \in Processes : iterations[p] = r /\ Done(p) = r
           /\ Even(comm_size, num_keys) /\ TotalsAre(a) /\ SizesAre(a)
           /\ \A t \in Tests : bucket_size_totals[t] = a[TestPlace(t)]
           /\ InOrder(Distribution, comm_size) /\ Covers(Distribution, comm_size, a)
           /\ \A p \in Processes : send_buff[p] = ByBucket(Slice(a, num_keys, p))
<1>1. MpiWorld /\ 0 \in Processes /\ Processes = 0 .. comm_size - 1 /\ MAX_ITERATIONS \in Nat
  BY WorldIs, SizesAssumption DEF MpiInv
<1>2. \A p \in Processes : stage[p] = "divide"
  BY DEF Everyone
<1>3. \A p \in Processes : iterations[p] \in 0 .. MAX_ITERATIONS /\ Done(p) = iterations[p] /\ Done(p) = Done(0)
  BY <1>1, <1>2 DEF MpiInv, OfProcess, StageOf, Done, Lockstep
<1>4. PICK r \in 0 .. MAX_ITERATIONS : r = iterations[0] /\ r \in Nat
  BY <1>1, <1>3
<1>5. \A p \in Processes : iterations[p] = r /\ Done(p) = r
  BY <1>1, <1>3, <1>4
<1>6. PICK a \in KeyArrays : a = AllKeys(r)
  BY <1>1, WorldIs
<1>7. Even(comm_size, num_keys)
  BY <1>1 DEF MpiWorld
<1>8. TotalsAre(a) /\ \A t \in Tests : bucket_size_totals[t] = a[TestPlace(t)]
  BY <1>1, <1>4, <1>5, <1>6 DEF MpiInv, TotalsRight
<1>9. SizesAre(a) /\ \A p \in Processes : send_buff[p] = ByBucket(Slice(a, num_keys, p))
  BY <1>2, <1>5, <1>6 DEF MpiInv, OfProcess, SizesOfPart, SizesAre
<1>10. InOrder(Distribution, comm_size) /\ Covers(Distribution, comm_size, a)
  BY <1>7, <1>8, DistributionIs
<1> QED  BY <1>4, <1>5, <1>6, <1>7, <1>8, <1>9, <1>10

\* The processes have all the test keys, each one of them.
LEMMA TestsAddUp ==
  ASSUME Even(comm_size, num_keys), NEW a \in KeyArrays, TotalsAre(a),
         \A t \in Tests : bucket_size_totals[t] = a[TestPlace(t)],
         NEW f, \A p \in Processes : f[p] = Cardinality(TestsOf(p))
  PROVE  SumTo(f, comm_size) = Len(test_index_array)
<1>1. PICK c \in Nat : c = comm_size
  BY DEF Even
<1>2. Processes = 0 .. c - 1
  BY <1>1 DEF Processes
<1>3. PICK A : A = [p \in Processes |-> TestsOf(p)]
  OBVIOUS
<1>4. \A k \in 0 .. c - 1 : IsFiniteSet(A[k]) /\ f[k] = Cardinality(A[k])
  BY <1>2, <1>3, TestsOfIs
<1>5. ASSUME NEW k \in 0 .. c - 1, NEW l \in 0 .. c - 1, k # l PROVE A[k] \cap A[l] = {}
  <2>1. Interval(k) \cap Interval(l) = {}
    BY <1>2, <1>5, IntervalsApart
  <2> QED  BY <1>2, <1>3, <2>1 DEF TestsOf
<1>6. Tests = UNION {A[k] : k \in 0 .. c - 1}
  <2>1. ASSUME NEW t \in Tests PROVE \E k \in 0 .. c - 1 : t \in A[k]
    <3>1. TestPlace(t) \in Indices
      BY TestsAt
    <3>2. PICK k \in Processes : a[TestPlace(t)] \in Interval(k)
      BY <3>1, IntervalsApart
    <3> QED  BY <1>2, <1>3, <3>2 DEF TestsOf
  <2>2. \A k \in 0 .. c - 1 : A[k] \subseteq Tests
    BY <1>2, <1>3 DEF TestsOf
  <2> QED  BY <2>1, <2>2
<1>7. Parts(f, A, c, Tests)
  BY <1>4, <1>5, <1>6 DEF Parts
<1>8. SumTo(f, c) = Cardinality(Tests)
  BY <1>7, SumOfSizes
<1> QED  BY <1>1, <1>8, TestsAt

\* MPI_Alltoallv.
LEMMA ExchangeStep ==
  ASSUME MpiInv, Exchange
  PROVE  MpiInv'
<1>1. MpiWorld /\ 0 \in Processes /\ Processes = 0 .. comm_size - 1 /\ comm_size \in Nat /\ Processes \subseteq DOMAIN stage
  BY WorldIs DEF MpiInv, MpiWorld
<1>2. /\ Everyone("divide") /\ \A p \in Processes : stage[p] = "divide"
      /\ recv_buff' = [p \in Processes |-> Received(p)]
      /\ \A p \in Processes : stage'[p] = IF \E q \in Processes : ~Fits(q) THEN "undefined" ELSE "exchanged"
      /\ DOMAIN stage' = DOMAIN stage
      /\ UNCHANGED <<world, iterations, key_arrays, send_buff, ranks, bucket_sizes, bucket_size_totals, last_keys, result>>
  BY <1>1 DEF Exchange, Everyone
<1>3. PICK r \in 0 .. MAX_ITERATIONS, a \in KeyArrays :
        /\ a = AllKeys(r) /\ r \in Nat
        /\ \A p \in Processes : iterations[p] = r /\ Done(p) = r
        /\ Even(comm_size, num_keys) /\ TotalsAre(a) /\ SizesAre(a)
        /\ \A t \in Tests : bucket_size_totals[t] = a[TestPlace(t)]
        /\ InOrder(Distribution, comm_size) /\ Covers(Distribution, comm_size, a)
        /\ \A p \in Processes : send_buff[p] = ByBucket(Slice(a, num_keys, p))
  BY <1>2, WhenDivided
<1>4. /\ Processes' = Processes /\ num_keys' = num_keys /\ Distribution' = Distribution
      /\ \A p : Interval(p)' = Interval(p)
      /\ \A x : AllKeys(x)' = AllKeys(x)
      /\ \A x : TotalsAre(x)' = TotalsAre(x)
      /\ LowestTested' = LowestTested /\ first_number' = first_number /\ comm_size' = comm_size
      /\ iterations' = iterations /\ key_arrays' = key_arrays /\ bucket_size_totals' = bucket_size_totals
      /\ passed' = passed /\ verified' = verified /\ last_keys' = last_keys
  BY <1>2, SameTotals DEF world, result
<1>5. \A p \in Processes : Done(p)' = r /\ stage'[p] \in {"undefined", "exchanged"}
  BY <1>2, <1>3, <1>4 DEF Done
<1>6. MpiWorld'
  BY <1>1, <1>2, <1>4 DEF MpiWorld
<1>7. ASSUME NEW p \in Processes PROVE OfProcess(p)'
  <2>1. OfProcess(p)
    BY DEF MpiInv
  <2>2. StageOf(p)'
    BY <1>2, <1>4, <1>5, <2>1 DEF OfProcess, StageOf
  <2>3. KeysOfPart(p)'
    BY <1>2, <1>4, <1>5, <2>1 DEF OfProcess, KeysOfPart
  <2>4. KeysCame(p)'
    <3>1. Arrived(Received(p), a, KeysFor(a, Indices, Distribution[p]))
      BY <1>3, ReceivedIs
    <3> QED  BY <1>2, <1>3, <1>4, <1>5, <3>1 DEF KeysCame
  <2> QED  BY <1>5, <2>2, <2>3, <2>4 DEF OfProcess, SizesOfPart, RanksOfPart, PlacesOfPart
<1>8. Lockstep'
  BY <1>4, <1>5 DEF Lockstep
<1>9. TotalsRight'
  BY <1>1, <1>3, <1>4, <1>5 DEF TotalsRight
<1>10. LastSent'
  <2>1. DOMAIN last_keys = {}
    BY <1>2 DEF MpiInv, LastSent
  <2> QED  BY <1>4, <2>1 DEF LastSent
<1>11. CallsDue' = r /\ CallsDue = r - 1
  BY <1>1, <1>2, <1>3, <1>5 DEF CallsDue
<1>12. verified = "unknown"
  BY <1>1, <1>2 DEF MpiInv, OfProcess, StageOf
<1>13. ASSUME Countable', r >= 1
       PROVE  SumTo([p \in Processes |-> Credit(p)'], comm_size) = Len(test_index_array) * r + comm_size
  <2>1. \A p \in Processes : passed[p] \in Nat
    BY DEF MpiInv, OfProcess, StageOf
  <2>2. PICK f, g, h : /\ f = [p \in Processes |-> Credit(p)] /\ g = [p \in Processes |-> Cardinality(TestsOf(p))]
                       /\ h = [p \in Processes |-> Credit(p)']
    OBVIOUS
  <2>3. ASSUME NEW p \in Processes
        PROVE  f[p] \in Nat /\ g[p] \in Nat /\ h[p] = f[p] + g[p]
    <3>1. Credit(p) = passed[p] + 1
      BY <1>2, <2>1 DEF Credit, Owed
    <3>2. Cardinality(TestsOf(p)) \in Nat
      BY TestsOfIs
    <3>3. Owed(p)' = Cardinality(TestsOf(p))
      BY <1>4, <1>5 DEF Owed, TestsOf
    <3>4. Credit(p)' = passed[p] + Cardinality(TestsOf(p)) + 1
      BY <1>4, <1>5, <3>3 DEF Credit
    <3> QED  BY <2>1, <2>2, <3>1, <3>2, <3>4
  <2>4. SumTo(h, comm_size) = SumTo(f, comm_size) + SumTo(g, comm_size)
    BY <1>1, <2>3, SumOfBoth
  <2>5. SumTo(g, comm_size) = Len(test_index_array)
    BY <1>3, <2>2, TestsAddUp
  <2>6. SumTo(f, comm_size) = Len(test_index_array) * (r - 1) + comm_size
    <3>1. Countable
      BY <1>2, <1>4, <1>12, <1>13 DEF Countable
    <3>2. Done(0) >= 1
      BY <1>1, <1>3, <1>13
    <3> QED  BY <1>11, <2>2, <3>1, <3>2 DEF MpiInv, Credited
  <2>7. PICK l \in Nat, k \in Nat : l = Len(test_index_array) /\ r = k + 1 /\ k = r - 1
    BY <1>3, <1>13, TestsAt
  <2>8. l * (k + 1) = l * k + l
    BY <2>7
  <2>9. PICK x \in Nat, c \in Nat : x = l * k /\ c = comm_size
    BY <1>1, <2>7
  <2>10. SumTo(h, comm_size) = (x + c) + l
    BY <2>4, <2>5, <2>6, <2>7, <2>9
  <2>11. Len(test_index_array) * r = x + l
    BY <2>7, <2>8, <2>9
  <2>12. (x + c) + l = (x + l) + c
    BY <2>7, <2>9
  <2> QED  BY <2>2, <2>9, <2>10, <2>11, <2>12
<1>14. Credited'
  BY <1>1, <1>3, <1>4, <1>5, <1>11, <1>13 DEF Credited
<1>15. VerifiedRight'
  BY <1>4, <1>12 DEF VerifiedRight
<1> QED  BY <1>4, <1>6, <1>7, <1>8, <1>9, <1>10, <1>14, <1>15 DEF MpiInv

\* MPI_Reduce and the result.
LEMMA ResultStep ==
  ASSUME MpiInv, PrintResult
  PROVE  MpiInv'
<1>1. MpiWorld /\ 0 \in Processes /\ Processes = 0 .. comm_size - 1 /\ comm_size \in Nat /\ Processes \subseteq DOMAIN stage
  BY WorldIs DEF MpiInv, MpiWorld
<1>2. /\ \A p \in Processes : stage[p] = "checked"
      /\ verified' = (IF SumTo(passed, comm_size) = Len(test_index_array) * MAX_ITERATIONS + comm_size THEN "yes" ELSE "no")
      /\ \A p \in Processes : stage'[p] = "exited"
      /\ DOMAIN stage' = DOMAIN stage
      /\ UNCHANGED <<world, iterations, key_arrays, send_buff, recv_buff, ranks, bucket_sizes, bucket_size_totals,
                     last_keys, passed>>
  BY <1>1 DEF PrintResult, Everyone
<1>3. /\ Processes' = Processes /\ num_keys' = num_keys /\ Distribution' = Distribution
      /\ \A p : total_local_keys(p)' = total_local_keys(p) /\ Lesser(p)' = Lesser(p)
      /\ \A x : AllKeys(x)' = AllKeys(x)
      /\ \A x : TotalsAre(x)' = TotalsAre(x)
      /\ LowestTested' = LowestTested /\ IdleBetween' = IdleBetween
      /\ first_number' = first_number /\ comm_size' = comm_size
      /\ iterations' = iterations /\ key_arrays' = key_arrays /\ bucket_size_totals' = bucket_size_totals
      /\ passed' = passed /\ last_keys' = last_keys
  BY <1>2, SameTotals DEF world
<1>4. \A p \in Processes : Done(p)' = Done(p)
  BY <1>2, <1>3 DEF Done
<1>5. verified' \in {"yes", "no"} /\ verified' # "unknown"
  BY <1>2
<1>6. MpiWorld'
  BY <1>1, <1>2, <1>3, <1>5 DEF MpiWorld
<1>7. ASSUME NEW p \in Processes PROVE OfProcess(p)'
  <2>1. OfProcess(p)
    BY DEF MpiInv
  <2>2. StageOf(p)'
    BY <1>2, <1>3, <1>5, <2>1 DEF OfProcess, StageOf
  <2>3. PlacesOfPart(p)'
    BY <1>2, <1>3, <1>4, <2>1 DEF OfProcess, PlacesOfPart
  <2> QED  BY <1>2, <2>2, <2>3 DEF OfProcess, KeysOfPart, SizesOfPart, KeysCame, RanksOfPart
<1>8. Lockstep'
  BY <1>2, <1>3, <1>4 DEF MpiInv, Lockstep
<1>9. TotalsRight'
  BY <1>1, <1>3, <1>4 DEF MpiInv, TotalsRight
<1>10. LastSent'
  BY <1>2, <1>3, <1>4 DEF MpiInv, LastSent
<1>11. Credited'
  BY <1>2, <1>3, <1>5 DEF Credited, Countable
<1>12. ASSUME ~LowestTested, ~IdleBetween PROVE verified' = "yes"
  <2>1. verified = "unknown" /\ Done(0) = MAX_ITERATIONS /\ MAX_ITERATIONS \in Nat \ {0}
    BY <1>1, <1>2, LastRanks, SizesAssumption DEF MpiInv, OfProcess, StageOf
  <2>2. Countable /\ CallsDue = MAX_ITERATIONS /\ Done(0) >= 1
    BY <1>1, <1>2, <1>12, <2>1 DEF Countable, CallsDue
  <2>3. PICK f : f = [p \in Processes |-> Credit(p)]
    OBVIOUS
  <2>4. SumTo(f, comm_size) = Len(test_index_array) * MAX_ITERATIONS + comm_size
    BY <2>2, <2>3 DEF MpiInv, Credited
  <2>5. \A p \in Processes : passed[p] \in Nat
    BY DEF MpiInv, OfProcess, StageOf
  <2>6. \A p \in 0 .. comm_size - 1 : f[p] \in Nat /\ passed[p] = f[p]
    BY <1>1, <1>2, <2>3, <2>5 DEF Credit, Owed
  <2>7. SumTo(passed, comm_size) = SumTo(f, comm_size)
    BY <1>1, <2>6, SumSame
  <2> QED  BY <1>2, <2>4, <2>7
<1>13. VerifiedRight'
  BY <1>3, <1>12 DEF VerifiedRight
<1> QED  BY <1>3, <1>6, <1>7, <1>8, <1>9, <1>10, <1>11, <1>13 DEF MpiInv

\* When nothing changes.
LEMMA SameMpiState ==
  ASSUME MpiInv, UNCHANGED mvars
  PROVE  MpiInv'
<1>1. UNCHANGED <<first_number, comm_size, stage, iterations, key_arrays, send_buff, recv_buff, ranks, bucket_sizes,
                  bucket_size_totals, last_keys, passed, verified>>
  BY DEF mvars
<1>2. /\ Processes' = Processes /\ num_keys' = num_keys /\ Distribution' = Distribution
      /\ \A p : Interval(p)' = Interval(p) /\ total_local_keys(p)' = total_local_keys(p) /\ Lesser(p)' = Lesser(p)
      /\ \A r : AllKeys(r)' = AllKeys(r)
      /\ \A a : TotalsAre(a)' = TotalsAre(a)
      /\ LowestTested' = LowestTested /\ IdleBetween' = IdleBetween
  BY <1>1, SameTotals
<1>3. \A p : Done(p)' = Done(p)
  BY <1>1 DEF Done
<1>4. MpiWorld'
  BY <1>1, <1>2 DEF MpiInv, MpiWorld
<1>5. ASSUME NEW p \in Processes PROVE OfProcess(p)'
  <2>1. OfProcess(p)
    BY DEF MpiInv
  <2>2. StageOf(p)'
    BY <1>1, <2>1 DEF OfProcess, StageOf
  <2>3. KeysOfPart(p)'
    BY <1>1, <1>2, <2>1 DEF OfProcess, KeysOfPart
  <2>4. SizesOfPart(p)'
    BY <1>1, <1>2, <2>1 DEF OfProcess, SizesOfPart
  <2>5. KeysCame(p)'
    BY <1>1, <1>2, <1>3, <2>1 DEF OfProcess, KeysCame
  <2>6. RanksOfPart(p)'
    BY <1>1, <1>2, <1>3, <2>1 DEF OfProcess, RanksOfPart
  <2>7. PlacesOfPart(p)'
    BY <1>1, <1>2, <1>3, <2>1 DEF OfProcess, PlacesOfPart
  <2> QED  BY <2>2, <2>3, <2>4, <2>5, <2>6, <2>7 DEF OfProcess
<1>6. Lockstep'
  BY <1>1, <1>2, <1>3 DEF MpiInv, Lockstep
<1>7. TotalsRight'
  BY <1>1, <1>2, <1>3 DEF MpiInv, TotalsRight
<1>8. LastSent'
  BY <1>1, <1>2, <1>3 DEF MpiInv, LastSent
<1>9. Credited'
  <2>1. \A p : Credit(p)' = Credit(p)
    BY <1>1, <1>2 DEF Credit, Owed
  <2>2. [p \in Processes |-> Credit(p)'] = [p \in Processes |-> Credit(p)]
    BY <2>1
  <2>3. Countable' = Countable /\ CallsDue' = CallsDue
    BY <1>1, <1>2, <1>3 DEF Countable, CallsDue
  <2> QED  BY <1>1, <1>2, <1>3, <2>2, <2>3 DEF MpiInv, Credited
<1>10. VerifiedRight'
  BY <1>1, <1>2 DEF MpiInv, VerifiedRight
<1> QED  BY <1>2, <1>4, <1>5, <1>6, <1>7, <1>8, <1>9, <1>10 DEF MpiInv

\* Every step keeps the invariant.
LEMMA MpiInvNext ==
  ASSUME MpiInv, [MpiNext]_mvars
  PROVE  MpiInv'
<1>1. CASE \E p \in Processes : MakeKeys(p) \/ FillBuckets(p) \/ RankKeys(p) \/ SortAndSend(p) \/ CheckOrder(p)
  BY <1>1, MakeStep, FillStep, RankKeysStep, SortStep, CheckStep
<1>2. CASE SumSizes
  BY <1>2, SumSizesStep
<1>3. CASE Exchange
  BY <1>3, ExchangeStep
<1>4. CASE PrintResult
  BY <1>4, ResultStep
<1>5. CASE MpiExit \/ UNCHANGED mvars
  BY <1>5, SameMpiState DEF MpiExit
<1> QED  BY <1>1, <1>2, <1>3, <1>4, <1>5 DEF MpiNext

\* What a process has comes before what the later ones have.
LEMMA RangesApart ==
  ASSUME Even(comm_size, num_keys), NEW a \in KeyArrays, TotalsAre(a), NEW p \in Processes, NEW q \in Processes, p < q
  PROVE  /\ Lesser(p) + total_local_keys(p) <= Lesser(q)
         /\ \A i \in 0 .. total_local_keys(p) - 1, j \in 0 .. total_local_keys(q) - 1 : i + Lesser(p) < j + Lesser(q)
<1>1. p + 1 \in 0 .. comm_size /\ p \in 0 .. comm_size /\ q \in 0 .. comm_size /\ p + 1 <= q
  BY DEF Processes, Even
<1>2. Lesser(p + 1) = Lesser(p) + total_local_keys(p) /\ Lesser(p + 1) <= Lesser(q) /\ Lesser(p) \in Nat /\ Lesser(q) \in Nat
      /\ total_local_keys(p) \in Nat /\ total_local_keys(q) \in Nat
  BY <1>1, LesserIs
<1> QED  BY <1>2

\* The places of a value are as many as there are keys of it.
LEMMA PlacesOfOne ==
  ASSUME NEW a \in KeyArrays, NEW v \in KeyRange
  PROVE  /\ IsFiniteSet(ValuePlaces(a, v)) /\ Cardinality(ValuePlaces(a, v)) = CountIn(a, v)
         /\ \A k \in ValuePlaces(a, v) : k \in Int /\ \E i \in Indices : a[i] = v
<1>1. v \in Int /\ v - 1 \in Int
  BY Sizes DEF KeyRange
<1>2. PICK x \in Nat, y \in Nat : x = RankOf(a, v - 1) /\ y = CountIn(a, v)
  BY KeysAreNumbers, RanksAreSizes
<1>3. RankOf(a, v) = x + y
  BY <1>1, <1>2, RankStep
<1>4. ValuePlaces(a, v) = x .. (x + y) - 1
  BY <1>2, <1>3 DEF ValuePlaces
<1>5. Cardinality(x .. (x + y) - 1) = y /\ IsFiniteSet(x .. (x + y) - 1)
  <2>1. PICK z \in Nat : z = x + y /\ x <= z
    BY <1>2
  <2>2. Cardinality(x .. z - 1) = z - x
    BY <2>1, IntervalSize
  <2> QED  BY <1>2, <2>1, <2>2, FS_Interval, SMTT(60)
<1>6. ASSUME NEW k \in ValuePlaces(a, v) PROVE \E i \in Indices : a[i] = v
  <2> SUFFICES ASSUME With(a, v) = {} PROVE FALSE
    BY DEF With
  <2>1. CountIn(a, v) = 0
    BY KeysAreNumbers, RanksAreSizes, FS_EmptySet
  <2> QED  BY <1>2, <1>4, <1>6, <2>1
<1> QED  BY <1>2, <1>4, <1>5, <1>6

\* The keys that the processes have in the end, one after the other.
Delivered(a) ==
  \A p \in Processes : \A i \in 0 .. total_local_keys(p) - 1 :
    key_arrays[p][i] \in KeyRange /\ i + Lesser(p) \in ValuePlaces(a, key_arrays[p][i])

\* They are in order.
LEMMA DeliveredInOrder ==
  ASSUME Even(comm_size, num_keys), NEW a \in KeyArrays, TotalsAre(a), Delivered(a),
         NEW p \in Processes, NEW q \in Processes,
         NEW i \in 0 .. total_local_keys(p) - 1, NEW j \in 0 .. total_local_keys(q) - 1, p < q \/ (p = q /\ i <= j)
  PROVE  key_arrays[p][i] <= key_arrays[q][j]
<1>1. i + Lesser(p) <= j + Lesser(q)
  <2>1. p \in 0 .. comm_size /\ q \in 0 .. comm_size
    BY DEF Processes, Even
  <2>2. Lesser(p) \in Nat /\ Lesser(q) \in Nat
    BY <2>1, LesserIs
  <2>3. CASE p < q
    BY <2>2, <2>3, RangesApart
  <2>4. CASE p = q /\ i <= j
    BY <2>2, <2>4
  <2> QED  BY <2>3, <2>4
<1>2. /\ key_arrays[p][i] \in KeyRange /\ i + Lesser(p) \in ValuePlaces(a, key_arrays[p][i])
      /\ key_arrays[q][j] \in KeyRange /\ j + Lesser(q) \in ValuePlaces(a, key_arrays[q][j])
  BY DEF Delivered
<1> QED  BY <1>1, <1>2, PlacesInOrder

\* The places of a value that a process has.
PlacesHere(a, v, p) == {k \in ValuePlaces(a, v) : k - Lesser(p) \in 0 .. total_local_keys(p) - 1}

\* There it has that value and nowhere else.
LEMMA PlacesHereAre ==
  ASSUME Even(comm_size, num_keys), NEW a \in KeyArrays, TotalsAre(a), Delivered(a), NEW p \in Processes, NEW v \in KeyRange
  PROVE  /\ IsFiniteSet(PlacesHere(a, v, p))
         /\ Cardinality(OfValue(key_arrays[p], 0 .. total_local_keys(p) - 1, v)) = Cardinality(PlacesHere(a, v, p))
<1>1. PICK l \in Nat, n \in Nat : l = Lesser(p) /\ n = total_local_keys(p)
  <2>1. p \in 0 .. comm_size
    BY DEF Processes, Even
  <2> QED  BY <2>1, LesserIs
<1>2. PICK S : S = PlacesHere(a, v, p)
  OBVIOUS
<1>3. \A k \in S : k \in Int /\ k \in ValuePlaces(a, v) /\ k - l \in 0 .. n - 1 /\ (k - l) + l = k
  BY <1>1, <1>2, PlacesOfOne DEF PlacesHere
<1>4. IsFiniteSet(S)
  <2>1. S \subseteq ValuePlaces(a, v)
    BY <1>2 DEF PlacesHere
  <2> QED  BY <2>1, PlacesOfOne, FS_Subset
<1>5. PICK f : f = [k \in S |-> k - l]
  OBVIOUS
<1>6. \A x, y \in S : f[x] = f[y] => x = y
  BY <1>3, <1>5
<1>7. Cardinality({f[k] : k \in S}) = Cardinality(S)
  BY <1>4, <1>6, SameSize
<1>8. PICK W : W = OfValue(key_arrays[p], 0 .. n - 1, v)
  OBVIOUS
<1>9. ASSUME NEW k \in S PROVE f[k] \in W
  <2>1. PICK i \in 0 .. n - 1 : i = k - l /\ i + l = k
    BY <1>3
  <2>2. key_arrays[p][i] \in KeyRange /\ k \in ValuePlaces(a, key_arrays[p][i])
    BY <1>1, <2>1 DEF Delivered
  <2>3. key_arrays[p][i] = v
    BY <1>3, <2>2, PlacesOfValues
  <2> QED  BY <1>5, <1>8, <2>1, <2>3 DEF OfValue
<1>10. ASSUME NEW i \in W PROVE \E k \in S : f[k] = i
  <2>1. i \in 0 .. n - 1 /\ key_arrays[p][i] = v
    BY <1>8 DEF OfValue
  <2>2. i + l \in ValuePlaces(a, v) /\ (i + l) - l = i
    BY <1>1, <2>1 DEF Delivered
  <2>3. i + l \in S
    BY <1>1, <1>2, <2>1, <2>2 DEF PlacesHere
  <2> QED  BY <1>5, <2>2, <2>3
<1>11. W = {f[k] : k \in S}
  BY <1>9, <1>10
<1> QED  BY <1>1, <1>2, <1>4, <1>7, <1>8, <1>11

\* All keys are there.
LEMMA DeliveredAll ==
  ASSUME Even(comm_size, num_keys), NEW a \in KeyArrays, TotalsAre(a), Delivered(a), NEW v \in KeyRange,
         NEW f, \A p \in Processes : f[p] = Cardinality(OfValue(key_arrays[p], 0 .. total_local_keys(p) - 1, v))
  PROVE  SumTo(f, comm_size) = CountIn(a, v)
<1>1. PICK c \in Nat : c = comm_size
  BY DEF Even
<1>2. Processes = 0 .. c - 1
  BY <1>1 DEF Processes
<1>3. PICK A : A = [p \in Processes |-> PlacesHere(a, v, p)]
  OBVIOUS
<1>4. \A k \in 0 .. c - 1 : IsFiniteSet(A[k]) /\ f[k] = Cardinality(A[k])
  BY <1>2, <1>3, PlacesHereAre
<1>5. ASSUME NEW k \in 0 .. c - 1, NEW l \in 0 .. c - 1, k < l PROVE A[k] \cap A[l] = {}
  <2> SUFFICES ASSUME NEW x \in A[k], x \in A[l] PROVE FALSE
    OBVIOUS
  <2>1. /\ x \in ValuePlaces(a, v) /\ x - Lesser(k) \in 0 .. total_local_keys(k) - 1
        /\ x - Lesser(l) \in 0 .. total_local_keys(l) - 1
    BY <1>2, <1>3 DEF PlacesHere
  <2>2. x \in Int
    BY <2>1, PlacesOfOne
  <2>3. k \in 0 .. comm_size /\ l \in 0 .. comm_size
    BY <1>1
  <2>4. Lesser(k) \in Nat /\ Lesser(l) \in Nat
    BY <2>3, LesserIs
  <2>5. (x - Lesser(k)) + Lesser(k) < (x - Lesser(l)) + Lesser(l)
    BY <1>2, <1>5, <2>1, RangesApart
  <2> QED  BY <2>2, <2>4, <2>5
<1>6. \A k, l \in 0 .. c - 1 : k # l => A[k] \cap A[l] = {}
  <2>1. \A k, l \in 0 .. c - 1 : k # l => k < l \/ l < k
    OBVIOUS
  <2> QED  BY <1>5, <2>1
<1>7. ValuePlaces(a, v) = UNION {A[k] : k \in 0 .. c - 1}
  <2>1. ASSUME NEW k \in ValuePlaces(a, v) PROVE \E p \in 0 .. c - 1 : k \in A[p]
    <3>1. PICK i \in Indices : a[i] = v
      BY <2>1, PlacesOfOne
    <3>2. PICK p \in Processes : v \in Interval(p)
      BY <3>1, IntervalsApart
    <3>3. k - Lesser(p) \in 0 .. total_local_keys(p) - 1
      BY <3>2, PlacesOfProcess
    <3> QED  BY <1>2, <1>3, <3>3 DEF PlacesHere
  <2>2. \A k \in 0 .. c - 1 : A[k] \subseteq ValuePlaces(a, v)
    BY <1>2, <1>3 DEF PlacesHere
  <2> QED  BY <2>1, <2>2
<1>8. Parts(f, A, c, ValuePlaces(a, v))
  BY <1>4, <1>6, <1>7 DEF Parts
<1>9. SumTo(f, c) = Cardinality(ValuePlaces(a, v))
  BY <1>8, SumOfSizes
<1> QED  BY <1>1, <1>9, PlacesOfOne

\* The invariant has the property.
LEMMA CountsAll ==
  ASSUME MpiInv
  PROVE  RanksCountAll
<1> SUFFICES ASSUME NEW p \in Processes, stage[p] \in {"rank", "sort"}, iterations[p] > 0, NEW v \in DOMAIN ranks[p]
             PROVE  ranks[p][v] + Lesser(p)
                      = RankOf(KeysAt(first_number, IF stage[p] = "sort" THEN MAX_ITERATIONS ELSE iterations[p] - 1), v)
  BY DEF RanksCountAll
<1>1. StageOf(p) /\ RanksOfPart(p) /\ MAX_ITERATIONS \in Nat
  BY SizesAssumption DEF MpiInv, OfProcess
<1>2. iterations[p] \in Nat /\ (stage[p] = "sort" => iterations[p] = MAX_ITERATIONS)
  BY <1>1 DEF StageOf
<1>3. Done(p) = (IF stage[p] = "sort" THEN MAX_ITERATIONS ELSE iterations[p] - 1) /\ Done(p) >= 0
  BY <1>1, <1>2 DEF Done
<1>4. v \in Interval(p) /\ ranks[p][v] + Lesser(p) = RankOf(AllKeys(Done(p)), v)
  BY <1>1, <1>3 DEF RanksOfPart
<1> QED  BY <1>3, <1>4 DEF AllKeys

\* When no bucket has more than half a share, what arrives has room.
LEMMA RoomForAll ==
  ASSUME MpiInv
  PROVE  BuffersSuffice
<1> SUFFICES ASSUME Everyone("divide"), \A b \in Buckets : 2 * bucket_size_totals[b] <= num_keys, NEW p \in Processes
             PROVE  recv_displ(p, comm_size) <= size_of_buffers
  BY DEF BuffersSuffice
<1>1. PICK a \in KeyArrays :
        /\ Even(comm_size, num_keys) /\ TotalsAre(a) /\ SizesAre(a)
        /\ InOrder(Distribution, comm_size) /\ Covers(Distribution, comm_size, a)
        /\ \A q \in Processes : send_buff[q] = ByBucket(Slice(a, num_keys, q))
  BY WhenDivided
<1>2. PICK T \in SUBSET Indices : T = KeysFor(a, Indices, Distribution[p])
  BY DEF KeysFor
<1>3. recv_displ(p, comm_size) = Cardinality(T) /\ 2 * Cardinality(T) <= 3 * num_keys
  BY <1>1, <1>2, ReceivedIs, SharesAreMet
<1>4. PICK k \in Nat, n \in Nat, c \in Nat : k = Cardinality(T) /\ n = num_keys /\ c = comm_size /\ 2 * k <= 3 * n
  BY <1>1, <1>3, Finite DEF Even
<1>5. k <= (3 * n) \div 2 /\ k <= (5 * n) \div 2 /\ k <= 4 * n /\ k <= (13 * n) \div 2
  BY <1>4
<1>6. \/ c < 256 /\ size_of_buffers = (3 * n) \div 2
      \/ c \in 256 .. 511 /\ size_of_buffers = (5 * n) \div 2
      \/ c \in 512 .. 1023 /\ size_of_buffers = 4 * n
      \/ c > 1023 /\ size_of_buffers = (13 * n) \div 2
  <2>1. CASE c < 256
    BY <1>4, <2>1 DEF size_of_buffers
  <2>2. CASE c \in 256 .. 511
    BY <1>4, <2>2 DEF size_of_buffers
  <2>3. CASE c \in 512 .. 1023
    BY <1>4, <2>3 DEF size_of_buffers
  <2>4. CASE c > 1023
    BY <1>4, <2>4 DEF size_of_buffers
  <2> QED  BY <1>4, <2>1, <2>2, <2>3, <2>4
<1> QED  BY <1>3, <1>4, <1>5, <1>6

\* The property follows from the invariant.
LEMMA MpiInvSorts ==
  ASSUME MpiInv
  PROVE  SortsEverywhere
<1>1. ASSUME verified # "unknown"
      PROVE  \E a \in KeyArrays : /\ a = KeysAt(first_number, MAX_ITERATIONS) /\ Even(comm_size, num_keys)
                                  /\ TotalsAre(a) /\ Delivered(a)
  <2>1. \A p \in Processes : stage[p] = "exited" /\ PlacesOfPart(p)
    BY <1>1 DEF MpiInv, OfProcess, StageOf
  <2>2. 0 \in Processes
    BY WorldIs DEF MpiInv
  <2>3. PICK a \in KeyArrays : /\ a = AllKeys(MAX_ITERATIONS) /\ TotalsAre(a) /\ Even(comm_size, num_keys)
                               /\ \A p \in Processes : Done(p) = MAX_ITERATIONS
    BY <2>1, <2>2, LastRanks
  <2>4. Delivered(a)
    BY <2>1, <2>3 DEF PlacesOfPart, Delivered
  <2> QED  BY <2>3, <2>4 DEF AllKeys
<1>2. ASSUME verified # "unknown"
      PROVE  \A p, q \in Processes : \A i \in 0 .. total_local_keys(p) - 1, j \in 0 .. total_local_keys(q) - 1 :
               p < q \/ (p = q /\ i <= j) => key_arrays[p][i] <= key_arrays[q][j]
  BY <1>1, <1>2, DeliveredInOrder
<1>3. ASSUME verified # "unknown", NEW v \in KeyRange
      PROVE  SumTo([p \in Processes |-> Cardinality({i \in 0 .. total_local_keys(p) - 1 : key_arrays[p][i] = v})], comm_size)
               = CountIn(KeysAt(first_number, MAX_ITERATIONS), v)
  <2>1. PICK a \in KeyArrays : /\ a = KeysAt(first_number, MAX_ITERATIONS) /\ Even(comm_size, num_keys)
                               /\ TotalsAre(a) /\ Delivered(a)
    BY <1>1, <1>3
  <2>2. PICK f : f = [p \in Processes |-> Cardinality({i \in 0 .. total_local_keys(p) - 1 : key_arrays[p][i] = v})]
    OBVIOUS
  <2>3. \A p \in Processes : f[p] = Cardinality(OfValue(key_arrays[p], 0 .. total_local_keys(p) - 1, v))
    BY <2>2 DEF OfValue
  <2>4. SumTo(f, comm_size) = CountIn(a, v)
    BY <2>1, <2>3, DeliveredAll
  <2> QED  BY <2>1, <2>2, <2>4
<1>4. verified # "unknown" /\ ~LowestTested /\ ~IdleBetween => verified = "yes"
  BY DEF MpiInv, VerifiedRight
<1> QED  BY <1>2, <1>3, <1>4, CountsAll, RoomForAll DEF SortsEverywhere

\* The processes, whatever their number, put the keys of the last iteration in
\* order, all of them; what a process has and the ones before have are the ranks
\* in every iteration; and the run verifies unless a test key may be the first of
\* an interval or a process between is without keys.
THEOREM MpiSorts == MpiSpec => []SortsEverywhere
<1>1. MpiInit => MpiInv
  BY MpiInvInit
<1>2. MpiInv /\ [MpiNext]_mvars => MpiInv'
  BY MpiInvNext
<1>3. MpiInv => SortsEverywhere
  BY MpiInvSorts
<1> QED  BY <1>1, <1>2, <1>3, PTL DEF MpiSpec

=============================================================================
