--------------------------- MODULE DataCube_proofs ---------------------------
(* Every view of the data cube is made by one thread.  Each thread deals    *)
(* all the views by itself and keeps its own; that they agree rests on      *)
(* three things:                                                            *)
(*   the views are different ones, since the binary digits of a number      *)
(*     determine it (AttributesApart), and the heap sort, which only ever   *)
(*     makes entries change places, loses none (HeapSortArranges);          *)
(*   whose turn it is does not depend on who deals (TurnsAgree);            *)
(*   a way to or fro passes by every thread once (TurnGoesOn).              *)
(* The invariant CubeInv says that what a thread has made and is to make    *)
(* is its share from when it has dealt the views.                           *)
EXTENDS DataCube, FiniteSetTheorems, SequenceTheorems, WellFoundedInduction, TLAPS

-----------------------------------------------------------------------------
(* Induction over numbers, and recursive functions.                        *)

\* A set of numbers with zero and, with each number, the next: all of them.
LEMMA AllNumbers ==
  ASSUME NEW S \in SUBSET Nat, 0 \in S, \A n \in S : n + 1 \in S
  PROVE  S = Nat
<1> SUFFICES ASSUME Nat \ S # {} PROVE FALSE
  OBVIOUS
<1> DEFINE Below == {ss \in Nat \X Nat : ss[1] < ss[2]}
<1>1. Below = OpToRel(<, Nat)
  BY DEF OpToRel
<1>2. PICK x \in Nat \ S : \A y \in Nat \ S : ~(<<y, x>> \in Below)
  <2> HIDE DEF Below
  <2> QED  BY <1>1, NatLessThanWellFounded, WFMin
<1>3. x # 0 /\ x - 1 \in Nat /\ x - 1 < x
  OBVIOUS
<1>4. x - 1 \in S
  BY <1>2, <1>3
<1>5. (x - 1) + 1 = x
  OBVIOUS
<1> QED  BY <1>4, <1>5

\* What holds of the first entry and is passed on holds of all.
LEMMA PassedOn ==
  ASSUME NEW m \in Nat, NEW V, NEW f, f[0] \in V, \A k \in 1 .. m : f[k - 1] \in V => f[k] \in V
  PROVE  \A k \in 0 .. m : f[k] \in V
<1> DEFINE S == {k \in Nat : k <= m => f[k] \in V}
<1>1. 0 \in S
  OBVIOUS
<1>2. ASSUME NEW k \in S PROVE k + 1 \in S
  <2> SUFFICES ASSUME k + 1 <= m PROVE f[k + 1] \in V
    OBVIOUS
  <2>1. k + 1 \in 1 .. m /\ (k + 1) - 1 = k /\ f[k] \in V
    OBVIOUS
  <2> QED  BY <2>1
<1>3. S = Nat
  <2>1. S \in SUBSET Nat
    OBVIOUS
  <2> HIDE DEF S
  <2> QED  BY <1>1, <1>2, <2>1, AllNumbers
<1> QED  BY <1>3

\* What comes of v0 by applying F m times, F being told which time it is.
Steps(g, m, V, v0, F) ==
  /\ g \in [0 .. m -> V]
  /\ g[0] = v0
  /\ \A k \in 1 .. m : g[k] = F[<<k, g[k - 1]>>]

\* There is such a function.
LEMMA StepsExist ==
  ASSUME NEW V, NEW v0 \in V, NEW m \in Nat, NEW F,
         \A k \in 1 .. m, v \in V : F[<<k, v>>] \in V
  PROVE  \E g : Steps(g, m, V, v0, F)
<1> DEFINE S == {n \in Nat : n <= m => \E g : Steps(g, n, V, v0, F)}
<1>1. 0 \in S
  <2>1. Steps([k \in 0 .. 0 |-> v0], 0, V, v0, F)
    BY DEF Steps
  <2> QED  BY <2>1
<1>2. ASSUME NEW n \in S PROVE n + 1 \in S
  <2> SUFFICES ASSUME n + 1 <= m PROVE \E g : Steps(g, n + 1, V, v0, F)
    OBVIOUS
  <2>1. PICK g : Steps(g, n, V, v0, F)
    OBVIOUS
  <2>2. n \in Nat /\ n + 1 \in 1 .. m /\ (n + 1) - 1 = n
    OBVIOUS
  <2> DEFINE next == F[<<n + 1, g[n]>>]
             h == [k \in 0 .. n + 1 |-> IF k = n + 1 THEN next ELSE g[k]]
  <2>3. g \in [0 .. n -> V] /\ g[n] \in V /\ next \in V
    BY <2>1, <2>2 DEF Steps
  <2>4. h \in [0 .. n + 1 -> V] /\ h[0] = v0
    <3> HIDE DEF next
    <3>1. 0 # n + 1 /\ 0 \in 0 .. n + 1 /\ g[0] = v0
      BY <2>1, <2>2 DEF Steps
    <3>2. \A k \in 0 .. n + 1 : k # n + 1 => k \in 0 .. n
      BY <2>2
    <3> QED  BY <2>3, <3>1, <3>2
  <2>5. ASSUME NEW k \in 1 .. n + 1 PROVE h[k] = F[<<k, h[k - 1]>>]
    <3>1. CASE k = n + 1
      <4>1. h[k] = next /\ h[k - 1] = g[n]
        BY <2>2, <3>1
      <4> QED  BY <3>1, <4>1
    <3>2. CASE k # n + 1
      <4>1. k \in 1 .. n /\ k \in 0 .. n + 1 /\ k - 1 \in 0 .. n + 1 /\ k - 1 # n + 1
        BY <2>2, <3>2
      <4>2. h[k] = g[k] /\ h[k - 1] = g[k - 1]
        BY <3>2, <4>1
      <4> QED  BY <2>1, <4>1, <4>2 DEF Steps
    <3> QED  BY <3>1, <3>2
  <2>6. Steps(h, n + 1, V, v0, F)
    <3> HIDE DEF h
    <3> QED  BY <2>4, <2>5 DEF Steps
  <2> QED  BY <2>6
<1>3. S = Nat
  <2>1. S \in SUBSET Nat
    OBVIOUS
  <2> HIDE DEF S
  <2> QED  BY <1>1, <1>2, <2>1, AllNumbers
<1> QED  BY <1>3

\* And only one.
LEMMA StepsAgree ==
  ASSUME NEW V, NEW v0, NEW F, NEW m \in Nat, NEW n \in Nat, m <= n,
         NEW g, NEW h, Steps(g, m, V, v0, F), Steps(h, n, V, v0, F)
  PROVE  \A k \in 0 .. m : g[k] = h[k]
<1> DEFINE S == {k \in Nat : k <= m => g[k] = h[k]}
<1>1. 0 \in S
  BY DEF Steps
<1>2. ASSUME NEW k \in S PROVE k + 1 \in S
  <2> SUFFICES ASSUME k + 1 <= m PROVE g[k + 1] = h[k + 1]
    OBVIOUS
  <2>1. k + 1 \in 1 .. m /\ k + 1 \in 1 .. n /\ (k + 1) - 1 = k /\ g[k] = h[k]
    OBVIOUS
  <2> QED  BY <2>1 DEF Steps
<1>3. S = Nat
  <2>1. S \in SUBSET Nat
    OBVIOUS
  <2> HIDE DEF S
  <2> QED  BY <1>1, <1>2, <2>1, AllNumbers
<1> QED  BY <1>3

-----------------------------------------------------------------------------
(* Powers of two.                                                          *)

\* Bit is 1 at first and doubles.
LEMMA BitIs ==
  /\ Bit[0] = 1
  /\ \A n \in Nat : Bit[n] \in Nat \ {0} /\ Bit[n + 1] = 2 * Bit[n]
<1> DEFINE F == [p \in Nat \X Nat |-> 2 * p[2]]
           Doubles(g) == g = [n \in Nat |-> IF n = 0 THEN 1 ELSE 2 * g[n - 1]]
           upTo(n) == CHOOSE g : Steps(g, n, Nat, 1, F)
           bit == [n \in Nat |-> upTo(n)[n]]
<1>1. \A k, v \in Nat : F[<<k, v>>] = 2 * v
  OBVIOUS
<1> HIDE DEF F
<1>2. ASSUME NEW n \in Nat PROVE Steps(upTo(n), n, Nat, 1, F)
  <2>1. \E g : Steps(g, n, Nat, 1, F)
    <3>1. 1 \in Nat /\ \A k \in 1 .. n, v \in Nat : F[<<k, v>>] \in Nat
      BY <1>1
    <3> QED  BY <3>1, StepsExist
  <2> QED  BY <2>1
<1> HIDE DEF upTo
<1>3. ASSUME NEW n \in Nat, n # 0 PROVE bit[n] = 2 * bit[n - 1]
  <2>1. n - 1 \in Nat /\ n - 1 <= n /\ n \in 1 .. n /\ n - 1 \in 0 .. n - 1
    BY <1>3
  <2>2. upTo(n - 1)[n - 1] = upTo(n)[n - 1]
    BY <1>2, <2>1, StepsAgree
  <2>3. upTo(n)[n] = F[<<n, upTo(n)[n - 1]>>] /\ upTo(n)[n - 1] \in Nat
    <3>1. Steps(upTo(n), n, Nat, 1, F)
      BY <1>2
    <3>2. n - 1 \in 0 .. n
      BY <2>1
    <3> QED  BY <2>1, <3>1, <3>2 DEF Steps
  <2> QED  BY <1>1, <2>1, <2>2, <2>3
<1>4. Doubles(bit)
  <2>1. bit[0] = 1
    BY <1>2 DEF Steps
  <2> HIDE DEF Steps
  <2>2. bit = [n \in Nat |-> bit[n]]
    OBVIOUS
  <2> HIDE DEF bit
  <2> QED  BY <1>3, <2>1, <2>2
<1>5. Doubles(Bit)
  <2>1. Bit = CHOOSE g : Doubles(g)
    BY DEF Bit
  <2> HIDE DEF Doubles
  <2> QED  BY <1>4, <2>1
<1>6. Bit[0] = 1
  BY <1>5
<1>7. \A n \in Nat : Bit[n + 1] = 2 * Bit[n]
  BY <1>5
<1> DEFINE S == {n \in Nat : Bit[n] \in Nat \ {0}}
<1>8. S = Nat
  <2>1. 0 \in S
    BY <1>6
  <2>2. \A n \in S : n + 1 \in S
    <3> HIDE DEF Doubles
    <3> QED  BY <1>7
  <2>3. S \in SUBSET Nat
    OBVIOUS
  <2> HIDE DEF S
  <2> QED  BY <2>1, <2>2, <2>3, AllNumbers
<1> QED  BY <1>6, <1>7, <1>8

\* A number is less than its power of two.
LEMMA BitsGrow == \A n \in Nat : Bit[n] > n
<1> DEFINE S == {n \in Nat : Bit[n] > n}
<1>1. 0 \in S
  BY BitIs
<1>2. \A n \in S : n + 1 \in S
  BY BitIs
<1>3. S \in SUBSET Nat
  OBVIOUS
<1>4. S = Nat
  <2> HIDE DEF S
  <2> QED  BY <1>1, <1>2, <1>3, AllNumbers
<1> QED  BY <1>4

-----------------------------------------------------------------------------
(* The heap sort rearranges.                                               *)

\* The arrangements of n different entries.
Arrangements(x, n) ==
  {y \in [1 .. n -> {x[i] : i \in 1 .. n}] :
     /\ \A i, j \in 1 .. n : y[i] = y[j] => i = j
     /\ \A i \in 1 .. n : \E j \in 1 .. n : y[j] = x[i]}

\* What is in one.
LEMMA ArrangementIs ==
  ASSUME NEW n \in Nat, NEW x, NEW y \in Arrangements(x, n)
  PROVE  /\ y \in [1 .. n -> {x[i] : i \in 1 .. n}]
         /\ \A k \in 1 .. n : \E i \in 1 .. n : y[k] = x[i]
         /\ \A i \in 1 .. n : \E k \in 1 .. n : y[k] = x[i]
         /\ \A i, j \in 1 .. n : y[i] = y[j] => i = j
<1>1. y \in [1 .. n -> {x[i] : i \in 1 .. n}]
  BY DEF Arrangements
<1>2. \A k \in 1 .. n : \E i \in 1 .. n : y[k] = x[i]
  BY <1>1
<1> QED  BY <1>1, <1>2 DEF Arrangements

\* Two entries change places.
LEMMA SwapArranges ==
  ASSUME NEW n \in Nat, NEW x, NEW y \in Arrangements(x, n), NEW i \in 1 .. n, NEW j \in 1 .. n
  PROVE  Swapped(y, i, j) \in Arrangements(x, n)
<1> DEFINE z == Swapped(y, i, j)
<1>1. z = [k \in 1 .. n |-> IF k = j THEN y[i] ELSE IF k = i THEN y[j] ELSE y[k]]
  BY DEF Swapped, Arrangements
<1> HIDE DEF z
<1>2. z \in [1 .. n -> {x[k] : k \in 1 .. n}]
  BY <1>1 DEF Arrangements
<1>3. \A k, m \in 1 .. n : z[k] = z[m] => k = m
  BY <1>1 DEF Arrangements
<1>4. ASSUME NEW k \in 1 .. n PROVE \E m \in 1 .. n : z[m] = x[k]
  <2>1. PICK m \in 1 .. n : y[m] = x[k]
    BY DEF Arrangements
  <2>2. z[IF m = i THEN j ELSE IF m = j THEN i ELSE m] = x[k]
    BY <1>1, <2>1
  <2> QED  BY <2>2
<1>5. z \in Arrangements(x, n)
  BY <1>2, <1>3, <1>4 DEF Arrangements
<1> QED  BY <1>5 DEF z

\* A turn of restore() changes two entries of the first l or none, and stays
\* among them.
LEMMA SunkArranges ==
  ASSUME NEW n \in Nat, NEW x, NEW l \in 1 .. n, NEW key, NEW at \in [x : Arrangements(x, n), j : 1 .. n]
  PROVE  Sunk(at, l, key) \in [x : Arrangements(x, n), j : 1 .. n]
<1> DEFINE j == at.j
           larger == IF 2 * j < l /\ at.x[2 * j][key] < at.x[2 * j + 1][key] THEN 2 * j + 1 ELSE 2 * j
           stays == j > l \div 2 \/ at.x[larger][key] <= at.x[j][key]
<1>1. Sunk(at, l, key) = IF stays THEN at ELSE [x |-> Swapped(at.x, j, larger), j |-> larger]
  BY DEF Sunk
<1>2. j \in 1 .. n /\ at.x \in Arrangements(x, n)
  OBVIOUS
<1>3. ASSUME ~stays PROVE larger \in 1 .. n
  <2>1. ~(j > l \div 2)
    BY <1>3
  <2> HIDE DEF j
  <2>2. 2 * j \in 1 .. n /\ (2 * j < l => 2 * j + 1 \in 1 .. n)
    BY <1>2, <2>1
  <2> QED  BY <2>2
<1> HIDE DEF larger, j, stays
<1>4. ASSUME ~stays PROVE Swapped(at.x, j, larger) \in Arrangements(x, n)
  BY <1>2, <1>3, <1>4, SwapArranges
<1> QED  BY <1>1, <1>3, <1>4

\* restore() rearranges.
LEMMA RestoredArranges ==
  ASSUME NEW n \in Nat, NEW x, NEW y \in Arrangements(x, n), NEW first \in 1 .. n, NEW l \in 1 .. n, NEW key
  PROVE  Restored(y, first, l, key) \in Arrangements(x, n)
<1> DEFINE V == [x : Arrangements(x, n), j : 1 .. n]
           v0 == [x |-> y, j |-> first]
           F == [p \in (1 .. n) \X V |-> Sunk(p[2], l, key)]
           Sinks(g) == g = [k \in 0 .. n |-> IF k = 0 THEN v0 ELSE Sunk(g[k - 1], l, key)]
           sinks == CHOOSE g : Sinks(g)
<1>1. v0 \in V
  OBVIOUS
<1>2. \A v \in V : Sunk(v, l, key) \in V
  BY SunkArranges
<1>3. \A k \in 1 .. n, v \in V : F[<<k, v>>] = Sunk(v, l, key)
  OBVIOUS
<1> HIDE DEF V, v0, F
<1>4. PICK g : Steps(g, n, V, v0, F)
  <2>1. n \in Nat /\ \A k \in 1 .. n, v \in V : F[<<k, v>>] \in V
    BY <1>2, <1>3
  <2> QED  BY <1>1, <2>1, StepsExist
<1>5. Sinks(g)
  <2>1. g = [k \in 0 .. n |-> g[k]] /\ g[0] = v0
    BY <1>4 DEF Steps
  <2>2. ASSUME NEW k \in 0 .. n, k # 0 PROVE g[k] = Sunk(g[k - 1], l, key)
    <3>1. k \in 1 .. n /\ k - 1 \in 0 .. n
      BY <2>2
    <3> QED  BY <1>3, <1>4, <3>1 DEF Steps
  <2> QED  BY <2>1, <2>2
<1>6. Sinks(sinks)
  BY <1>5
<1> HIDE DEF sinks
<1>7. \A k \in 0 .. n : sinks[k] \in V
  <2>1. sinks[0] \in V
    BY <1>1, <1>6
  <2>2. ASSUME NEW k \in 1 .. n, sinks[k - 1] \in V PROVE sinks[k] \in V
    <3>1. sinks[k] = Sunk(sinks[k - 1], l, key)
      BY <1>6
    <3> QED  BY <1>2, <2>2, <3>1
  <2> HIDE DEF Sinks
  <2> QED  BY <2>1, <2>2, PassedOn
<1>8. Levels(l) \in 0 .. n
  <2>1. l \in 0 .. l /\ Bit[l] > l
    BY BitsGrow
  <2> QED  BY <2>1 DEF Levels
<1>9. sinks[Levels(l)].x \in Arrangements(x, n)
  BY <1>7, <1>8 DEF V
<1>10. Restored(y, first, l, key) = sinks[Levels(l)].x
  <2>1. Len(y) = n
    BY DEF Arrangements
  <2> QED  BY <2>1 DEF Restored, sinks, v0
<1> QED  BY <1>9, <1>10

\* vszsort() and onessort() rearrange.
LEMMA HeapSortArranges ==
  ASSUME NEW n \in Nat, NEW S, NEW x \in [1 .. n -> S], \A i, j \in 1 .. n : x[i] = x[j] => i = j, NEW key
  PROVE  HeapSort(x, key) \in Arrangements(x, n)
<1> DEFINE V == Arrangements(x, n)
           m == n \div 2
           FH == [p \in (1 .. m) \X V |-> Restored(p[2], m + 1 - p[1], n, key)]
           FD == [p \in (1 .. n - 1) \X V |-> Restored(Swapped(p[2], 1, n + 1 - p[1]), 1, n - p[1], key)]
           Heap(g) == g = [k \in 0 .. m |-> IF k = 0 THEN x ELSE Restored(g[k - 1], m + 1 - k, n, key)]
           heap == CHOOSE g : Heap(g)
           Drawn(g) == g = [k \in 0 .. n - 1 |->
                              IF k = 0 THEN heap[m]
                              ELSE Restored(Swapped(g[k - 1], 1, n + 1 - k), 1, n - k, key)]
           drawn == CHOOSE g : Drawn(g)
<1>1. x \in V
  BY DEF Arrangements
<1>2. x \in Seq(S) /\ Len(x) = n
  OBVIOUS
<1>3. HeapSort(x, key) = IF n = 0 THEN x ELSE drawn[n - 1]
  BY <1>2 DEF HeapSort
<1> SUFFICES ASSUME n # 0 PROVE drawn[n - 1] \in V
  BY <1>1, <1>3
<1>4. m \in Nat /\ m <= n /\ n - 1 \in Nat
  OBVIOUS
<1>5. \A k \in 1 .. m, v \in V : Restored(v, m + 1 - k, n, key) \in V
  <2> TAKE k \in 1 .. m, v \in V
  <2>1. m + 1 - k \in 1 .. n /\ n \in 1 .. n
    BY <1>4
  <2> HIDE DEF m
  <2> QED  BY <2>1, RestoredArranges
<1>6. \A k \in 1 .. n - 1, v \in V : Restored(Swapped(v, 1, n + 1 - k), 1, n - k, key) \in V
  <2> TAKE k \in 1 .. n - 1, v \in V
  <2>1. 1 \in 1 .. n /\ n + 1 - k \in 1 .. n /\ n - k \in 1 .. n
    OBVIOUS
  <2>2. Swapped(v, 1, n + 1 - k) \in V
    BY <2>1, SwapArranges
  <2> QED  BY <2>1, <2>2, RestoredArranges
<1>7. /\ \A k \in 1 .. m, v \in V : FH[<<k, v>>] = Restored(v, m + 1 - k, n, key)
      /\ \A k \in 1 .. n - 1, v \in V : FD[<<k, v>>] = Restored(Swapped(v, 1, n + 1 - k), 1, n - k, key)
  OBVIOUS
<1> HIDE DEF V, m, FH, FD
<1>8. Heap(heap)
  <2>1. PICK g : Steps(g, m, V, x, FH)
    <3>1. \A k \in 1 .. m, v \in V : FH[<<k, v>>] \in V
      BY <1>5, <1>7
    <3> QED  BY <1>1, <1>4, <3>1, StepsExist
  <2>2. Heap(g)
    <3>1. g = [k \in 0 .. m |-> g[k]] /\ g[0] = x
      BY <2>1 DEF Steps
    <3>2. ASSUME NEW k \in 0 .. m, k # 0 PROVE g[k] = Restored(g[k - 1], m + 1 - k, n, key)
      <4>1. k \in 1 .. m /\ k - 1 \in 0 .. m
        BY <1>4, <3>2
      <4> QED  BY <1>7, <2>1, <4>1 DEF Steps
    <3> QED  BY <3>1, <3>2
  <2> QED  BY <2>2
<1> HIDE DEF heap
<1>9. heap[m] \in V
  <2>1. heap[0] \in V
    BY <1>1, <1>4, <1>8
  <2>2. ASSUME NEW k \in 1 .. m, heap[k - 1] \in V PROVE heap[k] \in V
    <3>1. heap[k] = Restored(heap[k - 1], m + 1 - k, n, key)
      BY <1>4, <1>8
    <3> QED  BY <1>5, <2>2, <3>1
  <2> HIDE DEF Heap
  <2>3. \A k \in 0 .. m : heap[k] \in V
    BY <1>4, <2>1, <2>2, PassedOn
  <2> QED  BY <1>4, <2>3
<1>10. Drawn(drawn)
  <2>1. PICK g : Steps(g, n - 1, V, heap[m], FD)
    <3>1. \A k \in 1 .. n - 1, v \in V : FD[<<k, v>>] \in V
      BY <1>6, <1>7
    <3> QED  BY <1>4, <1>9, <3>1, StepsExist
  <2>2. Drawn(g)
    <3>1. g = [k \in 0 .. n - 1 |-> g[k]] /\ g[0] = heap[m]
      BY <2>1 DEF Steps
    <3>2. ASSUME NEW k \in 0 .. n - 1, k # 0
          PROVE  g[k] = Restored(Swapped(g[k - 1], 1, n + 1 - k), 1, n - k, key)
      <4>1. k \in 1 .. n - 1 /\ k - 1 \in 0 .. n - 1
        BY <1>4, <3>2
      <4> QED  BY <1>7, <2>1, <4>1 DEF Steps
    <3> QED  BY <3>1, <3>2
  <2> QED  BY <2>2
<1> HIDE DEF drawn
<1>11. drawn[0] \in V
  BY <1>4, <1>9, <1>10
<1>12. ASSUME NEW k \in 1 .. n - 1, drawn[k - 1] \in V PROVE drawn[k] \in V
  <2>1. drawn[k] = Restored(Swapped(drawn[k - 1], 1, n + 1 - k), 1, n - k, key)
    BY <1>4, <1>10
  <2> QED  BY <1>6, <1>12, <2>1
<1> HIDE DEF Drawn
<1>13. \A k \in 0 .. n - 1 : drawn[k] \in V
  BY <1>4, <1>11, <1>12, PassedOn
<1> QED  BY <1>4, <1>13

-----------------------------------------------------------------------------
(* A view and its number.                                                  *)

\* There is only one quotient, and only one remainder.
LEMMA Quotient ==
  ASSUME NEW x \in Nat, NEW m \in Nat \ {0}, NEW q \in Nat, NEW r \in 0 .. m - 1, x = q * m + r
  PROVE  x \div m = q
<1> DEFINE p == x \div m
           s == x % m
<1>1. p \in Nat /\ s \in 0 .. m - 1 /\ q * m + r = p * m + s
  OBVIOUS
<1> HIDE DEF p, s
<1>2. ASSUME q > p PROVE FALSE
  <2>1. q * m >= (p + 1) * m /\ (p + 1) * m = p * m + m
    BY <1>1, <1>2
  <2> QED  BY <1>1, <2>1
<1>3. ASSUME q < p PROVE FALSE
  <2>1. p * m >= (q + 1) * m /\ (q + 1) * m = q * m + m
    BY <1>1, <1>3
  <2> QED  BY <1>1, <2>1
<1>4. q = p
  BY <1>1, <1>2, <1>3
<1> QED  BY <1>4 DEF p

\* Halved and divided is divided by the double.
LEMMA Halves ==
  ASSUME NEW x \in Nat, NEW m \in Nat \ {0}
  PROVE  (x \div 2) \div m = x \div (2 * m)
<1> DEFINE q == x \div (2 * m)
           r == x % (2 * m)
           h == x \div 2
<1>1. x = q * (2 * m) + r /\ q \in Nat /\ r \in 0 .. 2 * m - 1
  <2> DEFINE d == 2 * m
  <2>1. d \in Nat \ {0}
    OBVIOUS
  <2> HIDE DEF d
  <2>2. x = (x \div d) * d + (x % d) /\ x \div d \in Nat /\ x % d \in 0 .. d - 1
    BY <2>1
  <2> QED  BY <2>2 DEF d
<1>2. h \in Nat /\ (x = 2 * h \/ x = 2 * h + 1)
  OBVIOUS
<1> SUFFICES h \div m = q
  OBVIOUS
<1> HIDE DEF q, r, h
<1>3. PICK s \in 0 .. m - 1 : r = 2 * s \/ r = 2 * s + 1
  <2>1. r \div 2 \in 0 .. m - 1 /\ (r = 2 * (r \div 2) \/ r = 2 * (r \div 2) + 1)
    BY <1>1
  <2> QED  BY <2>1
<1>4. q * (2 * m) = 2 * (q * m) /\ q * m \in Nat
  BY <1>1
<1>5. h = q * m + s
  BY <1>1, <1>2, <1>3, <1>4
<1> QED  BY <1>1, <1>2, <1>5, Quotient

\* Views with the same attributes have the same number.
LEMMA AttributesApart ==
  \A d \in Nat : \A x, y \in 0 .. Bit[d] - 1 : AttributesOf(x, d) = AttributesOf(y, d) => x = y
<1> DEFINE S == {d \in Nat : \A x, y \in 0 .. Bit[d] - 1 : AttributesOf(x, d) = AttributesOf(y, d) => x = y}
<1>1. 0 \in S
  <2>1. Bit[0] = 1
    BY BitIs
  <2>2. \A x, y \in 0 .. 1 - 1 : x = y
    OBVIOUS
  <2> QED  BY <2>1, <2>2
<1>2. ASSUME NEW d \in S PROVE d + 1 \in S
  <2> SUFFICES ASSUME NEW x \in 0 .. Bit[d + 1] - 1, NEW y \in 0 .. Bit[d + 1] - 1,
                      AttributesOf(x, d + 1) = AttributesOf(y, d + 1)
               PROVE  x = y
    OBVIOUS
  <2>1. d \in Nat /\ Bit[d] \in Nat \ {0} /\ Bit[d + 1] = 2 * Bit[d]
    BY BitIs
  <2>2. x \in Nat /\ y \in Nat /\ x \div 2 \in 0 .. Bit[d] - 1 /\ y \div 2 \in 0 .. Bit[d] - 1
    BY <2>1
  <2>3. \A j \in 1 .. d + 1 : (x \div Bit[j - 1]) % 2 = 1 <=> (y \div Bit[j - 1]) % 2 = 1
    BY DEF AttributesOf
  <2>4. x % 2 = y % 2
    <3>1. 1 \in 1 .. d + 1 /\ 1 - 1 = 0 /\ Bit[0] = 1
      BY <2>1, BitIs
    <3>2. (x \div 1) % 2 = 1 <=> (y \div 1) % 2 = 1
      BY <2>3, <3>1
    <3>3. x \div 1 = x /\ y \div 1 = y
      BY <2>2
    <3> QED  BY <2>2, <3>2, <3>3
  <2>5. ASSUME NEW j \in 1 .. d
        PROVE  ((x \div 2) \div Bit[j - 1]) % 2 = 1 <=> ((y \div 2) \div Bit[j - 1]) % 2 = 1
    <3>1. j - 1 \in Nat /\ (j - 1) + 1 = j /\ j + 1 \in 1 .. d + 1 /\ (j + 1) - 1 = j
      BY <2>1
    <3>2. Bit[j - 1] \in Nat \ {0} /\ Bit[j] = 2 * Bit[j - 1]
      BY <3>1, BitIs
    <3>3. (x \div Bit[j]) % 2 = 1 <=> (y \div Bit[j]) % 2 = 1
      BY <2>3, <3>1
    <3>4. (x \div 2) \div Bit[j - 1] = x \div (2 * Bit[j - 1]) /\ (y \div 2) \div Bit[j - 1] = y \div (2 * Bit[j - 1])
      BY <2>2, <3>2, Halves
    <3> QED  BY <3>2, <3>3, <3>4
  <2>6. AttributesOf(x \div 2, d) = AttributesOf(y \div 2, d)
    BY <2>5 DEF AttributesOf
  <2>7. x \div 2 = y \div 2
    BY <2>2, <2>6
  <2>8. x = 2 * (x \div 2) + (x % 2) /\ y = 2 * (y \div 2) + (y % 2)
    BY <2>2
  <2> QED  BY <2>4, <2>7, <2>8
<1>3. S \in SUBSET Nat
  OBVIOUS
<1>4. S = Nat
  <2> HIDE DEF S
  <2> QED  BY <1>1, <1>2, <1>3, AllNumbers
<1> QED  BY <1>4

\* The views the tasks are to make are different ones.
LEMMA ViewsApart ==
  ASSUME NEW p, p.dim \in Nat \ {0}
  PROVE  \E n, S : /\ n \in Nat
                   /\ CalculateVeiwSizes(p) \in [1 .. n -> S]
                   /\ \A i, j \in 1 .. n : CalculateVeiwSizes(p)[i].sel = CalculateVeiwSizes(p)[j].sel => i = j
<1> DEFINE N == Bit[p.dim] - 1
           step == ViewStep(p.clss)
           n == (Bit[p.dim] - 2) \div step + 1
           size(idx) == Min({GetLCM(AttributesOf(idx, p.dim), Exponents(p.clss)), p.tuplenum})
           view(idx, vsize) == [vsize |-> vsize, vidx |-> idx, order |-> vsize * Bit[p.dim] + idx]
           views == [idx \in 1 .. N |-> view(idx, size(idx))]
           dcview == HeapSort(SubSeq(views, 1, Len(views)), "order")
           sizes == CalculateVeiwSizes(p)
           place(i) == (i - 1) * step + 1
<1>1. N \in Nat /\ N >= 1 /\ Bit[p.dim] \in Nat
  <2>1. p.dim \in Nat /\ Bit[p.dim] \in Nat /\ Bit[p.dim] > p.dim
    BY BitIs, BitsGrow
  <2> QED  BY <2>1
<1>2. step \in Nat \ {0}
  BY DEF ViewStep
<1> DEFINE E == {views[i] : i \in 1 .. N}
<1>3. /\ views \in [1 .. N -> E]
      /\ \A i \in 1 .. N : views[i].vidx = i
  OBVIOUS
<1> HIDE DEF size, step, N
<1>4. SubSeq(views, 1, Len(views)) = views
  <2> HIDE DEF views, E
  <2>1. views \in Seq(E) /\ Len(views) = N
    BY <1>1, <1>3
  <2> QED  BY <1>1, <1>3, <2>1
<1>5. dcview \in Arrangements(views, N)
  <2> HIDE DEF views
  <2>1. \A i, j \in 1 .. N : views[i] = views[j] => i = j
    BY <1>3
  <2> QED  BY <1>1, <1>3, <1>4, <2>1, HeapSortArranges
<1>6. sizes = [i \in 1 .. n |-> [sel |-> AttributesOf(dcview[place(i)].vidx, p.dim), size |-> dcview[place(i)].vsize]]
  BY DEF CalculateVeiwSizes, N, size, step
<1>7. n \in Nat
  BY <1>1, <1>2 DEF N
<1>8. \A i \in 1 .. n : place(i) \in 1 .. N
  <2> SUFFICES ASSUME NEW i \in 1 .. n PROVE place(i) \in 1 .. N
    OBVIOUS
  <2> DEFINE q == (Bit[p.dim] - 2) \div step
  <2>1. q \in Nat /\ q * step <= N - 1 /\ i - 1 \in 0 .. q
    BY <1>1, <1>2 DEF N
  <2> HIDE DEF q
  <2>2. (i - 1) * step <= q * step /\ (i - 1) * step \in Nat
    BY <1>2, <2>1
  <2> DEFINE c == (i - 1) * step
             d == q * step
  <2>3. c <= d /\ c \in Nat /\ d <= N - 1 /\ d \in Nat
    BY <1>2, <2>1, <2>2
  <2> HIDE DEF c, d
  <2>4. c + 1 \in 1 .. N
    BY <1>1, <2>3
  <2> QED  BY <2>4 DEF c
<1>9. \A i, j \in 1 .. n : place(i) = place(j) => i = j
  <2> SUFFICES ASSUME NEW i \in 1 .. n, NEW j \in 1 .. n, (i - 1) * step = (j - 1) * step PROVE i = j
    BY <1>2
  <2> HIDE DEF n
  <2>1. \A a, b \in Nat : a < b => a * step < b * step
    <3> SUFFICES ASSUME NEW a \in Nat, NEW b \in Nat, a < b PROVE a * step < b * step
      OBVIOUS
    <3>1. (a + 1) * step <= b * step /\ (a + 1) * step = a * step + step
      BY <1>2
    <3> QED  BY <1>2, <3>1
  <2>2. i - 1 \in Nat /\ j - 1 \in Nat
    BY <1>7
  <2>3. i - 1 = j - 1
    <3> DEFINE a == i - 1
               b == j - 1
    <3>1. a \in Nat /\ b \in Nat /\ a * step = b * step
      BY <2>2
    <3> HIDE DEF a, b
    <3>2. a * step \in Nat /\ b * step \in Nat
      BY <1>2, <3>1
    <3>3. ~(a < b) /\ ~(b < a)
      <4>1. a < b => a * step < b * step
        BY <2>1, <3>1
      <4>2. b < a => b * step < a * step
        BY <2>1, <3>1
      <4> QED  BY <3>1, <3>2, <4>1, <4>2
    <3>4. a = b
      BY <3>1, <3>3
    <3> QED  BY <3>4 DEF a, b
  <2> QED  BY <1>7, <2>3
<1> HIDE DEF n, place, dcview, views
<1>9a. /\ \A k \in 1 .. N : \E i \in 1 .. N : dcview[k] = views[i]
       /\ \A k, m \in 1 .. N : dcview[k] = dcview[m] => k = m
  <2> HIDE DEF N
  <2>1. dcview \in [1 .. N -> {views[i] : i \in 1 .. N}]
    BY <1>5 DEF Arrangements
  <2>2. \A k \in 1 .. N : dcview[k] \in {views[i] : i \in 1 .. N}
    BY <2>1
  <2> QED  BY <1>5, <2>2 DEF Arrangements
<1>10. \A k \in 1 .. N : dcview[k].vidx \in 1 .. N
  <2> SUFFICES ASSUME NEW k \in 1 .. N PROVE dcview[k].vidx \in 1 .. N
    OBVIOUS
  <2>1. PICK i \in 1 .. N : dcview[k] = views[i]
    BY <1>9a
  <2>2. views[i].vidx = i
    BY <1>3
  <2> QED  BY <2>1, <2>2
<1>11. \A k, m \in 1 .. N : dcview[k].vidx = dcview[m].vidx => k = m
  <2> SUFFICES ASSUME NEW k \in 1 .. N, NEW m \in 1 .. N, dcview[k].vidx = dcview[m].vidx PROVE k = m
    OBVIOUS
  <2>1. PICK a \in 1 .. N : dcview[k] = views[a]
    BY <1>9a
  <2>2. PICK b \in 1 .. N : dcview[m] = views[b]
    BY <1>9a
  <2>3. views[a].vidx = a /\ views[b].vidx = b
    BY <1>3
  <2>4. dcview[k] = dcview[m]
    BY <2>1, <2>2, <2>3
  <2> QED  BY <1>9a, <2>4
<1>12. ASSUME NEW i \in 1 .. n, NEW j \in 1 .. n, sizes[i].sel = sizes[j].sel PROVE i = j
  <2>1. AttributesOf(dcview[place(i)].vidx, p.dim) = AttributesOf(dcview[place(j)].vidx, p.dim)
    BY <1>6, <1>12
  <2>2. /\ dcview[place(i)].vidx \in 0 .. Bit[p.dim] - 1
        /\ dcview[place(j)].vidx \in 0 .. Bit[p.dim] - 1
    BY <1>1, <1>8, <1>10 DEF N
  <2>3. dcview[place(i)].vidx = dcview[place(j)].vidx
    BY <2>1, <2>2, AttributesApart
  <2> QED  BY <1>8, <1>9, <1>11, <2>3
<1>13. sizes \in [1 .. n -> {sizes[i] : i \in 1 .. n}]
  BY <1>6
<1> HIDE DEF sizes
<1> QED  BY <1>7, <1>12, <1>13 DEF sizes

-----------------------------------------------------------------------------
(* To and fro.                                                             *)

Turn == [pn : 0 .. nTasks - 1, direction : {0, 1}]
FirstTurn == [pn |-> 0, direction |-> 0]

\* The tasks that had their turn on the way there, or on the way back.
PassedBy(turn) == IF turn.direction = 0 THEN 0 .. turn.pn - 1 ELSE turn.pn + 1 .. nTasks - 1

\* A turn adds its task to those passed by, and when these are all the next way
\* begins.
LEMMA TurnGoesOn ==
  ASSUME nTasks \in Nat \ {0}, NEW turn \in Turn
  PROVE  /\ NextTurn(turn) \in Turn
         /\ turn.pn \in 0 .. nTasks - 1 /\ turn.pn \notin PassedBy(turn)
         /\ \/ PassedBy(NextTurn(turn)) = PassedBy(turn) \cup {turn.pn}
            \/ /\ 0 .. nTasks - 1 = PassedBy(turn) \cup {turn.pn}
               /\ PassedBy(NextTurn(turn)) = {}
<1> DEFINE T == nTasks
           p == turn.pn
<1>1. p \in 0 .. T - 1 /\ turn.direction \in {0, 1} /\ T \in Nat \ {0}
  BY DEF Turn
<1>2. turn = [pn |-> p, direction |-> turn.direction]
  BY DEF Turn
<1>3. CASE turn.direction = 0 /\ p = T - 1 /\ p = 0
  <2>1. NextTurn(turn) = [pn |-> 0, direction |-> 0]
    BY <1>2, <1>3 DEF NextTurn
  <2> QED  BY <1>1, <1>3, <2>1 DEF PassedBy, Turn
<1>4. CASE turn.direction = 0 /\ p = T - 1 /\ p # 0
  <2>1. NextTurn(turn) = [pn |-> p, direction |-> 1]
    BY <1>2, <1>4 DEF NextTurn
  <2> QED  BY <1>1, <1>4, <2>1 DEF PassedBy, Turn
<1>5. CASE turn.direction = 0 /\ p # T - 1
  <2>1. NextTurn(turn) = [pn |-> p + 1, direction |-> 0]
    BY <1>2, <1>5 DEF NextTurn
  <2> QED  BY <1>1, <1>5, <2>1 DEF PassedBy, Turn
<1>6. CASE turn.direction = 1 /\ p = 0
  <2>1. NextTurn(turn) = [pn |-> 0, direction |-> 0]
    BY <1>2, <1>6 DEF NextTurn
  <2> QED  BY <1>1, <1>6, <2>1 DEF PassedBy, Turn
<1>7. CASE turn.direction = 1 /\ p # 0
  <2>1. NextTurn(turn) = [pn |-> p - 1, direction |-> 1]
    BY <1>2, <1>7 DEF NextTurn
  <2> QED  BY <1>1, <1>7, <2>1 DEF PassedBy, Turn
<1> QED  BY <1>1, <1>3, <1>4, <1>5, <1>6, <1>7

-----------------------------------------------------------------------------
(* Dealing.                                                                *)

\* The view that is dealt in the k-th turn.
Given(list, n, k) == [tuple |-> list[n + 1 - k].tuple, nOnes |-> Cardinality(list[n + 1 - k].tuple)]

\* The views of a list, as the buffers have them.
Cards(list, n) == {Given(list, n, k) : k \in 1 .. n}

\* How task t deals the n views of a list.
Deals(d, list, n, t) ==
  /\ d \in [0 .. n -> [turn : Turn, gbuf : Seq(Cards(list, n))]]
  /\ d[0] = [turn |-> FirstTurn, gbuf |-> <<>>]
  /\ \A k \in 1 .. n :
       d[k] = [turn |-> NextTurn(d[k - 1].turn),
               gbuf |-> IF d[k - 1].turn.pn = t THEN Append(d[k - 1].gbuf, Given(list, n, k)) ELSE d[k - 1].gbuf]

\* It does.
LEMMA DealtIs ==
  ASSUME nTasks \in Nat \ {0}, NEW n \in Nat, NEW S, NEW list \in [1 .. n -> S], NEW t
  PROVE  \E d : Deals(d, list, n, t) /\ Dealt(list, t) = d[n].gbuf
<1> DEFINE W == Cards(list, n)
           V == [turn : Turn, gbuf : Seq(W)]
           v0 == [turn |-> FirstTurn, gbuf |-> <<>>]
           given(at, k) == [turn |-> NextTurn(at.turn),
                            gbuf |-> IF at.turn.pn = t THEN Append(at.gbuf, Given(list, n, k)) ELSE at.gbuf]
           F == [p \in (1 .. n) \X V |-> given(p[2], p[1])]
           Deal(g) == g = [k \in 0 .. n |-> IF k = 0 THEN v0 ELSE given(g[k - 1], k)]
           deal == CHOOSE g : Deal(g)
<1>1. v0 \in V
  BY DEF Turn, FirstTurn
<1>2. \A k \in 1 .. n, v \in V : given(v, k) \in V
  <2> TAKE k \in 1 .. n, v \in V
  <2>1. v.turn \in Turn /\ v.gbuf \in Seq(W) /\ Given(list, n, k) \in W
    BY DEF Cards
  <2> HIDE DEF W
  <2>2. NextTurn(v.turn) \in Turn /\ Append(v.gbuf, Given(list, n, k)) \in Seq(W)
    BY <2>1, TurnGoesOn
  <2> QED  BY <2>1, <2>2
<1>3. \A k \in 1 .. n, v \in V : F[<<k, v>>] = given(v, k)
  OBVIOUS
<1> HIDE DEF V, v0, F, given
<1>4. PICK g : Steps(g, n, V, v0, F)
  <2>1. \A k \in 1 .. n, v \in V : F[<<k, v>>] \in V
    BY <1>2, <1>3
  <2> QED  BY <1>1, <2>1, StepsExist
<1>5. Deal(g)
  <2>1. g = [k \in 0 .. n |-> g[k]] /\ g[0] = v0
    BY <1>4 DEF Steps
  <2>2. ASSUME NEW k \in 0 .. n, k # 0 PROVE g[k] = given(g[k - 1], k)
    <3>1. k \in 1 .. n /\ k - 1 \in 0 .. n
      BY <2>2
    <3> QED  BY <1>3, <1>4, <3>1 DEF Steps
  <2> QED  BY <2>1, <2>2
<1>6. Deal(deal)
  BY <1>5
<1>7. Dealt(list, t) = deal[n].gbuf
  <2>1. Len(list) = n
    OBVIOUS
  <2> QED  BY <2>1 DEF Dealt, deal, given, v0, Given, FirstTurn
<1> HIDE DEF deal
<1>8. deal[0] = v0 /\ \A k \in 1 .. n : deal[k] = given(deal[k - 1], k)
  BY <1>6
<1>9. \A k \in 0 .. n : deal[k] \in V
  <2> HIDE DEF Deal
  <2>1. deal[0] \in V
    BY <1>1, <1>8
  <2>2. \A k \in 1 .. n : deal[k - 1] \in V => deal[k] \in V
    BY <1>2, <1>8
  <2> QED  BY <2>1, <2>2, PassedOn
<1>10. deal \in [0 .. n -> V]
  BY <1>6, <1>9
<1>11. Deals(deal, list, n, t)
  BY <1>8, <1>10 DEF Deals, V, v0, given
<1> QED  BY <1>7, <1>11

\* The turn after k of them.
LEMMA DealsOn ==
  ASSUME NEW n \in Nat, NEW list, NEW t, NEW d, Deals(d, list, n, t), NEW k \in Nat, k + 1 <= n
  PROVE  /\ d[k].turn \in Turn /\ d[k].gbuf \in Seq(Cards(list, n))
         /\ d[k + 1].turn = NextTurn(d[k].turn)
         /\ d[k + 1].gbuf = IF d[k].turn.pn = t THEN Append(d[k].gbuf, Given(list, n, k + 1)) ELSE d[k].gbuf
<1> DEFINE W == Cards(list, n)
<1>1. k \in 0 .. n /\ k + 1 \in 1 .. n /\ (k + 1) - 1 = k
  OBVIOUS
<1>2. d[k] \in [turn : Turn, gbuf : Seq(W)]
  <2>1. d \in [0 .. n -> [turn : Turn, gbuf : Seq(W)]]
    BY DEF Deals
  <2> HIDE DEF W
  <2> QED  BY <1>1, <2>1
<1>3. d[k + 1] = [turn |-> NextTurn(d[(k + 1) - 1].turn),
                  gbuf |-> IF d[(k + 1) - 1].turn.pn = t THEN Append(d[(k + 1) - 1].gbuf, Given(list, n, k + 1))
                           ELSE d[(k + 1) - 1].gbuf]
  <2>1. \A m \in 1 .. n :
          d[m] = [turn |-> NextTurn(d[m - 1].turn),
                  gbuf |-> IF d[m - 1].turn.pn = t THEN Append(d[m - 1].gbuf, Given(list, n, m)) ELSE d[m - 1].gbuf]
    BY DEF Deals
  <2> QED  BY <1>1, <2>1
<1> HIDE DEF W
<1>4. d[k].turn \in Turn /\ d[k].gbuf \in Seq(W)
  BY <1>2
<1>5. (k + 1) - 1 = k
  BY <1>1
<1>6. d[k + 1] = [turn |-> NextTurn(d[k].turn),
                  gbuf |-> IF d[k].turn.pn = t THEN Append(d[k].gbuf, Given(list, n, k + 1)) ELSE d[k].gbuf]
  BY <1>3, <1>5
<1> QED  BY <1>4, <1>6 DEF W

\* The tasks agree on whose turn it is.
LEMMA TurnsAgree ==
  ASSUME NEW n \in Nat, NEW list, NEW t, NEW u, NEW d, NEW e, Deals(d, list, n, t), Deals(e, list, n, u)
  PROVE  \A k \in 0 .. n : d[k].turn = e[k].turn
<1> DEFINE S == {k \in Nat : k <= n => d[k].turn = e[k].turn}
<1>1. 0 \in S
  BY DEF Deals
<1>2. ASSUME NEW k \in S PROVE k + 1 \in S
  <2> SUFFICES ASSUME k + 1 <= n PROVE d[k + 1].turn = e[k + 1].turn
    OBVIOUS
  <2>1. k \in Nat /\ d[k].turn = e[k].turn
    OBVIOUS
  <2>2. d[k + 1].turn = NextTurn(d[k].turn) /\ e[k + 1].turn = NextTurn(e[k].turn)
    <3> HIDE DEF S
    <3> QED  BY <2>1, DealsOn
  <2> QED  BY <2>1, <2>2
<1>3. S = Nat
  <2>1. S \in SUBSET Nat
    OBVIOUS
  <2> HIDE DEF S
  <2> QED  BY <1>1, <1>2, <2>1, AllNumbers
<1> QED  BY <1>3

\* What a task has after k turns: the views of its turns, each once.
HasItsOwn(d, list, n, t, k) ==
  /\ \A i \in 1 .. Len(d[k].gbuf) : \E m \in 1 .. k : d[m - 1].turn.pn = t /\ d[k].gbuf[i] = Given(list, n, m)
  /\ \A m \in 1 .. k : d[m - 1].turn.pn = t => \E i \in 1 .. Len(d[k].gbuf) : d[k].gbuf[i] = Given(list, n, m)
  /\ \A i, j \in 1 .. Len(d[k].gbuf) : d[k].gbuf[i].tuple = d[k].gbuf[j].tuple => i = j

\* It has, when the views of the list are different ones.
LEMMA DealtAreOwn ==
  ASSUME NEW n \in Nat, NEW list, \A i, j \in 1 .. n : list[i].tuple = list[j].tuple => i = j,
         NEW t, NEW d, Deals(d, list, n, t)
  PROVE  \A k \in 0 .. n : HasItsOwn(d, list, n, t, k)
<1> DEFINE S == {k \in Nat : k <= n => HasItsOwn(d, list, n, t, k)}
<1>1. 0 \in S
  <2>1. Len(d[0].gbuf) = 0
    BY DEF Deals
  <2> QED  BY <2>1 DEF HasItsOwn
<1>2. ASSUME NEW k \in S PROVE k + 1 \in S
  <2> SUFFICES ASSUME k + 1 <= n PROVE HasItsOwn(d, list, n, t, k + 1)
    OBVIOUS
  <2>1. k \in Nat /\ k + 1 \in 1 .. n /\ (k + 1) - 1 = k /\ k \in 0 .. n /\ HasItsOwn(d, list, n, t, k)
    OBVIOUS
  <2> DEFINE W == Cards(list, n)
             g == d[k].gbuf
             h == d[k + 1].gbuf
             v == Given(list, n, k + 1)
             mine == d[k].turn.pn = t
  <2>2. g \in Seq(W) /\ v \in W /\ h = IF mine THEN Append(g, v) ELSE g
    <3> HIDE DEF S
    <3>1. v \in W
      BY <2>1 DEF Cards
    <3> QED  BY <2>1, <3>1, DealsOn
  <2>3. CASE ~mine
    <3>1. h = g
      BY <2>2, <2>3
    <3>2. \A m \in 1 .. k + 1 : d[m - 1].turn.pn = t => m \in 1 .. k
      BY <2>1, <2>3
    <3>3. \A m \in 1 .. k : m \in 1 .. k + 1
      BY <2>1
    <3>4. HasItsOwn(d, list, n, t, k)
      BY <2>1
    <3> HIDE DEF S, W, mine, v
    <3>5. \A i \in 1 .. Len(h) : \E m \in 1 .. k + 1 : d[m - 1].turn.pn = t /\ h[i] = Given(list, n, m)
      BY <3>1, <3>3, <3>4 DEF HasItsOwn
    <3>6. \A m \in 1 .. k + 1 : d[m - 1].turn.pn = t => \E i \in 1 .. Len(h) : h[i] = Given(list, n, m)
      BY <3>1, <3>2, <3>4 DEF HasItsOwn
    <3>7. \A i, j \in 1 .. Len(h) : h[i].tuple = h[j].tuple => i = j
      BY <3>1, <3>4 DEF HasItsOwn
    <3> QED  BY <3>5, <3>6, <3>7 DEF HasItsOwn
  <2>4. CASE mine
    <3>1. /\ Len(h) = Len(g) + 1 /\ Len(g) \in Nat
          /\ h[Len(g) + 1] = v
          /\ \A i \in 1 .. Len(g) : h[i] = g[i]
      <4> HIDE DEF W, v
      <4> QED  BY <2>2, <2>4
    <3> HIDE DEF W, g, h, v
    <3>2. /\ \A i \in 1 .. Len(g) : \E m \in 1 .. k : d[m - 1].turn.pn = t /\ g[i] = Given(list, n, m)
          /\ \A m \in 1 .. k : d[m - 1].turn.pn = t => \E i \in 1 .. Len(g) : g[i] = Given(list, n, m)
          /\ \A i, j \in 1 .. Len(g) : g[i].tuple = g[j].tuple => i = j
      BY <2>1 DEF HasItsOwn, g
    <3>3. ASSUME NEW i \in 1 .. Len(h)
          PROVE  \E m \in 1 .. k + 1 : d[m - 1].turn.pn = t /\ h[i] = Given(list, n, m)
      <4>1. CASE i = Len(g) + 1
        BY <2>1, <2>4, <3>1, <4>1 DEF v
      <4>2. CASE i # Len(g) + 1
        <5>1. i \in 1 .. Len(g)
          BY <3>1, <4>2
        <5>2. PICK m \in 1 .. k : d[m - 1].turn.pn = t /\ g[i] = Given(list, n, m)
          BY <3>2, <5>1
        <5>3. m \in 1 .. k + 1
          BY <2>1
        <5> QED  BY <3>1, <5>1, <5>2, <5>3
      <4> QED  BY <4>1, <4>2
    <3>4. ASSUME NEW m \in 1 .. k + 1, d[m - 1].turn.pn = t
          PROVE  \E i \in 1 .. Len(h) : h[i] = Given(list, n, m)
      <4>1. CASE m = k + 1
        <5>1. Len(g) + 1 \in 1 .. Len(h)
          BY <3>1
        <5> QED  BY <3>1, <4>1, <5>1 DEF v
      <4>2. CASE m # k + 1
        <5>1. m \in 1 .. k
          BY <2>1, <4>2
        <5>2. PICK i \in 1 .. Len(g) : g[i] = Given(list, n, m)
          BY <3>2, <3>4, <5>1
        <5>3. i \in 1 .. Len(h)
          BY <3>1
        <5> QED  BY <3>1, <5>2, <5>3
      <4> QED  BY <4>1, <4>2
    <3>5. ASSUME NEW i \in 1 .. Len(g) PROVE g[i].tuple # v.tuple
      <4>1. PICK m \in 1 .. k : g[i] = Given(list, n, m)
        BY <3>2
      <4>2. n + 1 - m \in 1 .. n /\ n + 1 - (k + 1) \in 1 .. n /\ n + 1 - m # n + 1 - (k + 1)
        BY <2>1
      <4>3. list[n + 1 - m].tuple # list[n + 1 - (k + 1)].tuple
        BY <4>2
      <4>4. g[i].tuple = list[n + 1 - m].tuple /\ v.tuple = list[n + 1 - (k + 1)].tuple
        BY <4>1 DEF Given, v
      <4> QED  BY <4>3, <4>4
    <3>6. ASSUME NEW i \in 1 .. Len(h), NEW j \in 1 .. Len(h), h[i].tuple = h[j].tuple PROVE i = j
      <4>1. /\ i = Len(g) + 1 \/ (i \in 1 .. Len(g) /\ h[i] = g[i])
            /\ j = Len(g) + 1 \/ (j \in 1 .. Len(g) /\ h[j] = g[j])
        BY <3>1
      <4> QED  BY <3>1, <3>2, <3>5, <3>6, <4>1
    <3> QED  BY <3>3, <3>4, <3>6 DEF HasItsOwn, h
  <2> QED  BY <2>3, <2>4
<1>3. S = Nat
  <2>1. S \in SUBSET Nat
    OBVIOUS
  <2> HIDE DEF S
  <2> QED  BY <1>1, <1>2, <2>1, AllNumbers
<1> QED  BY <1>3

\* All tasks deal the list.
DealTogether(D, list, n) == \A t \in 0 .. nTasks - 1 : Deals(D[t], list, n, t)

\* After k turns each has q views, or q + 1.
EvenAfter(D, k) == \E q \in Nat : \A t \in 0 .. nTasks - 1 :
  Len(D[t][k].gbuf) = IF t \in PassedBy(D[0][k].turn) THEN q + 1 ELSE q

\* No task has two views more than another: all have those of the ways that are
\* over, and the tasks passed by one more.
LEMMA DealtEvenly ==
  ASSUME nTasks \in Nat \ {0}, NEW n \in Nat, NEW list,
         NEW D, DealTogether(D, list, n)
  PROVE  \A k \in 0 .. n : EvenAfter(D, k)
<1> DEFINE T == 0 .. nTasks - 1
           S == {k \in Nat : k <= n => EvenAfter(D, k)}
<1>0. 0 \in T /\ Deals(D[0], list, n, 0) /\ \A t \in T : Deals(D[t], list, n, t)
  BY DEF DealTogether
<1>1. 0 \in S
  <2>1. PassedBy(D[0][0].turn) = {}
    <3>1. D[0][0].turn = FirstTurn
      BY <1>0 DEF Deals
    <3> QED  BY <3>1 DEF PassedBy, FirstTurn
  <2>2. \A t \in T : Len(D[t][0].gbuf) = 0
    <3>1. \A t \in T : D[t][0] = [turn |-> FirstTurn, gbuf |-> <<>>]
      BY <1>0 DEF Deals
    <3> QED  BY <3>1
  <2> QED  BY <2>1, <2>2 DEF EvenAfter
<1>2. ASSUME NEW k \in S PROVE k + 1 \in S
  <2>0. k \in Nat /\ (k <= n => EvenAfter(D, k))
    OBVIOUS
  <2> SUFFICES ASSUME k + 1 <= n PROVE EvenAfter(D, k + 1)
    BY <2>0
  <2>1. k \in Nat /\ k + 1 \in 1 .. n /\ k \in 0 .. n /\ EvenAfter(D, k)
    BY <2>0
  <2> DEFINE now == D[0][k].turn
             next == D[0][k + 1].turn
  <2>2. PICK q \in Nat : \A t \in T : Len(D[t][k].gbuf) = IF t \in PassedBy(now) THEN q + 1 ELSE q
    BY <2>1 DEF EvenAfter
  <2>3. now \in Turn /\ next = NextTurn(now)
    <3> HIDE DEF S
    <3>1. D[0][k].turn \in Turn /\ D[0][k + 1].turn = NextTurn(D[0][k].turn)
      BY <1>0, <2>1, DealsOn
    <3> QED  BY <3>1
  <2>4. ASSUME NEW t \in T
        PROVE  Len(D[t][k + 1].gbuf) = IF t = now.pn THEN Len(D[t][k].gbuf) + 1 ELSE Len(D[t][k].gbuf)
    <3>0. Deals(D[t], list, n, t)
      BY <1>0
    <3>1. D[t][k].turn = now
      BY <1>0, <2>1, <3>0, TurnsAgree
    <3>2. /\ D[t][k].gbuf \in Seq(Cards(list, n))
          /\ D[t][k + 1].gbuf = IF now.pn = t THEN Append(D[t][k].gbuf, Given(list, n, k + 1)) ELSE D[t][k].gbuf
      <4> HIDE DEF S, now
      <4> QED  BY <2>1, <3>0, <3>1, DealsOn
    <3> HIDE DEF now
    <3> QED  BY <3>2
  <2> HIDE DEF now, next
  <2>5. /\ now.pn \in T /\ now.pn \notin PassedBy(now)
        /\ \/ PassedBy(next) = PassedBy(now) \cup {now.pn}
           \/ T = PassedBy(now) \cup {now.pn} /\ PassedBy(next) = {}
    BY <2>3, TurnGoesOn
  <2> HIDE DEF T
  <2>6. \A t \in T : Len(D[t][k + 1].gbuf) = IF t \in PassedBy(now) \cup {now.pn} THEN q + 1 ELSE q
    BY <2>2, <2>4, <2>5
  <2>7. CASE PassedBy(next) = PassedBy(now) \cup {now.pn}
    BY <2>6, <2>7 DEF next, EvenAfter, T
  <2>8. CASE T = PassedBy(now) \cup {now.pn} /\ PassedBy(next) = {}
    <3>1. \A t \in T : Len(D[t][k + 1].gbuf) = q + 1
      BY <2>6, <2>8
    <3>2. q + 1 \in Nat
      OBVIOUS
    <3> QED  BY <2>8, <3>1, <3>2 DEF next, EvenAfter, T
  <2> QED  BY <2>5, <2>7, <2>8
<1>3. S = Nat
  <2>1. S \in SUBSET Nat
    OBVIOUS
  <2> HIDE DEF S
  <2> QED  BY <1>1, <1>2, <2>1, AllNumbers
<1> QED  BY <1>3

-----------------------------------------------------------------------------
(* The jobs of the tasks.                                                  *)

\* There is a task.
LEMMA TasksAre == ASSUME run \in Runs PROVE nTasks \in Nat \ {0}
<1> DEFINE a == run.threads
           b == MAX_NUMBER_OF_TASKS
<1>1. a \in Nat \ {0} /\ b \in Nat \ {0}
  BY RunsAssumption
<1> HIDE DEF a, b
<1>2. PICK x \in {a, b} : \A y \in {a, b} : x <= y
  <2>1. CASE a <= b
    BY <1>1, <2>1
  <2>2. CASE ~(a <= b)
    BY <1>1, <2>2
  <2> QED  BY <2>1, <2>2
<1>3. Min({a, b}) \in {a, b}
  BY <1>2 DEF Min
<1>4. Min({a, b}) \in Nat \ {0}
  BY <1>1, <1>3
<1> QED  BY <1>4 DEF nTasks, a, b

\* The views that are dealt to task t.
DealtTo(d, list, n, t) == {list[n + 1 - m].tuple : m \in {k \in 1 .. n : d[k - 1].turn.pn = t}}

\* The file of task t has the views that are dealt to it, each once.
JobsFit(d, list, n, t) ==
  LET jobs == MultiFileProcJobs(list, t)
      m == Len(d[n].gbuf)
  IN  /\ Deals(d, list, n, t)
      /\ m \in Nat /\ jobs \in [1 .. m -> Cards(list, n)]
      /\ {jobs[i].tuple : i \in 1 .. m} = DealtTo(d, list, n, t)
      /\ \A i, j \in 1 .. m : jobs[i].tuple = jobs[j].tuple => i = j

\* It has.
LEMMA JobsAre ==
  ASSUME nTasks \in Nat \ {0}, NEW n \in Nat, NEW S, NEW list \in [1 .. n -> S],
         \A i, j \in 1 .. n : list[i].tuple = list[j].tuple => i = j, NEW t
  PROVE  \E d : JobsFit(d, list, n, t)
<1>1. PICK d : Deals(d, list, n, t) /\ Dealt(list, t) = d[n].gbuf
  BY DealtIs
<1> DEFINE g == d[n].gbuf
           m == Len(g)
           h == HeapSort(g, "nOnes")
           jobs == MultiFileProcJobs(list, t)
<1>2. HasItsOwn(d, list, n, t, n)
  BY <1>1, DealtAreOwn
<1>3. g \in Seq(Cards(list, n))
  <2>1. d \in [0 .. n -> [turn : Turn, gbuf : Seq(Cards(list, n))]]
    BY <1>1 DEF Deals
  <2> QED  BY <2>1
<1>4. m \in Nat /\ g \in [1 .. m -> Cards(list, n)]
  BY <1>3
<1>5. \A i, j \in 1 .. m : g[i].tuple = g[j].tuple => i = j
  BY <1>2 DEF HasItsOwn
<1>6. jobs = Reverse(h)
  BY <1>1 DEF MultiFileProcJobs
<1>7. {g[i].tuple : i \in 1 .. m} = DealtTo(d, list, n, t)
  <2>1. ASSUME NEW i \in 1 .. m PROVE g[i].tuple \in DealtTo(d, list, n, t)
    <3>1. PICK k \in 1 .. n : d[k - 1].turn.pn = t /\ g[i] = Given(list, n, k)
      BY <1>2 DEF HasItsOwn
    <3>2. g[i].tuple = list[n + 1 - k].tuple
      BY <3>1 DEF Given
    <3> QED  BY <3>1, <3>2 DEF DealtTo
  <2>2. ASSUME NEW k \in 1 .. n, d[k - 1].turn.pn = t
        PROVE  list[n + 1 - k].tuple \in {g[i].tuple : i \in 1 .. m}
    <3>1. PICK i \in 1 .. m : g[i] = Given(list, n, k)
      BY <1>2, <2>2 DEF HasItsOwn
    <3>2. g[i].tuple = list[n + 1 - k].tuple
      BY <3>1 DEF Given
    <3> QED  BY <3>2
  <2>3. \A e \in DealtTo(d, list, n, t) : e \in {g[i].tuple : i \in 1 .. m}
    <3> HIDE DEF g, m
    <3> QED  BY <2>2 DEF DealtTo
  <2> QED  BY <2>1, <2>3
<1>8. h \in Arrangements(g, m)
  <2>1. \A i, j \in 1 .. m : g[i] = g[j] => i = j
    BY <1>5
  <2> HIDE DEF g, m
  <2> QED  BY <1>4, <2>1, HeapSortArranges
<1> HIDE DEF g, h, jobs
<1>9. /\ h \in [1 .. m -> Cards(list, n)]
      /\ \A k \in 1 .. m : \E i \in 1 .. m : h[k] = g[i]
      /\ \A i \in 1 .. m : \E k \in 1 .. m : h[k] = g[i]
      /\ \A i, j \in 1 .. m : h[i] = h[j] => i = j
  <2> HIDE DEF m
  <2>1. /\ h \in [1 .. m -> {g[i] : i \in 1 .. m}]
        /\ \A k \in 1 .. m : \E i \in 1 .. m : h[k] = g[i]
        /\ \A i \in 1 .. m : \E k \in 1 .. m : h[k] = g[i]
        /\ \A i, j \in 1 .. m : h[i] = h[j] => i = j
    <3>1. m \in Nat /\ h \in Arrangements(g, m)
      BY <1>4, <1>8
    <3>2. h \in [1 .. m -> {g[i] : i \in 1 .. m}]
      BY <3>1 DEF Arrangements
    <3>3. \A k \in 1 .. m : h[k] \in {g[i] : i \in 1 .. m}
      BY <3>2
    <3> QED  BY <3>1, <3>2, <3>3 DEF Arrangements
  <2>2. {g[i] : i \in 1 .. m} \subseteq Cards(list, n)
    BY <1>4
  <2> QED  BY <2>1, <2>2
<1> HIDE DEF m
<1>10. \A i, j \in 1 .. m : h[i].tuple = h[j].tuple => i = j
  <2> SUFFICES ASSUME NEW i \in 1 .. m, NEW j \in 1 .. m, h[i].tuple = h[j].tuple PROVE i = j
    OBVIOUS
  <2>1. PICK a \in 1 .. m : h[i] = g[a]
    BY <1>9
  <2>2. PICK b \in 1 .. m : h[j] = g[b]
    BY <1>9
  <2>3. a = b
    BY <1>5, <2>1, <2>2
  <2>4. h[i] = h[j]
    BY <2>1, <2>2, <2>3
  <2> QED  BY <1>9, <2>4
<1>11. jobs = [i \in 1 .. m |-> h[m + 1 - i]]
  <2>1. Len(h) = m
    BY <1>4, <1>9
  <2>2. \A i : m - i + 1 = m + 1 - i \/ i \notin 1 .. m
    BY <1>4
  <2> QED  BY <1>4, <1>6, <2>1, <2>2 DEF Reverse
<1>12. \A i \in 1 .. m : m + 1 - i \in 1 .. m /\ m + 1 - (m + 1 - i) = i
  BY <1>4
<1>13. {jobs[i].tuple : i \in 1 .. m} = {g[i].tuple : i \in 1 .. m}
  <2>1. ASSUME NEW i \in 1 .. m PROVE jobs[i].tuple \in {g[k].tuple : k \in 1 .. m}
    <3>1. m + 1 - i \in 1 .. m /\ jobs[i] = h[m + 1 - i]
      BY <1>11, <1>12
    <3>2. PICK k \in 1 .. m : h[m + 1 - i] = g[k]
      BY <1>9, <3>1
    <3> QED  BY <3>1, <3>2
  <2>2. ASSUME NEW k \in 1 .. m PROVE g[k].tuple \in {jobs[i].tuple : i \in 1 .. m}
    <3>1. PICK i \in 1 .. m : h[i] = g[k]
      BY <1>9
    <3>2. jobs[m + 1 - i] = g[k] /\ m + 1 - i \in 1 .. m
      BY <1>11, <1>12, <3>1
    <3> QED  BY <3>2
  <2> QED  BY <2>1, <2>2
<1>14. \A i, j \in 1 .. m : jobs[i].tuple = jobs[j].tuple => i = j
  <2> SUFFICES ASSUME NEW i \in 1 .. m, NEW j \in 1 .. m, jobs[i].tuple = jobs[j].tuple PROVE i = j
    OBVIOUS
  <2>1. h[m + 1 - i].tuple = h[m + 1 - j].tuple /\ m + 1 - i \in 1 .. m /\ m + 1 - j \in 1 .. m
    BY <1>11, <1>12
  <2>2. m + 1 - i = m + 1 - j
    BY <1>10, <2>1
  <2> QED  BY <1>4, <2>2
<1>15. jobs \in [1 .. m -> Cards(list, n)]
  BY <1>9, <1>11, <1>12
<1> QED  BY <1>1, <1>4, <1>7, <1>13, <1>14, <1>15 DEF JobsFit, m, g, jobs

\* What PartitionCube() deals.
Listed == [n \in 1 .. Len(viewSizes) |->
             [tuple |-> viewSizes[n].sel, viewsize |-> Min({viewSizes[n].size, par.tuplenum})]]
Pool == HeapSort(Listed, "viewsize")

\* It is the views that are asked for, each once.
LEMMA PoolIs ==
  ASSUME par.dim \in Nat \ {0}, viewSizes = CalculateVeiwSizes(par)
  PROVE  \E n, S : /\ n \in Nat
                   /\ Pool \in [1 .. n -> S]
                   /\ \A i, j \in 1 .. n : Pool[i].tuple = Pool[j].tuple => i = j
                   /\ {Pool[i].tuple : i \in 1 .. n} = Asked
<1>1. PICK n, S :
        /\ n \in Nat
        /\ viewSizes \in [1 .. n -> S]
        /\ \A i, j \in 1 .. n : viewSizes[i].sel = viewSizes[j].sel => i = j
  <2>1. \E n, S :
          /\ n \in Nat
          /\ CalculateVeiwSizes(par) \in [1 .. n -> S]
          /\ \A i, j \in 1 .. n : CalculateVeiwSizes(par)[i].sel = CalculateVeiwSizes(par)[j].sel => i = j
    BY ViewsApart
  <2> QED  BY <2>1
<1>2. Len(viewSizes) = n /\ DOMAIN viewSizes = 1 .. n
  BY <1>1
<1> DEFINE x == Listed
           V == {x[i] : i \in 1 .. n}
<1>3. x = [i \in 1 .. n |-> [tuple |-> viewSizes[i].sel, viewsize |-> Min({viewSizes[i].size, par.tuplenum})]]
  BY <1>2 DEF Listed
<1> HIDE DEF x
<1>4. x \in [1 .. n -> V] /\ \A i \in 1 .. n : x[i].tuple = viewSizes[i].sel
  BY <1>3
<1>5. ASSUME NEW i \in 1 .. n, NEW j \in 1 .. n, x[i] = x[j] PROVE i = j
  <2>1. viewSizes[i].sel = viewSizes[j].sel
    BY <1>4, <1>5
  <2> QED  BY <1>1, <2>1
<1>6. Pool \in Arrangements(x, n)
  <2> HIDE DEF V
  <2>1. HeapSort(x, "viewsize") \in Arrangements(x, n)
    BY <1>1, <1>4, <1>5, HeapSortArranges
  <2> QED  BY <2>1 DEF Pool, x
<1>7. /\ Pool \in [1 .. n -> V]
      /\ \A k \in 1 .. n : \E i \in 1 .. n : Pool[k] = x[i]
      /\ \A i \in 1 .. n : \E k \in 1 .. n : Pool[k] = x[i]
      /\ \A i, j \in 1 .. n : Pool[i] = Pool[j] => i = j
  <2>1. Pool \in [1 .. n -> V]
    BY <1>6 DEF Arrangements
  <2>2. \A k \in 1 .. n : Pool[k] \in V
    BY <2>1
  <2> QED  BY <1>6, <2>1, <2>2 DEF Arrangements
<1>8. ASSUME NEW i \in 1 .. n, NEW j \in 1 .. n, Pool[i].tuple = Pool[j].tuple PROVE i = j
  <2>1. PICK a \in 1 .. n : Pool[i] = x[a]
    BY <1>7
  <2>2. PICK b \in 1 .. n : Pool[j] = x[b]
    BY <1>7
  <2>3. viewSizes[a].sel = viewSizes[b].sel
    BY <1>4, <1>8, <2>1, <2>2
  <2>4. a = b
    BY <1>1, <2>3
  <2>5. Pool[i] = Pool[j]
    BY <2>1, <2>2, <2>4
  <2> QED  BY <1>7, <2>5
<1>9. {Pool[i].tuple : i \in 1 .. n} = Asked
  <2>1. Asked = {viewSizes[k].sel : k \in 1 .. n}
    BY <1>2 DEF Asked
  <2>2. ASSUME NEW i \in 1 .. n PROVE Pool[i].tuple \in {viewSizes[k].sel : k \in 1 .. n}
    <3>1. PICK k \in 1 .. n : Pool[i] = x[k]
      BY <1>7
    <3>2. Pool[i].tuple = viewSizes[k].sel
      BY <1>4, <3>1
    <3> QED  BY <3>2
  <2>3. ASSUME NEW k \in 1 .. n PROVE viewSizes[k].sel \in {Pool[i].tuple : i \in 1 .. n}
    <3>1. PICK i \in 1 .. n : Pool[i] = x[k]
      BY <1>7
    <3>2. Pool[i].tuple = viewSizes[k].sel
      BY <1>4, <3>1
    <3> QED  BY <3>2
  <2> QED  BY <2>1, <2>2, <2>3
<1> HIDE DEF V
<1> QED  BY <1>1, <1>7, <1>8, <1>9

\* The views that task t is to make.
Share(t) == {MultiFileProcJobs(Pool, t)[i].tuple : i \in DOMAIN MultiFileProcJobs(Pool, t)}

\* Of the shares of the tasks all views are made up, none is in two of them, and
\* none has two views more than another.
LEMMA SharesAreFair ==
  ASSUME nTasks \in Nat \ {0}, par.dim \in Nat \ {0}, viewSizes = CalculateVeiwSizes(par)
  PROVE  /\ \A t : \E S : MultiFileProcJobs(Pool, t) \in Seq(S)
         /\ \A t, u : t # u => Share(t) \cap Share(u) = {}
         /\ \A t : Share(t) \subseteq Asked
         /\ \A v \in Asked : \E t \in 0 .. nTasks - 1 : v \in Share(t)
         /\ \A t, u \in 0 .. nTasks - 1 : Cardinality(Share(t)) - Cardinality(Share(u)) \in -1 .. 1
<1>1. PICK n, S : /\ n \in Nat
                  /\ Pool \in [1 .. n -> S]
                  /\ \A i, j \in 1 .. n : Pool[i].tuple = Pool[j].tuple => i = j
                  /\ {Pool[i].tuple : i \in 1 .. n} = Asked
  BY PoolIs
<1> DEFINE e(t) == CHOOSE d : JobsFit(d, Pool, n, t)
           T == 0 .. nTasks - 1
           D == [t \in T |-> e(t)]
<1>2. ASSUME NEW t PROVE JobsFit(e(t), Pool, n, t)
  <2>1. \E d : JobsFit(d, Pool, n, t)
    BY <1>1, JobsAre
  <2> QED  BY <2>1
<1> HIDE DEF e
<1>3. ASSUME NEW t PROVE Share(t) = DealtTo(e(t), Pool, n, t)
  <2>1. DOMAIN MultiFileProcJobs(Pool, t) = 1 .. Len(e(t)[n].gbuf)
    BY <1>2 DEF JobsFit
  <2> QED  BY <1>2, <2>1 DEF Share, JobsFit
<1>4. ASSUME NEW t, NEW u PROVE \A k \in 0 .. n : e(t)[k].turn = e(u)[k].turn
  <2>1. Deals(e(t), Pool, n, t) /\ Deals(e(u), Pool, n, u)
    BY <1>2 DEF JobsFit
  <2>2. n \in Nat
    BY <1>1
  <2> QED  BY <2>1, <2>2, TurnsAgree
<1> DEFINE turn(k) == e(0)[k - 1].turn.pn
<1>5. ASSUME NEW t PROVE Share(t) = {Pool[n + 1 - m].tuple : m \in {k \in 1 .. n : turn(k) = t}}
  <2>1. \A k \in 1 .. n : e(t)[k - 1].turn.pn = turn(k)
    <3>1. \A k \in 1 .. n : k - 1 \in 0 .. n
      BY <1>1
    <3> QED  BY <1>4, <3>1
  <2> HIDE DEF turn
  <2> QED  BY <1>3, <2>1 DEF DealtTo
<1>6. \A k \in 1 .. n : n + 1 - k \in 1 .. n /\ n + 1 - (n + 1 - k) = k
  BY <1>1
<1>7. ASSUME NEW k \in 1 .. n PROVE turn(k) \in T
  <2>1. e(0) \in [0 .. n -> [turn : Turn, gbuf : Seq(Cards(Pool, n))]]
    BY <1>2 DEF JobsFit, Deals
  <2>2. k - 1 \in 0 .. n
    BY <1>1
  <2>3. e(0)[k - 1].turn \in Turn
    BY <2>1, <2>2
  <2> QED  BY <2>3 DEF Turn
<1> HIDE DEF turn
<1>8. ASSUME NEW t PROVE \E Q : MultiFileProcJobs(Pool, t) \in Seq(Q)
  <2>1. PICK m \in Nat : MultiFileProcJobs(Pool, t) \in [1 .. m -> Cards(Pool, n)]
    BY <1>2 DEF JobsFit
  <2>2. MultiFileProcJobs(Pool, t) \in Seq(Cards(Pool, n))
    BY <2>1
  <2> QED  BY <2>2
<1>9. ASSUME NEW t, NEW u, t # u PROVE Share(t) \cap Share(u) = {}
  <2> SUFFICES ASSUME NEW v, v \in Share(t), v \in Share(u) PROVE FALSE
    OBVIOUS
  <2>1. PICK a \in 1 .. n : turn(a) = t /\ v = Pool[n + 1 - a].tuple
    BY <1>5
  <2>2. PICK b \in 1 .. n : turn(b) = u /\ v = Pool[n + 1 - b].tuple
    BY <1>5
  <2>3. n + 1 - a = n + 1 - b
    <3>1. n + 1 - a \in 1 .. n /\ n + 1 - b \in 1 .. n
      BY <1>6
    <3>2. Pool[n + 1 - a].tuple = Pool[n + 1 - b].tuple
      BY <2>1, <2>2
    <3> QED  BY <1>1, <3>1, <3>2
  <2>4. a = b
    BY <1>6, <2>3
  <2> QED  BY <1>9, <2>1, <2>2, <2>4
<1>10. ASSUME NEW t PROVE Share(t) \subseteq Asked
  <2>1. \A k \in 1 .. n : Pool[n + 1 - k].tuple \in Asked
    BY <1>1, <1>6
  <2> QED  BY <1>5, <2>1
<1>11. ASSUME NEW v \in Asked PROVE \E t \in T : v \in Share(t)
  <2>1. PICK i \in 1 .. n : v = Pool[i].tuple
    BY <1>1
  <2> DEFINE k == n + 1 - i
  <2>2. k \in 1 .. n /\ v = Pool[n + 1 - k].tuple
    BY <1>6, <2>1
  <2> HIDE DEF k
  <2>3. v \in {Pool[n + 1 - m].tuple : m \in {j \in 1 .. n : turn(j) = turn(k)}}
    BY <2>2
  <2>4. v \in Share(turn(k))
    BY <1>5, <2>3
  <2> QED  BY <1>7, <2>2, <2>4
<1>12. ASSUME NEW t \in T PROVE Cardinality(Share(t)) = Len(D[t][n].gbuf)
  <2> DEFINE jobs == MultiFileProcJobs(Pool, t)
             m == Len(e(t)[n].gbuf)
             f == [i \in 1 .. m |-> jobs[i].tuple]
  <2>1. /\ m \in Nat /\ jobs \in [1 .. m -> Cards(Pool, n)]
        /\ \A i, j \in 1 .. m : jobs[i].tuple = jobs[j].tuple => i = j
    BY <1>2 DEF JobsFit
  <2>2. Share(t) = {jobs[i].tuple : i \in 1 .. m}
    BY <2>1 DEF Share
  <2> HIDE DEF m, jobs
  <2>3. f \in Bijection(1 .. m, Share(t))
    BY <2>1, <2>2 DEF Bijection, Injection, Surjection, IsInjective
  <2> HIDE DEF f
  <2>4. IsFiniteSet(1 .. m) /\ Cardinality(1 .. m) = m
    BY <2>1, FS_Interval
  <2>5. Cardinality(Share(t)) = m
    BY <2>3, <2>4, FS_Bijection DEF ExistsBijection
  <2> QED  BY <2>5 DEF m
<1>13. ASSUME NEW t \in T, NEW u \in T PROVE Cardinality(Share(t)) - Cardinality(Share(u)) \in -1 .. 1
  <2>1. DealTogether(D, Pool, n)
    BY <1>2 DEF DealTogether, JobsFit
  <2> HIDE DEF D
  <2>2. PICK q \in Nat : \A w \in T : Len(D[w][n].gbuf) = IF w \in PassedBy(D[0][n].turn) THEN q + 1 ELSE q
    <3>1. n \in 0 .. n
      BY <1>1
    <3>2. EvenAfter(D, n)
      BY <1>1, <2>1, <3>1, DealtEvenly
    <3> QED  BY <3>2 DEF EvenAfter
  <2> HIDE DEF T
  <2>3. Cardinality(Share(t)) \in {q, q + 1} /\ Cardinality(Share(u)) \in {q, q + 1}
    BY <1>12, <2>2
  <2> DEFINE a == Cardinality(Share(t))
             b == Cardinality(Share(u))
  <2>4. a \in {q, q + 1} /\ b \in {q, q + 1}
    BY <2>3
  <2> HIDE DEF a, b
  <2>5. a - b \in -1 .. 1
    BY <2>4
  <2> QED  BY <2>5 DEF a, b
<1> QED  BY <1>8, <1>9, <1>10, <1>11, <1>13

-----------------------------------------------------------------------------
(* The invariant.                                                          *)

\* A list in a file.
IsFile(s) == s \in Seq({s[i] : i \in DOMAIN s})

\* The lists of a task: nothing is made before its views are dealt to it, and
\* from then on those made and those to be made are its share.
TaskInv(t) ==
  /\ {"pc", "groupbyFile", "viewSizesFile"} \subseteq DOMAIN adccntl[t]
  /\ IsFile(adccntl[t].groupbyFile) /\ IsFile(adccntl[t].viewSizesFile)
  /\ adccntl[t].pc = "new" => adccntl[t].viewSizesFile = <<>>
  /\ adccntl[t].pc # "new" => phase # "generate" /\ MadeBy(t) \cup ToMakeBy(t) = Share(t)

CubeInv ==
  /\ run \in Runs /\ par = Parameters(run)
  /\ phase # "generate" => viewSizes = CalculateVeiwSizes(par)
  /\ adccntl = [t \in Team |-> adccntl[t]]
  /\ \A t \in Team : TaskInv(t)

LEMMA FileIs == ASSUME NEW S, NEW s \in Seq(S) PROVE IsFile(s)
<1>1. s \in [1 .. Len(s) -> {s[i] : i \in 1 .. Len(s)}] /\ DOMAIN s = 1 .. Len(s) /\ Len(s) \in Nat
  OBVIOUS
<1>2. s \in Seq({s[i] : i \in 1 .. Len(s)})
  <2> DEFINE R == {s[i] : i \in 1 .. Len(s)}
             n == Len(s)
  <2>1. n \in Nat /\ s \in [1 .. n -> R]
    BY <1>1
  <2> HIDE DEF R, n
  <2>2. s \in Seq(R)
    BY <2>1
  <2> QED  BY <2>2 DEF R
<1> QED  BY <1>1, <1>2 DEF IsFile

\* The first of a list is taken from it.
LEMMA FirstTaken ==
  ASSUME NEW s, IsFile(s), s # <<>>
  PROVE  /\ IsFile(Tail(s))
         /\ {s[i].tuple : i \in DOMAIN s} = {Head(s).tuple} \cup {Tail(s)[i].tuple : i \in DOMAIN Tail(s)}
<1> DEFINE S == {s[i] : i \in DOMAIN s}
           n == Len(s)
<1>1. s \in Seq(S)
  BY DEF IsFile
<1> HIDE DEF S
<1>2. Tail(s) \in Seq(S) /\ n \in Nat /\ n # 0 /\ Head(s) = s[1] /\ Len(Tail(s)) = n - 1
  BY <1>1
<1>3. DOMAIN s = 1 .. n /\ DOMAIN Tail(s) = 1 .. n - 1 /\ \A i \in 1 .. n - 1 : Tail(s)[i] = s[i + 1]
  BY <1>1
<1> HIDE DEF n
<1>4. IsFile(Tail(s))
  BY <1>2, FileIs
<1>5. ASSUME NEW i \in 1 .. n PROVE s[i].tuple \in {s[1].tuple} \cup {Tail(s)[k].tuple : k \in 1 .. n - 1}
  <2>1. CASE i = 1
    BY <2>1
  <2>2. CASE i # 1
    <3>1. i - 1 \in 1 .. n - 1 /\ (i - 1) + 1 = i
      BY <1>2, <2>2
    <3>2. Tail(s)[i - 1] = s[i]
      BY <1>3, <3>1
    <3> QED  BY <3>1, <3>2
  <2> QED  BY <2>1, <2>2
<1>6. ASSUME NEW k \in 1 .. n - 1 PROVE Tail(s)[k].tuple \in {s[i].tuple : i \in 1 .. n}
  <2>1. k + 1 \in 1 .. n
    BY <1>2
  <2> QED  BY <1>3, <2>1
<1>7. s[1].tuple \in {s[i].tuple : i \in 1 .. n}
  BY <1>2
<1>8. {s[i].tuple : i \in 1 .. n} = {s[1].tuple} \cup {Tail(s)[k].tuple : k \in 1 .. n - 1}
  BY <1>5, <1>6, <1>7
<1> QED  BY <1>2, <1>3, <1>4, <1>8

\* The views a list of entries is about.
ViewsIn(s) == {s[i].view : i \in DOMAIN s}

\* An entry is written at the end of one.
LEMMA EntryWritten ==
  ASSUME NEW s, IsFile(s), NEW e
  PROVE  /\ IsFile(Append(s, e))
         /\ ViewsIn(Append(s, e)) = ViewsIn(s) \cup {e.view}
<1> DEFINE S == {s[i] : i \in DOMAIN s} \cup {e}
           n == Len(s)
           a == Append(s, e)
<1>1. s \in Seq(S)
  BY DEF IsFile
<1>2. e \in S
  OBVIOUS
<1> HIDE DEF S
<1>3. /\ a \in Seq(S) /\ n \in Nat /\ DOMAIN s = 1 .. n /\ DOMAIN a = 1 .. n + 1
      /\ \A i \in 1 .. n : a[i] = s[i]
      /\ a[n + 1] = e
  BY <1>1, <1>2
<1> HIDE DEF n, a
<1>4. IsFile(a)
  BY <1>3, FileIs
<1>5. ASSUME NEW i \in 1 .. n + 1 PROVE a[i].view \in {s[k].view : k \in 1 .. n} \cup {e.view}
  <2>1. CASE i = n + 1
    BY <1>3, <2>1
  <2>2. CASE i # n + 1
    <3>1. i \in 1 .. n
      BY <1>3, <2>2
    <3> QED  BY <1>3, <3>1
  <2> QED  BY <2>1, <2>2
<1>6. ASSUME NEW k \in 1 .. n PROVE s[k].view \in {a[i].view : i \in 1 .. n + 1}
  <2>1. k \in 1 .. n + 1
    BY <1>3
  <2> QED  BY <1>3, <2>1
<1>7. e.view \in {a[i].view : i \in 1 .. n + 1}
  <2>1. n + 1 \in 1 .. n + 1
    BY <1>3
  <2> QED  BY <1>3, <2>1
<1>8. {a[i].view : i \in 1 .. n + 1} = {s[k].view : k \in 1 .. n} \cup {e.view}
  BY <1>5, <1>6, <1>7
<1> QED  BY <1>3, <1>4, <1>8 DEF a, ViewsIn

\* The shares stay the same.
LEMMA SharesStay ==
  ASSUME run' = run, par' = par, viewSizes' = viewSizes, NEW t
  PROVE  Share(t)' = Share(t)
BY DEF Share, MultiFileProcJobs, Dealt, NextTurn, nTasks, Pool, Listed

\* A step of another task, or one that leaves the lists of a task.
LEMMA TaskStays ==
  ASSUME NEW t, TaskInv(t), run' = run, par' = par, viewSizes' = viewSizes,
         phase = "generate" \/ phase' # "generate",
         {"pc", "groupbyFile", "viewSizesFile"} \subseteq DOMAIN adccntl'[t],
         adccntl'[t].groupbyFile = adccntl[t].groupbyFile,
         adccntl'[t].viewSizesFile = adccntl[t].viewSizesFile,
         adccntl'[t].pc = "new" <=> adccntl[t].pc = "new"
  PROVE  TaskInv(t)'
<1>1. MadeBy(t)' = MadeBy(t) /\ ToMakeBy(t)' = ToMakeBy(t)
  BY DEF MadeBy, ToMakeBy
<1>2. Share(t)' = Share(t)
  BY SharesStay
<1> QED  BY <1>1, <1>2 DEF TaskInv

\* A step of one task leaves the others as they are.
LEMMA OneTaskSteps ==
  ASSUME CubeInv, NEW t \in Team, run' = run, par' = par, viewSizes' = viewSizes, phase' = phase,
         adccntl' = [adccntl EXCEPT ![t] = adccntl'[t]], TaskInv(t)'
  PROVE  CubeInv'
<1>1. Team' = Team
  BY DEF Team
<1>2. adccntl' = [u \in Team |-> adccntl'[u]]
  BY DEF CubeInv
<1>3. ASSUME NEW u \in Team, u # t PROVE TaskInv(u)'
  <2>1. adccntl'[u] = adccntl[u] /\ TaskInv(u)
    BY <1>3 DEF CubeInv
  <2>2. {"pc", "groupbyFile", "viewSizesFile"} \subseteq DOMAIN adccntl[u]
    BY <2>1 DEF TaskInv
  <2> QED  BY <2>1, <2>2, TaskStays
<1>4. \A u \in Team : TaskInv(u)'
  BY <1>3
<1> QED  BY <1>1, <1>2, <1>4 DEF CubeInv

\* It holds at the start: no views have been dealt.
LEMMA CubeInvInit == CubeInit => CubeInv
<1> SUFFICES ASSUME CubeInit PROVE CubeInv
  OBVIOUS
<1>1. ASSUME NEW t \in Team PROVE TaskInv(t)
  <2>1. adccntl[t] = NewAdcViewCntl
    BY DEF CubeInit
  <2>2. /\ {"pc", "groupbyFile", "viewSizesFile"} \subseteq DOMAIN NewAdcViewCntl
        /\ NewAdcViewCntl.pc = "new" /\ NewAdcViewCntl.groupbyFile = <<>> /\ NewAdcViewCntl.viewSizesFile = <<>>
    BY DEF NewAdcViewCntl
  <2>3. IsFile(<<>>)
    <3>1. <<>> \in Seq({})
      OBVIOUS
    <3> QED  BY <3>1, FileIs
  <2> QED  BY <2>1, <2>2, <2>3 DEF TaskInv
<1>2. adccntl = [t \in Team |-> adccntl[t]]
  BY DEF CubeInit
<1> QED  BY <1>1, <1>2 DEF CubeInit, CubeInv

\* The views are dealt to a task: its share is to be made.
LEMMA PartitionKeeps == ASSUME CubeInv, NEW t \in Team, PartitionCube(t) PROVE CubeInv'
<1> DEFINE a == adccntl[t]
           b == adccntl'[t]
           jobs == MultiFileProcJobs(Pool, t)
<1>1. /\ adccntl' = [adccntl EXCEPT ![t] = [a EXCEPT !.pc = "views", !.groupbyFile = jobs]]
      /\ phase = "parallel" /\ a.pc = "new"
      /\ run' = run /\ par' = par /\ phase' = phase /\ viewSizes' = viewSizes
  BY DEF PartitionCube, Pool, Listed
<1>2. TaskInv(t) /\ run \in Runs /\ par = Parameters(run) /\ viewSizes = CalculateVeiwSizes(par)
  BY <1>1 DEF CubeInv
<1>3. b = [a EXCEPT !.pc = "views", !.groupbyFile = jobs]
  BY <1>1 DEF CubeInv
<1> HIDE DEF jobs
<1>4. /\ {"pc", "groupbyFile", "viewSizesFile"} \subseteq DOMAIN b
      /\ b.pc = "views" /\ b.groupbyFile = jobs /\ b.viewSizesFile = a.viewSizesFile
  BY <1>2, <1>3 DEF TaskInv
<1>5. a.viewSizesFile = <<>> /\ IsFile(a.viewSizesFile)
  BY <1>1, <1>2 DEF TaskInv
<1>6. nTasks \in Nat \ {0} /\ par.dim \in Nat \ {0}
  BY <1>2, TasksAre, RunsAssumption
<1>7. IsFile(jobs)
  <2>1. PICK S : jobs \in Seq(S)
    BY <1>2, <1>6, SharesAreFair DEF jobs
  <2> QED  BY <2>1, FileIs
<1>8. MadeBy(t)' = {} /\ ToMakeBy(t)' = Share(t)
  BY <1>4, <1>5 DEF MadeBy, ToMakeBy, Share, jobs
<1>9. Share(t)' = Share(t)
  BY <1>1, SharesStay
<1>10. TaskInv(t)'
  BY <1>1, <1>4, <1>5, <1>7, <1>8, <1>9 DEF TaskInv
<1>11. adccntl' = [adccntl EXCEPT ![t] = b]
  BY <1>1, <1>3
<1> QED  BY <1>1, <1>10, <1>11, OneTaskSteps

\* A view that is made is one of those to be made.
LEMMA MakeViewKeeps == ASSUME CubeInv, NEW t \in Team, MakeView(t) PROVE CubeInv'
<1> DEFINE a == adccntl[t]
           b == adccntl'[t]
           g == a.groupbyFile
           m == a.viewSizesFile
           view == Head(g).tuple
           computed == Computed(a, view)
<1>1. /\ adccntl' = [adccntl EXCEPT ![t] = ViewMade(a, view, computed)]
      /\ a.pc = "views" /\ g # <<>>
      /\ run' = run /\ par' = par /\ phase' = phase /\ viewSizes' = viewSizes
  BY DEF MakeView
<1>2. TaskInv(t) /\ b = ViewMade(a, view, computed)
  BY <1>1 DEF CubeInv
<1>3. /\ {"pc", "groupbyFile", "viewSizesFile"} \subseteq DOMAIN a
      /\ IsFile(g) /\ IsFile(m) /\ phase # "generate" /\ MadeBy(t) \cup ToMakeBy(t) = Share(t)
  BY <1>1, <1>2 DEF TaskInv
<1> HIDE DEF computed
<1> DEFINE e == [view |-> view, rows |-> Len(computed.view)]
<1>4. /\ {"pc", "groupbyFile", "viewSizesFile"} \subseteq DOMAIN b
      /\ b.pc = "views" /\ b.groupbyFile = Tail(g) /\ b.viewSizesFile = Append(m, e)
  <2>1. DOMAIN b = DOMAIN a
    BY <1>2 DEF ViewMade
  <2>2. b.pc = a.pc
    BY <1>2, <1>3 DEF ViewMade
  <2>3. b.groupbyFile = Tail(g)
    BY <1>2, <1>3 DEF ViewMade
  <2>4. b.viewSizesFile = Append(m, e)
    BY <1>2, <1>3 DEF ViewMade
  <2> QED  BY <1>1, <1>3, <2>1, <2>2, <2>3, <2>4
<1> HIDE DEF g, m, b
<1>5. /\ IsFile(Tail(g))
      /\ {g[i].tuple : i \in DOMAIN g} = {view} \cup {Tail(g)[i].tuple : i \in DOMAIN Tail(g)}
  BY <1>1, <1>3, FirstTaken DEF view
<1> DEFINE c == Append(m, e)
<1>6. IsFile(c) /\ ViewsIn(c) = ViewsIn(m) \cup {view}
  <2>1. e.view = view
    OBVIOUS
  <2> HIDE DEF e, view
  <2>2. IsFile(c) /\ ViewsIn(c) = ViewsIn(m) \cup {e.view}
    BY <1>3, EntryWritten
  <2> QED  BY <2>1, <2>2
<1> HIDE DEF e, view
<1>7. MadeBy(t) = ViewsIn(m) /\ ToMakeBy(t) = {g[i].tuple : i \in DOMAIN g}
  BY DEF MadeBy, ToMakeBy, ViewsIn, m, g
<1>8. /\ MadeBy(t)' = ViewsIn(c)
      /\ ToMakeBy(t)' = {Tail(g)[i].tuple : i \in DOMAIN Tail(g)}
  BY <1>4 DEF MadeBy, ToMakeBy, ViewsIn, b
<1>9. MadeBy(t)' \cup ToMakeBy(t)' = Share(t)
  BY <1>3, <1>5, <1>6, <1>7, <1>8
<1>10. Share(t)' = Share(t)
  BY <1>1, SharesStay
<1>11. TaskInv(t)'
  BY <1>1, <1>3, <1>4, <1>5, <1>6, <1>9, <1>10 DEF TaskInv, b
<1>12. adccntl' = [adccntl EXCEPT ![t] = adccntl'[t]]
  BY <1>1, <1>2 DEF b
<1> QED  BY <1>1, <1>11, <1>12, OneTaskSteps

\* The other steps of a task leave its lists.
LEMMA ListsKept ==
  ASSUME CubeInv, NEW t \in Team, run' = run, par' = par, viewSizes' = viewSizes, phase' = phase,
         adccntl[t].pc # "new", adccntl' = [adccntl EXCEPT ![t] = adccntl'[t]], adccntl'[t].pc # "new",
         DOMAIN adccntl'[t] = DOMAIN adccntl[t],
         adccntl'[t].groupbyFile = adccntl[t].groupbyFile,
         adccntl'[t].viewSizesFile = adccntl[t].viewSizesFile
  PROVE  CubeInv'
<1>1. TaskInv(t)
  BY DEF CubeInv
<1>2. phase # "generate" /\ {"pc", "groupbyFile", "viewSizesFile"} \subseteq DOMAIN adccntl[t]
  BY <1>1 DEF TaskInv
<1>3. TaskInv(t)'
  BY <1>1, <1>2, TaskStays
<1> QED  BY <1>3, OneTaskSteps

\* Every step keeps the invariant.
LEMMA CubeInvNext == CubeInv /\ [CubeNext]_cubeVars => CubeInv'
<1> SUFFICES ASSUME CubeInv, [CubeNext]_cubeVars PROVE CubeInv'
  OBVIOUS
<1>1. ASSUME run' = run, par' = par, viewSizes' = viewSizes, adccntl' = adccntl,
             phase = "generate" \/ phase' # "generate", phase = phase' \/ phase # "generate"
      PROVE  CubeInv'
  <2>1. Team' = Team
    BY <1>1 DEF Team
  <2>2. ASSUME NEW t \in Team PROVE TaskInv(t)'
    <3>1. TaskInv(t)
      BY DEF CubeInv
    <3>2. {"pc", "groupbyFile", "viewSizesFile"} \subseteq DOMAIN adccntl[t]
      BY <3>1 DEF TaskInv
    <3> QED  BY <1>1, <3>1, <3>2, TaskStays
  <2> QED  BY <1>1, <2>1, <2>2 DEF CubeInv
<1>2. CASE NextTuple
  BY <1>1, <1>2 DEF NextTuple
<1>3. CASE PredictSizes
  <2>1. /\ phase = "generate" /\ phase' = "parallel" /\ viewSizes' = CalculateVeiwSizes(par')
        /\ run' = run /\ par' = par /\ adccntl' = adccntl
    BY <1>3 DEF PredictSizes
  <2>2. Team' = Team
    BY <2>1 DEF Team
  <2>3. ASSUME NEW t \in Team PROVE TaskInv(t)'
    <3>1. TaskInv(t)
      BY DEF CubeInv
    <3> QED  BY <2>1, <3>1 DEF TaskInv
  <2> QED  BY <2>1, <2>2, <2>3 DEF CubeInv
<1>4. ASSUME NEW t \in Team, PartitionCube(t) PROVE CubeInv'
  BY <1>4, PartitionKeeps
<1>5. ASSUME NEW t \in Team, MakeView(t) PROVE CubeInv'
  BY <1>5, MakeViewKeeps
<1>6. ASSUME NEW t \in Team, FailView(t) PROVE CubeInv'
  <2>1. PICK counted :
          /\ adccntl' = [adccntl EXCEPT ![t].totalOfViewRows = @ + counted, ![t].pc = "add"]
          /\ adccntl[t].pc = "views"
          /\ run' = run /\ par' = par /\ phase' = phase /\ viewSizes' = viewSizes
    BY <1>6 DEF FailView
  <2>2. TaskInv(t) /\ DOMAIN adccntl = Team
    BY DEF CubeInv
  <2>3. "pc" \in DOMAIN adccntl[t]
    BY <2>2 DEF TaskInv
  <2>4. adccntl'[t] = [adccntl[t] EXCEPT !.totalOfViewRows = @ + counted, !.pc = "add"]
    BY <2>1, <2>2
  <2>5. adccntl' = [adccntl EXCEPT ![t] = adccntl'[t]]
    BY <2>1, <2>2
  <2>6. /\ DOMAIN adccntl'[t] = DOMAIN adccntl[t]
        /\ adccntl'[t].groupbyFile = adccntl[t].groupbyFile
        /\ adccntl'[t].viewSizesFile = adccntl[t].viewSizesFile
        /\ adccntl'[t].pc = "add"
    BY <2>3, <2>4
  <2> QED  BY <2>1, <2>5, <2>6, ListsKept
<1>7. ASSUME NEW t \in Team, ViewSizesVerification(t) PROVE CubeInv'
  <2>1. PICK failed, number :
          /\ adccntl' = [adccntl EXCEPT ![t].pc = "add", ![t].numberOfMadeViews = number,
                                        ![t].verificationFailed = failed]
          /\ adccntl[t].pc = "views"
          /\ run' = run /\ par' = par /\ phase' = phase /\ viewSizes' = viewSizes
    BY <1>7 DEF ViewSizesVerification
  <2>2. TaskInv(t) /\ DOMAIN adccntl = Team
    BY DEF CubeInv
  <2>3. "pc" \in DOMAIN adccntl[t]
    BY <2>2 DEF TaskInv
  <2>4. adccntl'[t] = [adccntl[t] EXCEPT !.pc = "add", !.numberOfMadeViews = number, !.verificationFailed = failed]
    BY <2>1, <2>2
  <2>5. adccntl' = [adccntl EXCEPT ![t] = adccntl'[t]]
    BY <2>1, <2>2
  <2>6. /\ DOMAIN adccntl'[t] = DOMAIN adccntl[t]
        /\ adccntl'[t].groupbyFile = adccntl[t].groupbyFile
        /\ adccntl'[t].viewSizesFile = adccntl[t].viewSizesFile
        /\ adccntl'[t].pc = "add"
    BY <2>3, <2>4
  <2> QED  BY <2>1, <2>5, <2>6, ListsKept
<1>8. ASSUME NEW t \in Team, EnterCritical(t) PROVE CubeInv'
  <2>1. /\ adccntl' = [adccntl EXCEPT ![t].pc = "added", ![t].totals = pvst]
        /\ adccntl[t].pc = "add"
        /\ run' = run /\ par' = par /\ phase' = phase /\ viewSizes' = viewSizes
    BY <1>8 DEF EnterCritical
  <2>2. TaskInv(t) /\ DOMAIN adccntl = Team
    BY DEF CubeInv
  <2>3. "pc" \in DOMAIN adccntl[t]
    BY <2>2 DEF TaskInv
  <2>4. adccntl'[t] = [adccntl[t] EXCEPT !.pc = "added", !.totals = pvst]
    BY <2>1, <2>2
  <2>5. adccntl' = [adccntl EXCEPT ![t] = adccntl'[t]]
    BY <2>1, <2>2
  <2>6. /\ DOMAIN adccntl'[t] = DOMAIN adccntl[t]
        /\ adccntl'[t].groupbyFile = adccntl[t].groupbyFile
        /\ adccntl'[t].viewSizesFile = adccntl[t].viewSizesFile
        /\ adccntl'[t].pc = "added"
    BY <2>3, <2>4
  <2> QED  BY <2>1, <2>5, <2>6, ListsKept
<1>9. ASSUME NEW t \in Team, LeaveCritical(t) PROVE CubeInv'
  <2>1. /\ adccntl' = [adccntl EXCEPT ![t].pc = "closed"]
        /\ adccntl[t].pc = "added"
        /\ run' = run /\ par' = par /\ phase' = phase /\ viewSizes' = viewSizes
    BY <1>9 DEF LeaveCritical
  <2>2. TaskInv(t) /\ DOMAIN adccntl = Team
    BY DEF CubeInv
  <2>3. "pc" \in DOMAIN adccntl[t]
    BY <2>2 DEF TaskInv
  <2>4. adccntl'[t] = [adccntl[t] EXCEPT !.pc = "closed"]
    BY <2>1, <2>2
  <2>5. adccntl' = [adccntl EXCEPT ![t] = adccntl'[t]]
    BY <2>1, <2>2
  <2>6. /\ DOMAIN adccntl'[t] = DOMAIN adccntl[t]
        /\ adccntl'[t].groupbyFile = adccntl[t].groupbyFile
        /\ adccntl'[t].viewSizesFile = adccntl[t].viewSizesFile
        /\ adccntl'[t].pc = "closed"
    BY <2>3, <2>4
  <2> QED  BY <2>1, <2>5, <2>6, ListsKept
<1>10. CASE Report
  BY <1>1, <1>10 DEF Report
<1>11. CASE UNCHANGED cubeVars
  BY <1>1, <1>11 DEF cubeVars
<1> QED  BY <1>2, <1>3, <1>4, <1>5, <1>6, <1>7, <1>8, <1>9, <1>10, <1>11 DEF CubeNext, CubeReturn

\* The tasks that have their views have their shares, and of these all is true.
LEMMA CubeInvImplies == CubeInv => EachViewOnce
<1> SUFFICES ASSUME CubeInv PROVE EachViewOnce
  OBVIOUS
<1> DEFINE jobs(t) == MadeBy(t) \cup ToMakeBy(t)
<1>1. ASSUME NEW t \in Started PROVE t \in Team /\ phase # "generate" /\ jobs(t) = Share(t)
  BY DEF CubeInv, Started, TaskInv
<1> HIDE DEF jobs
<1>2. CASE Started = {}
  <2>1. Team = 0 .. run.team - 1 /\ run.team \in Nat /\ nTasks \in Nat \ {0}
    BY RunsAssumption, TasksAre DEF Team, CubeInv
  <2>2. Started = Team => ~(run.team >= nTasks)
    <3> DEFINE k == nTasks
    <3>1. k \in Nat \ {0}
      BY <2>1
    <3> HIDE DEF k
    <3>2. run.team >= k => 0 \in 0 .. run.team - 1
      BY <2>1, <3>1
    <3> QED  BY <1>2, <2>1, <3>2 DEF k
  <2> QED  BY <1>2, <2>2 DEF EachViewOnce
<1>3. CASE Started # {}
  <2>1. /\ nTasks \in Nat \ {0} /\ par.dim \in Nat \ {0} /\ viewSizes = CalculateVeiwSizes(par)
        /\ run.team \in Nat
    BY <1>1, <1>3, RunsAssumption, TasksAre DEF CubeInv
  <2>2. /\ \A t, u : t # u => Share(t) \cap Share(u) = {}
        /\ \A t : Share(t) \subseteq Asked
        /\ \A v \in Asked : \E t \in 0 .. nTasks - 1 : v \in Share(t)
        /\ \A t, u \in 0 .. nTasks - 1 : Cardinality(Share(t)) - Cardinality(Share(u)) \in -1 .. 1
    BY <2>1, SharesAreFair
  <2>3. \A t, u \in Started : t # u => jobs(t) \cap jobs(u) = {}
    BY <1>1, <2>2
  <2>4. ASSUME Started = Team, run.team >= nTasks
        PROVE  /\ UNION {jobs(t) : t \in Team} = Asked
               /\ \A t, u \in 0 .. nTasks - 1 : Cardinality(jobs(t)) - Cardinality(jobs(u)) \in -1 .. 1
    <3> DEFINE k == nTasks
    <3>1. k \in Nat
      BY <2>1
    <3> HIDE DEF k
    <3>2. 0 .. k - 1 \subseteq Team
      <4>1. run.team >= k
        BY <2>4 DEF k
      <4> QED  BY <2>1, <3>1, <4>1 DEF Team
    <3>3. \A t \in Team : jobs(t) = Share(t)
      BY <1>1, <2>4
    <3>4. UNION {jobs(t) : t \in Team} = Asked
      <4>1. ASSUME NEW v \in UNION {jobs(t) : t \in Team} PROVE v \in Asked
        BY <2>2, <3>3
      <4>2. ASSUME NEW v \in Asked PROVE v \in UNION {jobs(t) : t \in Team}
        <5>1. PICK t \in 0 .. k - 1 : v \in Share(t)
          BY <2>2 DEF k
        <5>2. t \in Team /\ v \in jobs(t)
          BY <3>2, <3>3, <5>1
        <5> QED  BY <5>2
      <4> QED  BY <4>1, <4>2
    <3>5. \A t, u \in 0 .. k - 1 : Cardinality(jobs(t)) - Cardinality(jobs(u)) \in -1 .. 1
      <4> TAKE t, u \in 0 .. k - 1
      <4>1. jobs(t) = Share(t) /\ jobs(u) = Share(u)
        BY <3>2, <3>3
      <4> QED  BY <2>2, <4>1 DEF k
    <3> QED  BY <3>4, <3>5 DEF k
  <2> QED  BY <2>3, <2>4 DEF EachViewOnce, jobs
<1> QED  BY <1>2, <1>3

\* However the tasks of a run take turns, and whatever views fail, every task has
\* made, or is to make, just the views that are dealt to it, and no view is dealt
\* to two of them; when there are as many threads as tasks, the tasks have all
\* views between them, and no task has two more than another: for every run,
\* with any number of attributes, tuples, threads and views.
THEOREM ViewsMadeOnce == CubeSpec => []EachViewOnce
<1>1. CubeInit => CubeInv
  BY CubeInvInit
<1>2. CubeInv /\ [CubeNext]_cubeVars => CubeInv'
  BY CubeInvNext
<1>3. CubeInv => EachViewOnce
  BY CubeInvImplies
<1> QED  BY <1>1, <1>2, <1>3, PTL DEF CubeSpec

=============================================================================
