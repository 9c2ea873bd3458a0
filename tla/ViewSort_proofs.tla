--------------------------- MODULE ViewSort_proofs ---------------------------
(* The tree in which the rows of a view are aggregated stays a red-black    *)
(* tree, for all rows of whatever keys, and for all sizes of the memory.    *)
(*                                                                          *)
(* A tree is linked when there are sets D[x], the nodes below x, that fit   *)
(* together: they make a descent end (PathIs), and an induction from the    *)
(* leaves possible (TreeInduction).  The new node, the rotations and the    *)
(* colours are looked at one by one, each with the sets and the numbers of  *)
(* black nodes it leaves.  The loop of an insertion goes up from a red node *)
(* with a red father, the only such pair (LoopIsAt), and ends without any   *)
(* (RebalancedIs).  What TreeIsBalanced says of a tree follows from the     *)
(* sets and numbers alone (RedBlackIsBalanced).                             *)
(* The lemmas on numbers and on Bit are those of the other proofs of DC.    *)
EXTENDS ViewSort, DataCube_proofs

-----------------------------------------------------------------------------
(* The order of keys.                                                      *)

\* Keys of m attributes.
Keys(m) == [1 .. m -> Int]

\* A set of numbers that is not empty has a least one.
LEMMA LeastNumber ==
  ASSUME NEW S \in SUBSET Nat, S # {}
  PROVE  Min(S) \in S /\ \A y \in S : Min(S) <= y
<1> DEFINE Below == {ss \in Nat \X Nat : ss[1] < ss[2]}
<1>1. Below = OpToRel(<, Nat)
  BY DEF OpToRel
<1>2. PICK x \in S : \A y \in S : ~(<<y, x>> \in Below)
  <2> HIDE DEF Below
  <2> QED  BY <1>1, NatLessThanWellFounded, WFMin, Zenon
<1>3. ASSUME NEW y \in S PROVE x <= y
  <2>1. x \in Nat /\ y \in Nat /\ <<y, x>> \notin Below
    BY <1>2
  <2> QED  BY <2>1
<1> QED  BY <1>3, Zenon DEF Min

\* The first place where two keys differ decides.
FirstDiffers(i, m, a, b) == i \in 1 .. m /\ a[i] # b[i] /\ \A j \in 1 .. m : j < i => a[j] = b[j]

\* KeyComp() looks for that place.
LEMMA KeyCompIs ==
  ASSUME NEW m \in Nat, NEW a \in Keys(m), NEW b \in Keys(m)
  PROVE  \/ a = b /\ KeyComp(a, b) = 0
         \/ \E i \in 1 .. m : FirstDiffers(i, m, a, b) /\ KeyComp(a, b) = IF a[i] < b[i] THEN -1 ELSE 1
<1> DEFINE differ == {i \in 1 .. m : a[i] # b[i]}
<1>1. Len(a) = m
  BY DEF Keys
<1>2. KeyComp(a, b) = IF differ = {} THEN 0 ELSE IF a[Min(differ)] < b[Min(differ)] THEN -1 ELSE 1
  BY <1>1 DEF KeyComp
<1>3. CASE differ = {}
  <2>1. a = b
    BY <1>3, SMTT(60) DEF Keys
  <2> QED  BY <1>2, <1>3, <2>1
<1>4. CASE differ # {}
  <2>1. Min(differ) \in differ /\ \A y \in differ : Min(differ) <= y
    BY <1>4, LeastNumber
  <2>2. FirstDiffers(Min(differ), m, a, b)
    BY <2>1 DEF FirstDiffers
  <2> QED  BY <1>2, <1>4, <2>1, <2>2, Zenon
<1> QED  BY <1>3, <1>4

\* Two keys have one order.
LEMMA KeysCompare ==
  ASSUME NEW m \in Nat, NEW a \in Keys(m), NEW b \in Keys(m)
  PROVE  /\ KeyComp(a, b) \in {-1, 0, 1}
         /\ KeyComp(a, a) = 0
         /\ KeyComp(a, b) = 1 <=> KeyComp(b, a) = -1
         /\ KeyComp(a, b) = 0 => a = b
<1>1. KeyComp(a, a) = 0
  BY KeyCompIs DEF FirstDiffers
<1>2. CASE a = b
  BY <1>1, <1>2
<1>3. CASE a # b
  <2>1. PICK i \in 1 .. m : FirstDiffers(i, m, a, b) /\ KeyComp(a, b) = IF a[i] < b[i] THEN -1 ELSE 1
    BY <1>3, KeyCompIs
  <2>2. PICK k \in 1 .. m : FirstDiffers(k, m, b, a) /\ KeyComp(b, a) = IF b[k] < a[k] THEN -1 ELSE 1
    BY <1>3, KeyCompIs
  <2>3. i = k
    BY <2>1, <2>2 DEF FirstDiffers
  <2>4. a[i] \in Int /\ b[i] \in Int /\ a[i] # b[i]
    BY <2>1 DEF FirstDiffers, Keys
  <2> QED  BY <1>1, <2>1, <2>2, <2>3, <2>4
<1> QED  BY <1>2, <1>3

\* The order passes on.
LEMMA KeysInOrder ==
  ASSUME NEW m \in Nat, NEW a \in Keys(m), NEW b \in Keys(m), NEW c \in Keys(m),
         KeyComp(a, b) = -1, KeyComp(b, c) = -1
  PROVE  KeyComp(a, c) = -1
<1>1. PICK i \in 1 .. m : FirstDiffers(i, m, a, b) /\ a[i] < b[i]
  BY KeyCompIs
<1>2. PICK k \in 1 .. m : FirstDiffers(k, m, b, c) /\ b[k] < c[k]
  BY KeyCompIs
<1> DEFINE l == IF i < k THEN i ELSE k
<1>3. \A j \in 1 .. m : a[j] \in Int /\ b[j] \in Int /\ c[j] \in Int
  BY DEF Keys
<1>4. l \in 1 .. m /\ a[l] < c[l] /\ \A j \in 1 .. m : j < l => a[j] = c[j]
  BY <1>1, <1>2, <1>3 DEF FirstDiffers
<1>5. a # c
  BY <1>3, <1>4
<1>6. PICK j \in 1 .. m : FirstDiffers(j, m, a, c) /\ KeyComp(a, c) = IF a[j] < c[j] THEN -1 ELSE 1
  BY <1>5, KeyCompIs
<1>7. j = l
  <2>1. ~(j < l)
    BY <1>4, <1>6 DEF FirstDiffers
  <2>2. ~(l < j)
    BY <1>3, <1>4, <1>6 DEF FirstDiffers
  <2> QED  BY <1>4, <2>1, <2>2
<1> QED  BY <1>4, <1>6, <1>7

-----------------------------------------------------------------------------
(* Trees.                                                                  *)

\* The nodes of a tree of n of them whose keys have m attributes.
NodesOf(n, m) ==
  [1 .. n -> [child : [1 .. 2 -> 0 .. n], clr : {BLACK, RED}, key : Keys(m), sum : Int]]

\* What is below a child.
Under(D, c) == IF c = Nil THEN {} ELSE D[c]

\* Key k belongs in direction d of key l.
Before(d, k, l) == IF d = Left THEN KeyComp(k, l) = -1 ELSE KeyComp(l, k) = -1

\* D[x] are the nodes in and under x: to the left those with lesser keys, to the
\* right those with greater ones; every node is under the root, on one way.
Linked(n, m, nodes, root, D) ==
  /\ nodes \in NodesOf(n, m)
  /\ D \in [1 .. n -> SUBSET (1 .. n)]
  /\ root \in 1 .. n /\ D[root] = 1 .. n
  /\ \A x \in 1 .. n : D[x] = {x} \cup Under(D, nodes[x].child[1]) \cup Under(D, nodes[x].child[2])
  /\ \A x \in 1 .. n, d \in 1 .. 2 : \A y \in Under(D, nodes[x].child[d]) : Before(d, nodes[y].key, nodes[x].key)
  /\ \A x \in 1 .. n, d \in 1 .. 2 : nodes[x].child[d] # root
  /\ \A x, y \in 1 .. n, d, e \in 1 .. 2 :
       nodes[x].child[d] = nodes[y].child[e] /\ nodes[x].child[d] # Nil => x = y /\ d = e

\* A node and its children: it is not under them, they are not under one
\* another, and there are fewer nodes under them.
HangsAt(x, n, m, nodes, D) ==
  /\ D[x] \subseteq 1 .. n /\ x \in D[x] /\ nodes[x].key \in Keys(m)
  /\ IsFiniteSet(D[x]) /\ Cardinality(D[x]) \in 1 .. n
  /\ \A d \in 1 .. 2 :
       /\ nodes[x].child[d] \in 0 .. n
       /\ Under(D, nodes[x].child[d]) \subseteq D[x]
       /\ x \notin Under(D, nodes[x].child[d])
       /\ nodes[x].child[d] # Nil => /\ nodes[x].child[d] \in 1 .. n
                                    /\ Under(D, nodes[x].child[d]) = D[nodes[x].child[d]]
                                    /\ Cardinality(D[nodes[x].child[d]]) < Cardinality(D[x])
  /\ Under(D, nodes[x].child[1]) \cap Under(D, nodes[x].child[2]) = {}

\* All nodes are such.
Hangs(n, m, nodes, D) == \A x \in 1 .. n : HangsAt(x, n, m, nodes, D)

\* In a linked tree everything hangs together.
LEMMA TreeHangs ==
  ASSUME NEW n \in Nat, NEW m \in Nat, NEW nodes, NEW root, NEW D, Linked(n, m, nodes, root, D)
  PROVE  Hangs(n, m, nodes, D)
<1>1. \A x \in 1 .. n : nodes[x].key \in Keys(m) /\ \A d \in 1 .. 2 : nodes[x].child[d] \in 0 .. n
  BY SMTT(60) DEF Linked, NodesOf
<1>2. \A x \in 1 .. n : D[x] \subseteq 1 .. n
  <2>1. D \in [1 .. n -> SUBSET (1 .. n)]
    BY DEF Linked
  <2> QED  BY <2>1
<1>3. \A x \in 1 .. n : D[x] = {x} \cup Under(D, nodes[x].child[1]) \cup Under(D, nodes[x].child[2])
  BY DEF Linked
<1>4. \A x \in 1 .. n, d \in 1 .. 2 : Under(D, nodes[x].child[d]) \subseteq D[x]
  <2>1. \A d \in 1 .. 2 : d = 1 \/ d = 2
    OBVIOUS
  <2> QED  BY <1>3, <2>1
<1>5. \A x \in 1 .. n, d \in 1 .. 2 : \A y \in Under(D, nodes[x].child[d]) : Before(d, nodes[y].key, nodes[x].key)
  BY DEF Linked
<1> SUFFICES ASSUME NEW x \in 1 .. n PROVE HangsAt(x, n, m, nodes, D)
  BY DEF Hangs
<1> HIDE DEF Linked
<1>6. \A d \in 1 .. 2 : x \notin Under(D, nodes[x].child[d])
  <2> SUFFICES ASSUME NEW d \in 1 .. 2, Before(d, nodes[x].key, nodes[x].key) PROVE FALSE
    BY <1>5
  <2>1. KeyComp(nodes[x].key, nodes[x].key) = 0
    BY <1>1, KeysCompare
  <2> QED  BY <2>1 DEF Before
<1>7. Under(D, nodes[x].child[1]) \cap Under(D, nodes[x].child[2]) = {}
  <2> SUFFICES ASSUME NEW y \in Under(D, nodes[x].child[1]), y \in Under(D, nodes[x].child[2]) PROVE FALSE
    OBVIOUS
  <2>1. Before(1, nodes[y].key, nodes[x].key) /\ Before(2, nodes[y].key, nodes[x].key)
    <3>1. 1 \in 1 .. 2 /\ 2 \in 1 .. 2
      OBVIOUS
    <3> QED  BY <1>5, <3>1
  <2>2. KeyComp(nodes[y].key, nodes[x].key) = -1 /\ KeyComp(nodes[x].key, nodes[y].key) = -1
    BY <2>1 DEF Before, Left
  <2>3. y \in 1 .. n
    <3>1. y \in D[x]
      BY <1>3
    <3> QED  BY <1>2, <3>1
  <2>4. nodes[y].key \in Keys(m) /\ nodes[x].key \in Keys(m)
    BY <1>1, <2>3
  <2> QED  BY <2>2, <2>4, KeysCompare
<1>8. \A y \in 1 .. n : IsFiniteSet(D[y]) /\ Cardinality(D[y]) \in 1 .. n
  <2> TAKE y \in 1 .. n
  <2>1. IsFiniteSet(1 .. n) /\ Cardinality(1 .. n) = n
    BY FS_Interval
  <2>2. D[y] \subseteq 1 .. n /\ y \in D[y]
    BY <1>2, <1>3
  <2> HIDE DEF Under
  <2>3. IsFiniteSet(D[y]) /\ Cardinality(D[y]) <= n /\ Cardinality(D[y]) \in Nat
    BY <2>1, <2>2, FS_Subset, FS_CardinalityType
  <2>4. Cardinality(D[y]) # 0
    BY <2>2, <2>3, FS_EmptySet
  <2> QED  BY <2>3, <2>4
<1>9. ASSUME NEW d \in 1 .. 2, nodes[x].child[d] # Nil
      PROVE  /\ nodes[x].child[d] \in 1 .. n
             /\ Under(D, nodes[x].child[d]) = D[nodes[x].child[d]]
             /\ Cardinality(D[nodes[x].child[d]]) < Cardinality(D[x])
  <2> DEFINE c == nodes[x].child[d]
  <2>1. c \in 1 .. n /\ Under(D, c) = D[c]
    BY <1>1, <1>9 DEF Nil, Under
  <2>2. D[c] \subseteq D[x] /\ x \in D[x] /\ x \notin D[c]
    BY <1>3, <1>4, <1>6, <2>1
  <2> HIDE DEF c
  <2>3. D[c] \in SUBSET D[x] /\ D[c] # D[x] /\ IsFiniteSet(D[x])
    BY <1>8, <2>2
  <2>4. Cardinality(D[c]) \in Int /\ Cardinality(D[x]) \in Int
    BY <1>8, <2>1
  <2>5. Cardinality(D[c]) <= Cardinality(D[x]) /\ Cardinality(D[c]) # Cardinality(D[x])
    BY <2>3, FS_Subset
  <2>6. Cardinality(D[c]) < Cardinality(D[x])
    BY <2>4, <2>5
  <2> QED  BY <2>1, <2>6 DEF c
<1> QED  BY <1>1, <1>2, <1>3, <1>4, <1>6, <1>7, <1>8, <1>9 DEF HangsAt

\* What holds of the end of every way down, and of a node when it holds of its
\* children, holds of all nodes.
LEMMA TreeInduction ==
  ASSUME NEW n \in Nat, NEW m \in Nat, NEW nodes, NEW root, NEW D, Linked(n, m, nodes, root, D),
         NEW S, Nil \in S,
         \A x \in 1 .. n : nodes[x].child[1] \in S /\ nodes[x].child[2] \in S => x \in S
  PROVE  0 .. n \subseteq S
<1> DEFINE W == {k \in Nat : \A x \in 1 .. n : Cardinality(D[x]) < k => x \in S}
<1>1. Hangs(n, m, nodes, D)
  BY TreeHangs
<1>2. \A x \in 1 .. n : Cardinality(D[x]) \in Nat
  BY <1>1 DEF Hangs, HangsAt
<1>3. 0 \in W
  BY <1>2
<1>4. ASSUME NEW k \in W PROVE k + 1 \in W
  <2> SUFFICES ASSUME NEW x \in 1 .. n, Cardinality(D[x]) < k + 1 PROVE x \in S
    OBVIOUS
  <2>1. ASSUME NEW d \in 1 .. 2 PROVE nodes[x].child[d] \in S
    <3> DEFINE c == nodes[x].child[d]
    <3>1. CASE c = Nil
      BY <3>1
    <3>2. CASE c # Nil
      <4>1. c \in 1 .. n /\ Cardinality(D[c]) < Cardinality(D[x])
        BY <1>1, <3>2 DEF Hangs, HangsAt
      <4>2. Cardinality(D[c]) < k
        BY <1>2, <4>1
      <4> QED  BY <4>1, <4>2
    <3> QED  BY <3>1, <3>2
  <2> QED  BY <2>1
<1>5. W = Nat
  <2>1. W \in SUBSET Nat
    OBVIOUS
  <2> HIDE DEF W
  <2> QED  BY <1>3, <1>4, <2>1, AllNumbers
<1>6. ASSUME NEW x \in 1 .. n PROVE x \in S
  <2>1. Cardinality(D[x]) + 1 \in W
    BY <1>2, <1>5
  <2> QED  BY <1>2, <2>1
<1> QED  BY <1>6 DEF Nil

\* Something is made of every node and what is made of its children, v0 being
\* made of none.
MadeOfTree(f, n, nodes, V, v0, F) ==
  /\ f \in [0 .. n -> V]
  /\ f[Nil] = v0
  /\ \A x \in 1 .. n : f[x] = F[<<x, f[nodes[x].child[1]], f[nodes[x].child[2]]>>]

\* There is such a function, whatever it makes of a node and what it gives for the children.
LEMMA TreeRecursion ==
  ASSUME NEW n \in Nat, NEW m \in Nat, NEW nodes, NEW root, NEW D, Linked(n, m, nodes, root, D),
         NEW V, NEW v0 \in V, NEW F \in [(1 .. n) \X V \X V -> V]
  PROVE  \E f : MadeOfTree(f, n, nodes, V, v0, F)
<1> DEFINE w == [x \in 0 .. n |-> IF x = Nil THEN 0 ELSE Cardinality(D[x])]
           Made(f, x) == f[x] = F[<<x, f[nodes[x].child[1]], f[nodes[x].child[2]]>>]
           W == {k \in Nat : \E f \in [0 .. n -> V] : f[Nil] = v0 /\ \A x \in 1 .. n : w[x] < k => Made(f, x)}
<1>1. Hangs(n, m, nodes, D)
  BY TreeHangs
<1>2. \A x \in 1 .. n : Cardinality(D[x]) \in 1 .. n
  BY <1>1 DEF Hangs, HangsAt
<1>3. w \in [0 .. n -> 0 .. n]
  BY <1>2 DEF Nil
<1>4. \A x \in 1 .. n, d \in 1 .. 2 : nodes[x].child[d] \in 0 .. n /\ w[nodes[x].child[d]] < w[x]
  <2> SUFFICES ASSUME NEW x \in 1 .. n, NEW d \in 1 .. 2
               PROVE  nodes[x].child[d] \in 0 .. n /\ w[nodes[x].child[d]] < w[x]
    BY Zenon
  <2> DEFINE c == nodes[x].child[d]
  <2>1. c \in 0 .. n
    BY <1>1 DEF Hangs, HangsAt
  <2>2. w[x] = Cardinality(D[x]) /\ Cardinality(D[x]) \in 1 .. n
    BY <1>2 DEF Nil
  <2>3. CASE c = Nil
    BY <2>2, <2>3 DEF Nil
  <2>4. CASE c # Nil
    <3>1. c \in 1 .. n /\ Cardinality(D[c]) < Cardinality(D[x])
      BY <1>1, <2>4 DEF Hangs, HangsAt
    <3>2. w[c] = Cardinality(D[c])
      BY <3>1 DEF Nil
    <3> QED  BY <2>2, <3>1, <3>2
  <2> QED  BY <2>1, <2>3, <2>4
<1> HIDE DEF w
<1>5. 0 \in W
  <2>1. [x \in 0 .. n |-> v0] \in [0 .. n -> V] /\ [x \in 0 .. n |-> v0][Nil] = v0
    BY DEF Nil
  <2>2. \A x \in 1 .. n : ~(w[x] < 0)
    BY <1>3
  <2> QED  BY <2>1, <2>2
<1>6. ASSUME NEW k \in W PROVE k + 1 \in W
  <2>1. PICK f \in [0 .. n -> V] : f[Nil] = v0 /\ \A x \in 1 .. n : w[x] < k => Made(f, x)
    OBVIOUS
  <2> DEFINE g == [x \in 0 .. n |-> IF x # Nil /\ w[x] = k
                                   THEN F[<<x, f[nodes[x].child[1]], f[nodes[x].child[2]]>>]
                                   ELSE f[x]]
  <2>2. g \in [0 .. n -> V]
    BY <1>4, SMTT(60) DEF Nil
  <2>3. g[Nil] = v0
    BY <2>1 DEF Nil
  <2>4. ASSUME NEW x \in 1 .. n, NEW d \in 1 .. 2, w[x] < k + 1
        PROVE  g[nodes[x].child[d]] = f[nodes[x].child[d]]
    <3> DEFINE c == nodes[x].child[d]
    <3>1. c \in 0 .. n /\ w[c] < w[x]
      BY <1>4
    <3>2. k \in Nat
      OBVIOUS
    <3>3. w[c] # k
      <4> HIDE DEF c, g, W
      <4>1. w[c] \in Nat /\ w[x] \in Nat
        BY <1>3, <3>1
      <4> QED  BY <2>4, <3>1, <3>2, <4>1
    <3> HIDE DEF c
    <3> QED  BY <3>1, <3>3 DEF c
  <2>5. ASSUME NEW x \in 1 .. n, w[x] < k + 1 PROVE Made(g, x)
    <3>1. g[nodes[x].child[1]] = f[nodes[x].child[1]] /\ g[nodes[x].child[2]] = f[nodes[x].child[2]]
      <4>1. 1 \in 1 .. 2 /\ 2 \in 1 .. 2
        BY SMTT(40)
      <4> HIDE DEF g
      <4> QED  BY <2>4, <2>5, <4>1
    <3>2. g[x] = F[<<x, f[nodes[x].child[1]], f[nodes[x].child[2]]>>]
      <4>1. x \in 0 .. n /\ x # Nil
        BY DEF Nil
      <4> HIDE DEF W, Made
      <4>2. g[x] = IF x # Nil /\ w[x] = k THEN F[<<x, f[nodes[x].child[1]], f[nodes[x].child[2]]>>] ELSE f[x]
        BY <4>1, ZenonT(60)
      <4> HIDE DEF g
      <4>3. CASE w[x] = k
        BY <4>1, <4>2, <4>3, ZenonT(60)
      <4>4. CASE w[x] # k
        <5>1. w[x] < k
          <6>1. w[x] \in Int /\ k \in Int
            BY <1>3, SMTT(60) DEF W
          <6> QED  BY <2>5, <4>4, <6>1
        <5>2. g[x] = f[x]
          BY <4>2, <4>4, ZenonT(60)
        <5>3. Made(f, x)
          BY <2>1, <5>1
        <5> QED  BY <5>2, <5>3, ZenonT(60) DEF Made
      <4> QED  BY <4>3, <4>4, ZenonT(60)
    <3> QED  BY <3>1, <3>2, ZenonT(60)
  <2> HIDE DEF g, Made
  <2> QED  BY <2>2, <2>3, <2>5, SMTT(60)
<1>7. W = Nat
  <2>1. W \in SUBSET Nat
    OBVIOUS
  <2> HIDE DEF W
  <2> QED  BY <1>5, <1>6, <2>1, AllNumbers
<1>8. PICK f \in [0 .. n -> V] : f[Nil] = v0 /\ \A x \in 1 .. n : w[x] < n + 1 => Made(f, x)
  <2>1. n + 1 \in W
    <3>1. n + 1 \in Nat
      OBVIOUS
    <3> HIDE DEF W
    <3> QED  BY <1>7, <3>1
  <2> QED  BY <2>1
<1>9. \A x \in 1 .. n : w[x] < n + 1
  BY <1>3
<1>10. MadeOfTree(f, n, nodes, V, v0, F)
  BY <1>8, <1>9 DEF MadeOfTree
<1> QED  BY <1>10

\* One entry before a sequence.
LEMMA ConsIs ==
  ASSUME NEW E, NEW e \in E, NEW s \in Seq(E)
  PROVE  /\ <<e>> \o s \in Seq(E) /\ Len(<<e>> \o s) = Len(s) + 1
         /\ (<<e>> \o s)[1] = e
         /\ \A i \in 2 .. Len(s) + 1 : (<<e>> \o s)[i] = s[i - 1]
<1>1. <<e>> \in Seq(E) /\ Len(<<e>>) = 1 /\ <<e>>[1] = e
  OBVIOUS
<1>2. Len(s) \in Nat
  OBVIOUS
<1> QED  BY <1>1, <1>2, ConcatProperties

-----------------------------------------------------------------------------
(* The way down to a key.                                                  *)

\* The entries of nodes[] and drcts[].
WaySteps(n) == [node : 1 .. n, drct : 0 .. 2]

\* A way down from x to key k, or to where it belongs.
WayDown(x, s, k, n, nodes, D) ==
  /\ s \in Seq(WaySteps(n)) /\ Len(s) >= 1 /\ s[1].node = x
  /\ \A i \in 1 .. Len(s) :
       /\ s[i].node \in D[x]
       /\ s[i].drct = 0 => i = Len(s) /\ KeyComp(k, nodes[s[i].node].key) = 0
       /\ s[i].drct # 0 => /\ Before(s[i].drct, k, nodes[s[i].node].key)
                           /\ nodes[s[i].node].child[s[i].drct] = IF i = Len(s) THEN Nil ELSE s[i + 1].node
  /\ \A i, j \in 1 .. Len(s) : s[i].node = s[j].node => i = j

\* A way down from a child is one from the node.
LEMMA WayFromChild ==
  ASSUME NEW n \in Nat, NEW m \in Nat, NEW nodes, NEW root, NEW D, Linked(n, m, nodes, root, D), NEW k,
         NEW x \in 1 .. n, NEW d \in 1 .. 2, Before(d, k, nodes[x].key), NEW s,
         IF nodes[x].child[d] = Nil THEN s = <<>> ELSE WayDown(nodes[x].child[d], s, k, n, nodes, D)
  PROVE  WayDown(x, <<[node |-> x, drct |-> d]>> \o s, k, n, nodes, D)
<1> DEFINE e == [node |-> x, drct |-> d]
           z == <<e>> \o s
           c == nodes[x].child[d]
<1>1. HangsAt(x, n, m, nodes, D)
  BY TreeHangs, Zenon DEF Hangs
<1>2. e \in WaySteps(n) /\ s \in Seq(WaySteps(n))
  <2>1. e \in WaySteps(n)
    BY DEF WaySteps
  <2>2. <<>> \in Seq(WaySteps(n))
    OBVIOUS
  <2>3. s = <<>> \/ s \in Seq(WaySteps(n))
    BY DEF WayDown
  <2> QED  BY <2>1, <2>2, <2>3, Zenon
<1>3. /\ z \in Seq(WaySteps(n)) /\ Len(z) = Len(s) + 1 /\ z[1] = e
      /\ \A i \in 2 .. Len(s) + 1 : z[i] = s[i - 1]
  BY <1>2, ConsIs
<1>4. Len(s) \in Nat
  BY <1>2
<1> HIDE DEF z, c
<1>5. \A i \in 1 .. Len(z) : i = 1 \/ (i - 1 \in 1 .. Len(s) /\ c # Nil /\ WayDown(c, s, k, n, nodes, D) /\ z[i] = s[i - 1])
  <2> TAKE i \in 1 .. Len(z)
  <2> SUFFICES ASSUME i # 1 PROVE i - 1 \in 1 .. Len(s) /\ c # Nil /\ WayDown(c, s, k, n, nodes, D)
                      /\ z[i] = s[i - 1]
    OBVIOUS
  <2>1. i - 1 \in 1 .. Len(s) /\ i \in 2 .. Len(s) + 1
    BY <1>3, <1>4
  <2>2. s # <<>>
    BY <2>1
  <2> QED  BY <1>3, <2>1, <2>2 DEF c
<1>6. c # Nil => D[c] \subseteq D[x] /\ x \notin D[c]
  BY <1>1 DEF HangsAt, c
<1>7. ASSUME NEW i \in 1 .. Len(z)
      PROVE  /\ z[i].node \in D[x]
             /\ z[i].drct = 0 => i = Len(z) /\ KeyComp(k, nodes[z[i].node].key) = 0
             /\ z[i].drct # 0 => /\ Before(z[i].drct, k, nodes[z[i].node].key)
                                 /\ nodes[z[i].node].child[z[i].drct] = IF i = Len(z) THEN Nil ELSE z[i + 1].node
  <2>1. CASE i = 1
    <3>1. z[i].node = x /\ z[i].drct = d /\ x \in D[x]
      BY <1>1, <1>3, <2>1, SMTT(60) DEF HangsAt
    <3>2. CASE Len(z) = 1
      <4>1. c = Nil
        BY <1>3, <1>4, <3>2, SMTT(60) DEF WayDown, c
      <4> QED  BY <2>1, <3>1, <3>2, <4>1 DEF c
    <3>3. CASE Len(z) # 1
      <4>1. Len(z) >= 2 /\ 2 \in 2 .. Len(s) + 1 /\ 2 \in 1 .. Len(z)
        BY <1>3, <1>4, <3>3
      <4>2. c # Nil /\ z[2] = s[1] /\ s[1].node = c
        BY <1>5, <4>1, SMTT(60) DEF WayDown
      <4> QED  BY <2>1, <3>1, <3>3, <4>2 DEF c
    <3> QED  BY <3>2, <3>3
  <2>2. CASE i # 1
    <3>1. i - 1 \in 1 .. Len(s) /\ c # Nil /\ WayDown(c, s, k, n, nodes, D) /\ z[i] = s[i - 1]
      BY <1>5, <2>2
    <3>2. i = Len(z) <=> i - 1 = Len(s)
      BY <1>3, <1>4
    <3>3. i # Len(z) => z[i + 1] = s[(i - 1) + 1]
      <4> HAVE i # Len(z)
      <4>1. i + 1 \in 2 .. Len(s) + 1 /\ (i + 1) - 1 = (i - 1) + 1
        BY <1>3, <1>4, <3>1
      <4> QED  BY <1>3, <4>1
    <3> QED  BY <1>6, <3>1, <3>2, <3>3, SMTT(60) DEF WayDown
  <2> QED  BY <2>1, <2>2
<1>8. ASSUME NEW i \in 1 .. Len(z), NEW j \in 1 .. Len(z), z[i].node = z[j].node PROVE i = j
  <2>1. \A l \in 1 .. Len(z) : l = 1 => z[l].node = x
    BY <1>3
  <2>2. \A l \in 1 .. Len(z) : l # 1 => z[l].node # x
    <3> TAKE l \in 1 .. Len(z)
    <3> HAVE l # 1
    <3>1. l - 1 \in 1 .. Len(s) /\ c # Nil /\ WayDown(c, s, k, n, nodes, D) /\ z[l] = s[l - 1]
      BY <1>5
    <3>2. s[l - 1].node \in D[c]
      BY <3>1 DEF WayDown
    <3> QED  BY <1>6, <3>1, <3>2, Zenon
  <2>3. CASE i = 1 \/ j = 1
    BY <1>8, <2>1, <2>2, <2>3
  <2>4. CASE i # 1 /\ j # 1
    <3>1. i - 1 \in 1 .. Len(s) /\ j - 1 \in 1 .. Len(s) /\ WayDown(c, s, k, n, nodes, D) /\ z[i] = s[i - 1]
          /\ z[j] = s[j - 1]
      BY <1>5, <2>4
    <3>2. i - 1 = j - 1
      BY <1>8, <3>1, ZenonT(60) DEF WayDown
    <3> QED  BY <3>2
  <2> QED  BY <2>3, <2>4
<1>9. WayDown(x, z, k, n, nodes, D)
  <2>1. Len(z) >= 1 /\ z[1].node = x
    BY <1>3, <1>4
  <2> QED  BY <1>3, <1>7, <1>8, <2>1 DEF WayDown
<1> QED  BY <1>9 DEF z

\* What Path() gives is the way down from the root.
LEMMA PathIs ==
  ASSUME NEW n \in Nat, NEW m \in Nat, NEW t, NEW D, Count(t) = n, Linked(n, m, t.node, t.root, D),
         NEW k \in Keys(m)
  PROVE  WayDown(t.root, Path(t, k), k, n, t.node, D)
<1> DEFINE nodes == t.node
           V == Seq(WaySteps(n))
           dir(x) == IF KeyComp(k, nodes[x].key) < 0 THEN Left ELSE Right
           made(x, left, right) ==
             IF KeyComp(k, nodes[x].key) = 0 THEN <<[node |-> x, drct |-> 0]>>
             ELSE <<[node |-> x, drct |-> dir(x)]>>
                  \o (IF nodes[x].child[dir(x)] = Nil THEN <<>> ELSE IF dir(x) = Left THEN left ELSE right)
           F == [p \in (1 .. n) \X V \X V |-> made(p[1], p[2], p[3])]
           From(g) ==
             g = [x \in 1 .. n |->
                    IF KeyComp(k, nodes[x].key) = 0 THEN <<[node |-> x, drct |-> 0]>>
                    ELSE <<[node |-> x, drct |-> dir(x)]>>
                         \o (IF nodes[x].child[dir(x)] = Nil THEN <<>> ELSE g[nodes[x].child[dir(x)]])]
           from == CHOOSE g : From(g)
<1>1. Hangs(n, m, nodes, D)
  BY TreeHangs
<1>2. F \in [(1 .. n) \X V \X V -> V]
  <2>1. ASSUME NEW x \in 1 .. n, NEW left \in V, NEW right \in V PROVE made(x, left, right) \in V
    <3>1. \A d \in 0 .. 2 : [node |-> x, drct |-> d] \in WaySteps(n)
      BY DEF WaySteps
    <3>2. <<[node |-> x, drct |-> 0]>> \in V
      BY <3>1
    <3>3. dir(x) \in 0 .. 2
      BY DEF Left, Right
    <3> DEFINE rest == IF nodes[x].child[dir(x)] = Nil THEN <<>> ELSE IF dir(x) = Left THEN left ELSE right
    <3>4. rest \in V
      <4>1. <<>> \in V
        OBVIOUS
      <4> HIDE DEF V
      <4> QED  BY <4>1
    <3> HIDE DEF rest, dir
    <3>5. <<[node |-> x, drct |-> dir(x)]>> \o rest \in V
      BY <3>1, <3>3, <3>4, ConsIs
    <3> QED  BY <3>2, <3>5 DEF rest
  <2> HIDE DEF made, V
  <2> QED  BY <2>1
<1>3. PICK f : MadeOfTree(f, n, nodes, V, <<>>, F)
  <2>1. <<>> \in V
    OBVIOUS
  <2> HIDE DEF V, F
  <2> QED  BY <1>2, <2>1, TreeRecursion, Zenon
<1>4. From([x \in 1 .. n |-> f[x]])
  <2> DEFINE g == [x \in 1 .. n |-> f[x]]
  <2>1. ASSUME NEW x \in 1 .. n
        PROVE  g[x] = IF KeyComp(k, nodes[x].key) = 0 THEN <<[node |-> x, drct |-> 0]>>
                      ELSE <<[node |-> x, drct |-> dir(x)]>>
                           \o (IF nodes[x].child[dir(x)] = Nil THEN <<>> ELSE g[nodes[x].child[dir(x)]])
    <3> DEFINE c(d) == nodes[x].child[d]
    <3>1. \A d \in 1 .. 2 : c(d) \in 0 .. n /\ (c(d) # Nil => c(d) \in 1 .. n)
      BY <1>1 DEF Hangs, HangsAt
    <3>2. f[c(1)] \in V /\ f[c(2)] \in V
      <4>1. c(1) \in 0 .. n /\ c(2) \in 0 .. n
        BY <3>1, SMTT(60)
      <4> HIDE DEF V, c, F
      <4>2. f \in [0 .. n -> V]
        BY <1>3 DEF MadeOfTree
      <4> QED  BY <4>1, <4>2
    <3>3. f[x] = made(x, f[c(1)], f[c(2)])
      <4>1. f[x] = F[<<x, f[c(1)], f[c(2)]>>]
        BY <1>3, Zenon DEF MadeOfTree
      <4> HIDE DEF made, V, c
      <4> QED  BY <3>2, <4>1
    <3>4. dir(x) = 1 \/ dir(x) = 2
      BY SMTT(60) DEF Left, Right
    <3>5. c(dir(x)) # Nil => g[c(dir(x))] = f[c(dir(x))]
      BY <3>1, <3>4
    <3>6. g[x] = f[x]
      OBVIOUS
    <3>7. (IF dir(x) = Left THEN f[c(1)] ELSE f[c(2)]) = f[c(dir(x))]
      BY <3>4 DEF Left
    <3> HIDE DEF dir, g
    <3> QED  BY <3>3, <3>5, <3>6, <3>7, SMTT(60)
  <2>2. g = [x \in 1 .. n |-> g[x]]
    OBVIOUS
  <2> HIDE DEF g, dir
  <2>3. From(g)
    BY <2>1, <2>2, Zenon
  <2> QED  BY <2>3, SMTT(60) DEF g
<1>5. From(from)
  <2> HIDE DEF From
  <2> QED  BY <1>4
<1>6. Path(t, k) = from[t.root]
  BY DEF Path
<1> HIDE DEF from
<1> DEFINE S == {x \in 0 .. n : x = Nil \/ WayDown(x, from[x], k, n, nodes, D)}
<1>7. ASSUME NEW x \in 1 .. n, nodes[x].child[1] \in S, nodes[x].child[2] \in S PROVE x \in S
  <2> DEFINE d == dir(x)
  <2>1. HangsAt(x, n, m, nodes, D) /\ KeyComp(k, nodes[x].key) \in {-1, 0, 1}
        /\ (KeyComp(k, nodes[x].key) = 1 => KeyComp(nodes[x].key, k) = -1)
    BY <1>1, KeysCompare, ZenonT(60) DEF Hangs, HangsAt
  <2>2. CASE KeyComp(k, nodes[x].key) = 0
    <3>1. from[x] = <<[node |-> x, drct |-> 0]>>
      BY <1>5, <2>2, Zenon
    <3>2. [node |-> x, drct |-> 0] \in WaySteps(n)
      BY DEF WaySteps
    <3>3. from[x] \in Seq(WaySteps(n)) /\ Len(from[x]) = 1 /\ from[x][1] = [node |-> x, drct |-> 0]
      BY <3>1, <3>2
    <3>4. x \in D[x] /\ \A i \in 1 .. Len(from[x]) : i = 1 /\ from[x][i] = [node |-> x, drct |-> 0]
      BY <2>1, <3>3 DEF HangsAt
    <3>5. WayDown(x, from[x], k, n, nodes, D)
      BY <2>2, <3>3, <3>4 DEF WayDown
    <3> QED  BY <3>5
  <2>3. CASE KeyComp(k, nodes[x].key) # 0
    <3> DEFINE rest == IF nodes[x].child[d] = Nil THEN <<>> ELSE from[nodes[x].child[d]]
    <3>1. from[x] = <<[node |-> x, drct |-> d]>> \o rest
      BY <1>5, <2>3, Zenon
    <3>2. d \in 1 .. 2 /\ Before(d, k, nodes[x].key)
      BY <2>1, <2>3 DEF Before, Left, Right
    <3>3. nodes[x].child[d] \in S
      <4>1. d = 1 \/ d = 2
        BY <3>2
      <4> HIDE DEF S, d, dir
      <4> QED  BY <1>7, <4>1
    <3>4. IF nodes[x].child[d] = Nil THEN rest = <<>> ELSE WayDown(nodes[x].child[d], rest, k, n, nodes, D)
      BY <3>3
    <3> HIDE DEF rest, d, dir
    <3>5. WayDown(x, <<[node |-> x, drct |-> d]>> \o rest, k, n, nodes, D)
      BY <3>2, <3>4, WayFromChild, Zenon
    <3>6. WayDown(x, from[x], k, n, nodes, D)
      BY <3>1, <3>5
    <3> QED  BY <3>6
  <2> QED  BY <2>2, <2>3
<1>8. 0 .. n \subseteq S
  <2>1. Nil \in S
    BY DEF Nil
  <2> HIDE DEF S
  <2> QED  BY <1>7, <2>1, TreeInduction, SMTT(60)
<1>9. t.root \in 1 .. n
  BY DEF Linked
<1>10. t.root \in S /\ t.root # Nil
  BY <1>8, <1>9 DEF Nil
<1> QED  BY <1>6, <1>10

\* The nodes and directions on a way.
LEMMA OnTheWay ==
  ASSUME NEW n \in Nat, NEW x, NEW s, NEW k, NEW nodes, NEW D, WayDown(x, s, k, n, nodes, D)
  PROVE  /\ Len(s) \in Nat /\ Len(s) \in 1 .. Len(s)
         /\ \A i \in 1 .. Len(s) : s[i].node \in 1 .. n /\ s[i].drct \in 0 .. 2
<1>1. s \in Seq(WaySteps(n)) /\ Len(s) >= 1
  BY DEF WayDown
<1>2. \A i \in 1 .. Len(s) : s[i] \in WaySteps(n)
  BY <1>1
<1> QED  BY <1>1, <1>2 DEF WaySteps

-----------------------------------------------------------------------------
(* A new node.                                                             *)

\* IsRed() of a list of nodes.
Red(nodes, c) == c # Nil /\ nodes[c].clr = RED

\* more are the nodes and one of key k, n + 1, under p to the side d.
Grows(more, nodes, n, m, p, d, k) ==
  /\ more \in NodesOf(n + 1, m)
  /\ \A x \in 1 .. n, e \in 1 .. 2 :
       more[x].child[e] = IF x = p /\ e = d THEN n + 1 ELSE nodes[x].child[e]
  /\ \A x \in 1 .. n : more[x].key = nodes[x].key /\ more[x].clr = nodes[x].clr
  /\ \A e \in 1 .. 2 : more[n + 1].child[e] = Nil
  /\ more[n + 1].key = k /\ more[n + 1].clr = RED

\* The way goes from x to the side e.
Taken(s, x, e) == \E i \in 1 .. Len(s) : s[i].node = x /\ s[i].drct = e

\* The way s passes x.
OnWay(s, x) == \E i \in 1 .. Len(s) : s[i].node = x

\* A child on the way is one to which the way goes.
LEMMA ChildOnWay ==
  ASSUME NEW n \in Nat, NEW m \in Nat, NEW nodes, NEW root, NEW D, Linked(n, m, nodes, root, D),
         NEW s, NEW k, WayDown(root, s, k, n, nodes, D), s[Len(s)].drct # 0,
         NEW x \in 1 .. n, NEW e \in 1 .. 2
  PROVE  /\ nodes[x].child[e] # Nil => (OnWay(s, nodes[x].child[e]) <=> Taken(s, x, e))
         /\ OnWay(s, x) <=> Taken(s, x, 1) \/ Taken(s, x, 2)
<1>1. Len(s) \in Nat /\ \A i \in 1 .. Len(s) : s[i].node \in 1 .. n /\ s[i].drct \in 0 .. 2
  BY OnTheWay
<1>2. \A i \in 1 .. Len(s) : s[i].drct \in 1 .. 2 /\ s[i].node \in 1 .. n
  <2>1. \A i \in 1 .. Len(s) : s[i].drct # 0
    BY DEF WayDown
  <2> QED  BY <1>1, <2>1
<1>3. ASSUME nodes[x].child[e] # Nil, NEW i \in 1 .. Len(s), s[i].node = nodes[x].child[e] PROVE Taken(s, x, e)
  <2>1. i # 1
    BY <1>3 DEF WayDown, Linked
  <2>2. i - 1 \in 1 .. Len(s) /\ i - 1 # Len(s) /\ (i - 1) + 1 = i
    BY <1>1, <2>1
  <2>3. nodes[s[i - 1].node].child[s[i - 1].drct] = s[i].node
    BY <1>2, <2>2, Zenon DEF WayDown
  <2>4. s[i - 1].node = x /\ s[i - 1].drct = e
    <3>1. s[i - 1].node \in 1 .. n /\ s[i - 1].drct \in 1 .. 2
      BY <1>2, <2>2
    <3>2. \A y, z \in 1 .. n, f, g \in 1 .. 2 :
            nodes[y].child[f] = nodes[z].child[g] /\ nodes[y].child[f] # Nil => y = z /\ f = g
      BY Zenon DEF Linked
    <3> DEFINE y == s[i - 1].node
               f == s[i - 1].drct
    <3>3. nodes[y].child[f] = nodes[x].child[e] /\ nodes[y].child[f] # Nil
      BY <1>3, <2>3
    <3>4. y \in 1 .. n /\ f \in 1 .. 2
      BY <3>1
    <3> HIDE DEF y, f
    <3>5. y = x /\ f = e
      BY <3>2, <3>3, <3>4, SMTT(60)
    <3> QED  BY <3>5 DEF y, f
  <2> QED  BY <2>2, <2>4 DEF Taken
<1>4. ASSUME nodes[x].child[e] # Nil, NEW i \in 1 .. Len(s), s[i].node = x, s[i].drct = e
      PROVE  OnWay(s, nodes[x].child[e])
  <2>1. i # Len(s) /\ nodes[x].child[e] = s[i + 1].node
    BY <1>4, Zenon DEF WayDown
  <2>2. i + 1 \in 1 .. Len(s)
    BY <1>1, <2>1
  <2> QED  BY <2>1, <2>2 DEF OnWay
<1>5. OnWay(s, x) <=> Taken(s, x, 1) \/ Taken(s, x, 2)
  BY <1>2 DEF OnWay, Taken
<1> QED  BY <1>3, <1>4, <1>5, Zenon DEF OnWay, Taken

\* What is below each node after that.
BelowGrown(s, n, D) ==
  [x \in 1 .. n + 1 |-> IF x = n + 1 THEN {n + 1} ELSE IF OnWay(s, x) THEN D[x] \cup {n + 1} ELSE D[x]]

\* A tree to which a node is added where its key belongs is a tree.
LEMMA GrownIsTree ==
  ASSUME NEW n \in Nat, NEW m \in Nat, NEW nodes, NEW root, NEW D, Linked(n, m, nodes, root, D),
         NEW s, NEW k \in Keys(m), WayDown(root, s, k, n, nodes, D), s[Len(s)].drct # 0,
         NEW more, Grows(more, nodes, n, m, s[Len(s)].node, s[Len(s)].drct, k)
  PROVE  Linked(n + 1, m, more, root, BelowGrown(s, n, D))
<1> DEFINE l == Len(s)
           p == s[l].node
           d == s[l].drct
           E == BelowGrown(s, n, D)
<1>1. \A i \in 1 .. l : s[i].node \in 1 .. n /\ s[i].drct \in 0 .. 2
  BY OnTheWay
<1>2. l \in 1 .. l /\ p \in 1 .. n /\ d \in 1 .. 2 /\ nodes[p].child[d] = Nil
  <2>1. l \in 1 .. l
    BY OnTheWay
  <2>2. p \in 1 .. n /\ d \in 0 .. 2 /\ d # 0
    BY <1>1, <2>1
  <2>3. nodes[p].child[d] = Nil
    BY <2>1 DEF WayDown
  <2> QED  BY <2>1, <2>2, <2>3
<1>3. Hangs(n, m, nodes, D)
  BY TreeHangs
<1>4. /\ E \in [1 .. n + 1 -> SUBSET (1 .. n + 1)] /\ E[n + 1] = {n + 1}
      /\ \A x \in 1 .. n : E[x] = IF OnWay(s, x) THEN D[x] \cup {n + 1} ELSE D[x]
  <2>1. \A x \in 1 .. n : D[x] \subseteq 1 .. n + 1
    BY <1>3 DEF Hangs, HangsAt
  <2>2. \A x \in 1 .. n : x \in 1 .. n + 1 /\ x # n + 1
    OBVIOUS
  <2>3. n + 1 \in 1 .. n + 1 /\ \A x \in 1 .. n + 1 : x # n + 1 => x \in 1 .. n
    OBVIOUS
  <2> QED  BY <2>1, <2>2, <2>3 DEF BelowGrown
<1>5. \A x \in 1 .. n, e \in 1 .. 2 :
        /\ more[x].child[e] = IF x = p /\ e = d THEN n + 1 ELSE nodes[x].child[e]
        /\ nodes[x].child[e] \in 0 .. n
  BY <1>3, ZenonT(60) DEF Grows, Hangs, HangsAt
<1>6. \A e \in 1 .. 2 : more[n + 1].child[e] = Nil
  BY DEF Grows
<1>7. \A x \in 1 .. n + 1 : x = n + 1 \/ x \in 1 .. n
  OBVIOUS
<1>8. \A x \in 1 .. n, e \in 1 .. 2 : Taken(s, x, e) => Before(e, k, nodes[x].key)
  BY SMTT(60) DEF Taken, WayDown
<1>9. Taken(s, p, d)
  BY <1>2 DEF Taken
<1> HIDE DEF p, d, E, l
<1>10. ASSUME NEW x \in 1 .. n, NEW e \in 1 .. 2
      PROVE  Under(E, more[x].child[e]) = Under(D, nodes[x].child[e]) \cup (IF Taken(s, x, e) THEN {n + 1} ELSE {})
  <2>1. CASE x = p /\ e = d
    <3>1. more[x].child[e] = n + 1 /\ n + 1 # Nil /\ nodes[x].child[e] = Nil
      BY <1>2, <1>5, <2>1 DEF Nil
    <3> QED  BY <1>4, <1>9, <2>1, <3>1 DEF Under
  <2>2. CASE ~(x = p /\ e = d)
    <3> DEFINE c == nodes[x].child[e]
    <3>1. more[x].child[e] = c
      BY <1>5, <2>2
    <3>2. CASE c = Nil
      <4>1. ~Taken(s, x, e)
        <5> SUFFICES ASSUME NEW i \in 1 .. Len(s), s[i].node = x, s[i].drct = e PROVE FALSE
          BY DEF Taken
        <5>1. i = Len(s) \/ s[i + 1].node = Nil
          BY <3>2, Zenon DEF WayDown
        <5>2. i # Len(s)
          BY <2>2 DEF p, d, l
        <5>3. i + 1 \in 1 .. Len(s)
          BY <5>2 DEF WayDown
        <5>4. s[i + 1].node \in 1 .. n
          BY <1>1, <5>3 DEF l
        <5> QED  BY <5>1, <5>2, <5>4 DEF Nil
      <4> QED  BY <3>1, <3>2, <4>1 DEF Under
    <3>3. CASE c # Nil
      <4>1. OnWay(s, c) <=> Taken(s, x, e)
        BY <3>3, ChildOnWay
      <4>2. c \in 1 .. n
        BY <1>5, <3>3, SMTT(60) DEF Nil
      <4> QED  BY <1>4, <3>1, <3>3, <4>1, <4>2, Zenon DEF Under
    <3> QED  BY <3>2, <3>3
  <2> QED  BY <2>1, <2>2
<1>11. root \in 1 .. n /\ E[root] = 1 .. n + 1
  <2>1. root \in 1 .. n /\ D[root] = 1 .. n
    BY DEF Linked
  <2>2. OnWay(s, root)
    BY <1>2 DEF OnWay, WayDown, l
  <2>3. (1 .. n) \cup {n + 1} = 1 .. n + 1
    OBVIOUS
  <2> QED  BY <1>4, <2>1, <2>2, <2>3, Zenon
<1>12. ASSUME NEW x \in 1 .. n + 1
      PROVE  E[x] = {x} \cup Under(E, more[x].child[1]) \cup Under(E, more[x].child[2])
  <2>1. CASE x = n + 1
    BY <1>4, <1>6, <2>1 DEF Under
  <2>2. CASE x # n + 1
    <3>1. x \in 1 .. n /\ 1 \in 1 .. 2 /\ 2 \in 1 .. 2
      BY <2>2
    <3>2. D[x] = {x} \cup Under(D, nodes[x].child[1]) \cup Under(D, nodes[x].child[2])
      BY <3>1 DEF Linked
    <3>3. /\ Under(E, more[x].child[1]) = Under(D, nodes[x].child[1]) \cup (IF Taken(s, x, 1) THEN {n + 1} ELSE {})
          /\ Under(E, more[x].child[2]) = Under(D, nodes[x].child[2]) \cup (IF Taken(s, x, 2) THEN {n + 1} ELSE {})
      BY <1>10, <3>1, Zenon
    <3>4. OnWay(s, x) <=> Taken(s, x, 1) \/ Taken(s, x, 2)
      BY <3>1, ChildOnWay
    <3>5. E[x] = IF OnWay(s, x) THEN D[x] \cup {n + 1} ELSE D[x]
      BY <1>4, <3>1, Zenon
    <3> QED  BY <3>2, <3>3, <3>4, <3>5
  <2> QED  BY <2>1, <2>2
<1>13. ASSUME NEW x \in 1 .. n + 1, NEW e \in 1 .. 2, NEW y \in Under(E, more[x].child[e])
       PROVE  Before(e, more[y].key, more[x].key)
  <2>1. x \in 1 .. n
    <3> SUFFICES ASSUME x = n + 1 PROVE FALSE
      OBVIOUS
    <3> QED  BY <1>6, <1>13 DEF Under
  <2>2. y \in Under(D, nodes[x].child[e]) \/ (y = n + 1 /\ Taken(s, x, e))
    BY <1>10, <2>1, ZenonT(60)
  <2>3. more[x].key = nodes[x].key
    BY <2>1 DEF Grows
  <2>4. CASE y \in Under(D, nodes[x].child[e])
    <3>1. y \in 1 .. n
      BY <1>3, <2>1, <2>4, Zenon DEF Hangs, HangsAt
    <3>2. more[y].key = nodes[y].key
      BY <3>1 DEF Grows
    <3>3. Before(e, nodes[y].key, nodes[x].key)
      BY <2>1, <2>4 DEF Linked
    <3> QED  BY <2>3, <3>2, <3>3
  <2>5. CASE y = n + 1 /\ Taken(s, x, e)
    <3>1. more[y].key = k
      BY <2>5 DEF Grows
    <3> QED  BY <1>8, <2>1, <2>3, <2>5, <3>1
  <2> QED  BY <2>2, <2>4, <2>5
<1>14. \A x \in 1 .. n + 1, e \in 1 .. 2 : more[x].child[e] # root
  <2>1. \A x \in 1 .. n, e \in 1 .. 2 : nodes[x].child[e] # root
    BY DEF Linked
  <2>2. root # n + 1 /\ root # Nil
    BY <1>11 DEF Nil
  <2> QED  BY <1>5, <1>6, <1>7, <2>1, <2>2, ZenonT(60)
<1>15. ASSUME NEW x \in 1 .. n + 1, NEW y \in 1 .. n + 1, NEW e \in 1 .. 2, NEW f \in 1 .. 2,
              more[x].child[e] = more[y].child[f], more[x].child[e] # Nil
       PROVE  x = y /\ e = f
  <2>1. x \in 1 .. n /\ y \in 1 .. n
    BY <1>6, <1>7, <1>15, Zenon
  <2>2. \A z \in 1 .. n, g \in 1 .. 2 : nodes[z].child[g] # n + 1
    <3>1. n + 1 \notin 0 .. n
      OBVIOUS
    <3> QED  BY <1>5, <3>1, SMTT(60)
  <2>3. nodes[x].child[e] = nodes[y].child[f] /\ nodes[x].child[e] # Nil => x = y /\ e = f
    BY <2>1, SMTT(60) DEF Linked
  <2>4. more[x].child[e] = IF x = p /\ e = d THEN n + 1 ELSE nodes[x].child[e]
    BY <1>5, <2>1, Zenon
  <2>5. more[y].child[f] = IF y = p /\ f = d THEN n + 1 ELSE nodes[y].child[f]
    BY <1>5, <2>1, Zenon
  <2>6. nodes[x].child[e] # n + 1 /\ nodes[y].child[f] # n + 1
    BY <2>1, <2>2, SMTT(60)
  <2> QED  BY <1>15, <2>3, <2>4, <2>5, <2>6, Zenon
<1>16. more \in NodesOf(n + 1, m)
  BY DEF Grows
<1>17. root \in 1 .. n + 1
  BY <1>11
<1>18. Linked(n + 1, m, more, root, E)
  BY <1>4, <1>11, <1>12, <1>13, <1>14, <1>15, <1>16, <1>17 DEF Linked
<1> QED  BY <1>18 DEF E

-----------------------------------------------------------------------------
(* A rotation.                                                             *)

\* What comes before on one side comes after on the other; and before what comes before.
LEMMA BeforePasses ==
  ASSUME NEW m \in Nat, NEW d \in 1 .. 2, NEW k \in Keys(m), NEW l \in Keys(m)
  PROVE  /\ Before(d, k, l) <=> Before(Opposite(d), l, k)
         /\ \A j \in Keys(m) : Before(d, j, k) /\ Before(d, k, l) => Before(d, j, l)
<1>1. Before(d, k, l) <=> Before(Opposite(d), l, k)
  BY DEF Before, Opposite, Left
<1>2. ASSUME NEW j \in Keys(m), Before(d, j, k), Before(d, k, l) PROVE Before(d, j, l)
  BY <1>2, KeysInOrder DEF Before
<1> QED  BY <1>1, <1>2

\* The child b of a to the side d takes the place of a, who becomes its child.
Rotates(turned, nodes, n, m, a, d, b) ==
  /\ turned \in NodesOf(n, m)
  /\ \A x \in 1 .. n : turned[x].key = nodes[x].key
  /\ \A x \in 1 .. n, e \in 1 .. 2 :
       turned[x].child[e] = IF x = a /\ e = d THEN nodes[b].child[Opposite(d)]
                            ELSE IF x = b /\ e = Opposite(d) THEN a
                            ELSE IF nodes[x].child[e] = a THEN b
                            ELSE nodes[x].child[e]

\* What is below each node after a rotation.
BelowTurned(n, nodes, D, a, d, b) ==
  [x \in 1 .. n |-> IF x = b THEN D[a]
                    ELSE IF x = a THEN {a} \cup Under(D, nodes[a].child[Opposite(d)])
                                           \cup Under(D, nodes[b].child[Opposite(d)])
                    ELSE D[x]]

\* A tree that is rotated is a tree.
LEMMA RotatedIsTree ==
  ASSUME NEW n \in Nat, NEW m \in Nat, NEW nodes, NEW root, NEW D, Linked(n, m, nodes, root, D),
         NEW a \in 1 .. n, NEW d \in 1 .. 2, NEW b \in 1 .. n, nodes[a].child[d] = b,
         NEW turned, Rotates(turned, nodes, n, m, a, d, b)
  PROVE  Linked(n, m, turned, IF root = a THEN b ELSE root, BelowTurned(n, nodes, D, a, d, b))
<1> DEFINE o == Opposite(d)
           top == IF root = a THEN b ELSE root
           E == BelowTurned(n, nodes, D, a, d, b)
           A == Under(D, nodes[a].child[o])
           Bo == Under(D, nodes[b].child[o])
           Bd == Under(D, nodes[b].child[d])
           slot(x, e) == nodes[x].child[e]
           new(x, e) == turned[x].child[e]
<1>1. o \in 1 .. 2 /\ o # d /\ \A e \in 1 .. 2 : e = d \/ e = o
  BY DEF Opposite
<1>2. Hangs(n, m, nodes, D)
  BY TreeHangs
<1>3. /\ \A x \in 1 .. n, e \in 1 .. 2 : slot(x, e) \in 0 .. n /\ slot(x, e) # root
      /\ \A x, y \in 1 .. n, e, f \in 1 .. 2 : slot(x, e) = slot(y, f) /\ slot(x, e) # Nil => x = y /\ e = f
  BY <1>2, Zenon DEF Linked, Hangs, HangsAt
<1>4. \A x \in 1 .. n, e \in 1 .. 2 :
        new(x, e) = IF x = a /\ e = d THEN slot(b, o) ELSE IF x = b /\ e = o THEN a
                    ELSE IF slot(x, e) = a THEN b ELSE slot(x, e)
  BY DEF Rotates
<1>5. a # Nil /\ b # Nil /\ slot(a, d) = b
  BY SMTT(60) DEF Nil
<1>6. a \notin D[b] /\ b \notin Bo /\ b \notin Bd /\ Bo \subseteq D[b] /\ Bd \subseteq D[b]
      /\ D[b] = Under(D, slot(a, d))
  <2>1. HangsAt(a, n, m, nodes, D) /\ HangsAt(b, n, m, nodes, D)
    BY <1>2 DEF Hangs
  <2> QED  BY <1>1, <1>5, <2>1 DEF HangsAt
<1>7. /\ a # b
      /\ slot(b, o) # a /\ slot(b, o) # b /\ slot(b, d) # a /\ slot(b, d) # b /\ slot(a, o) # a
         /\ slot(a, o) # b
  <2>1. HangsAt(a, n, m, nodes, D) /\ HangsAt(b, n, m, nodes, D)
    BY <1>2 DEF Hangs
  <2>2. Under(D, a) = D[a] /\ Under(D, b) = D[b] /\ a \in D[a] /\ b \in D[b]
    BY <1>5, <2>1, SMTT(60) DEF Under, HangsAt
  <2>3. \A e \in 1 .. 2 : a \notin Under(D, slot(a, e))
    BY <2>1 DEF HangsAt
  <2>4. slot(a, o) # b
    BY <1>1, <1>3, <1>5
  <2> QED  BY <1>1, <1>6, <2>2, <2>3, <2>4, SMTT(60)
<1>8. D[a] = {a} \cup D[b] \cup A /\ D[b] = {b} \cup Bd \cup Bo
  <2>1. \A x \in 1 .. n : D[x] = {x} \cup Under(D, slot(x, 1)) \cup Under(D, slot(x, 2))
    BY DEF Linked
  <2>2. \A x \in 1 .. n : D[x] = {x} \cup Under(D, slot(x, d)) \cup Under(D, slot(x, o))
    <3>1. (d = 1 /\ o = 2) \/ (d = 2 /\ o = 1)
      BY DEF Opposite
    <3> QED  BY <2>1, <3>1
  <2> QED  BY <1>6, <2>2
<1>9. /\ E \in [1 .. n -> SUBSET (1 .. n)]
      /\ E[b] = D[a] /\ E[a] = {a} \cup A \cup Bo /\ \A x \in 1 .. n : x # a /\ x # b => E[x] = D[x]
  <2>1. \A x \in 1 .. n : D[x] \subseteq 1 .. n
    BY <1>2 DEF Hangs, HangsAt
  <2>2. {a} \cup A \cup Bo \subseteq 1 .. n
    BY <1>8, <2>1
  <2> HIDE DEF A, Bo
  <2>3. E = [x \in 1 .. n |-> IF x = b THEN D[a] ELSE IF x = a THEN {a} \cup A \cup Bo ELSE D[x]]
    BY DEF BelowTurned, A, Bo
  <2> HIDE DEF E
  <2> QED  BY <1>7, <2>1, <2>2, <2>3
<1>10. turned \in NodesOf(n, m) /\ \A x \in 1 .. n : turned[x].key = nodes[x].key
  BY DEF Rotates
<1>11. \A x \in 1 .. n : nodes[x].key \in Keys(m)
  BY <1>2 DEF Hangs, HangsAt
<1>12. \A x \in 1 .. n, e \in 1 .. 2 : \A y \in Under(D, slot(x, e)) : Before(e, nodes[y].key, nodes[x].key)
  BY DEF Linked
<1>13. /\ \A c \in 0 .. n : c # a /\ c # b => Under(E, c) = Under(D, c)
       /\ Under(E, a) = {a} \cup A \cup Bo /\ Under(E, b) = D[a] /\ Under(D, a) = D[a]
  BY <1>5, <1>9 DEF Under, Nil
<1> HIDE DEF o, E, A, Bo, Bd, new
<1>14. /\ Under(E, new(a, d)) = Bo /\ Under(E, new(a, o)) = A
       /\ Under(E, new(b, d)) = Bd /\ Under(E, new(b, o)) = {a} \cup A \cup Bo
  <2>1. new(a, d) = slot(b, o) /\ new(a, o) = slot(a, o) /\ new(b, d) = slot(b, d) /\ new(b, o) = a
    BY <1>1, <1>4, <1>7
  <2>2. Under(E, slot(b, o)) = Bo /\ Under(E, slot(a, o)) = A /\ Under(E, slot(b, d)) = Bd
    BY <1>1, <1>3, <1>7, <1>13, SMTT(60) DEF A, Bo, Bd
  <2> QED  BY <1>13, <2>1, <2>2
<1>15. ASSUME NEW x \in 1 .. n, NEW e \in 1 .. 2, x # a, x # b PROVE Under(E, new(x, e)) = Under(D, slot(x, e))
  <2>1. slot(x, e) # b
    BY <1>3, <1>5, <1>15
  <2>2. new(x, e) = IF slot(x, e) = a THEN b ELSE slot(x, e)
    BY <1>4, <1>15
  <2> HIDE DEF slot
  <2> QED  BY <1>3, <1>13, <2>1, <2>2
<1>16. ASSUME NEW x \in 1 .. n PROVE E[x] = {x} \cup Under(E, new(x, 1)) \cup Under(E, new(x, 2))
  <2> SUFFICES E[x] = {x} \cup Under(E, new(x, d)) \cup Under(E, new(x, o))
    <3>1. (d = 1 /\ o = 2) \/ (d = 2 /\ o = 1)
      BY DEF Opposite, o
    <3> QED  BY <3>1
  <2>1. CASE x = a
    BY <1>9, <1>14, <2>1
  <2>2. CASE x = b
    BY <1>8, <1>9, <1>14, <2>2
  <2>3. CASE x # a /\ x # b
    <3>1. D[x] = {x} \cup Under(D, slot(x, d)) \cup Under(D, slot(x, o))
      <4>1. (d = 1 /\ o = 2) \/ (d = 2 /\ o = 1)
        BY DEF Opposite, o
      <4>2. D[x] = {x} \cup Under(D, slot(x, 1)) \cup Under(D, slot(x, 2))
        BY DEF Linked
      <4> QED  BY <4>1, <4>2
    <3> QED  BY <1>1, <1>9, <1>15, <2>3, <3>1
  <2> QED  BY <2>1, <2>2, <2>3
<1>17. ASSUME NEW x \in 1 .. n, NEW e \in 1 .. 2, NEW y \in Under(E, new(x, e))
       PROVE Before(e, nodes[y].key, nodes[x].key)
  <2>1. CASE x = a /\ e = d
    <3>1. y \in Under(D, slot(a, d))
      BY <1>6, <1>14, <1>17, <2>1
    <3> QED  BY <1>12, <2>1, <3>1
  <2>2. CASE x = a /\ e = o
    BY <1>12, <1>14, <1>17, <2>2 DEF A
  <2>3. CASE x = b /\ e = d
    BY <1>12, <1>14, <1>17, <2>3 DEF Bd
  <2>4. CASE x = b /\ e = o
    <3>1. Before(o, nodes[a].key, nodes[b].key)
      <4>1. b \in Under(D, slot(a, d))
        BY <1>6, <1>8
      <4>2. Before(d, nodes[b].key, nodes[a].key)
        BY <1>12, <4>1
      <4> QED  BY <1>11, <4>2, BeforePasses DEF o
    <3>2. CASE y = a
      BY <2>4, <3>1, <3>2
    <3>3. CASE y \in Bo
      BY <1>1, <1>12, <2>4, <3>3 DEF Bo
    <3>4. CASE y \in A
      <4>1. Before(o, nodes[y].key, nodes[a].key)
        BY <1>1, <1>12, <3>4 DEF A
      <4>2. y \in 1 .. n
        <5>1. y \in D[a]
          BY <1>8, <3>4
        <5> QED  BY <1>2, <5>1 DEF Hangs, HangsAt
      <4>3. nodes[y].key \in Keys(m) /\ nodes[a].key \in Keys(m) /\ nodes[b].key \in Keys(m)
        BY <1>11, <4>2
      <4>4. Before(o, nodes[y].key, nodes[b].key)
        BY <1>1, <3>1, <4>1, <4>3, BeforePasses
      <4> QED  BY <2>4, <4>4
    <3> QED  BY <1>14, <1>17, <2>4, <3>2, <3>3, <3>4
  <2>5. CASE x # a /\ x # b
    <3>1. y \in Under(D, slot(x, e))
      BY <1>15, <1>17, <2>5
    <3> QED  BY <1>12, <3>1
  <2> QED  BY <1>1, <2>1, <2>2, <2>3, <2>4, <2>5
<1>18. ASSUME NEW x \in 1 .. n, NEW e \in 1 .. 2 PROVE new(x, e) # top
  <2>1. slot(x, e) = b => x = a /\ e = d
    BY <1>3, <1>5
  <2>2. b # root
    BY <1>3, <1>5
  <2>3. slot(x, e) # root /\ slot(b, o) # root
    BY <1>1, <1>3
  <2> HIDE DEF slot
  <2> QED  BY <1>4, <1>7, <2>1, <2>2, <2>3
<1>19. ASSUME NEW x \in 1 .. n, NEW y \in 1 .. n, NEW e \in 1 .. 2, NEW f \in 1 .. 2, new(x, e) = new(y, f),
              new(x, e) # Nil
       PROVE  x = y /\ e = f
  <2> HIDE DEF slot
  <2>1. /\ slot(x, e) = b => x = a /\ e = d
        /\ slot(y, f) = b => y = a /\ f = d
        /\ slot(x, e) = slot(y, f) /\ slot(x, e) # Nil => x = y /\ e = f
        /\ slot(x, e) = slot(b, o) /\ slot(x, e) # Nil => x = b /\ e = o
        /\ slot(y, f) = slot(b, o) /\ slot(y, f) # Nil => y = b /\ f = o
    BY <1>1, <1>3, <1>5
  <2>2. /\ new(x, e) = IF x = a /\ e = d THEN slot(b, o) ELSE IF x = b /\ e = o THEN a
                       ELSE IF slot(x, e) = a THEN b ELSE slot(x, e)
        /\ new(y, f) = IF y = a /\ f = d THEN slot(b, o) ELSE IF y = b /\ f = o THEN a
                       ELSE IF slot(y, f) = a THEN b ELSE slot(y, f)
    BY <1>4
  <2> QED  BY <1>5, <1>7, <1>19, <2>1, <2>2, Zenon
<1>20. top \in 1 .. n /\ E[top] = 1 .. n
  <2>1. root \in 1 .. n /\ D[root] = 1 .. n /\ root # b
    BY <1>3, <1>5 DEF Linked
  <2> QED  BY <1>9, <2>1
<1> HIDE DEF top
<1>21. Linked(n, m, turned, top, E)
  <2>1. \A x \in 1 .. n : E[x] = {x} \cup Under(E, turned[x].child[1]) \cup Under(E, turned[x].child[2])
    BY <1>16 DEF new
  <2>2. \A x \in 1 .. n, e \in 1 .. 2 : \A y \in Under(E, turned[x].child[e]) : Before(e, turned[y].key, turned[x].key)
    <3> SUFFICES ASSUME NEW x \in 1 .. n, NEW e \in 1 .. 2, NEW y \in Under(E, new(x, e))
                 PROVE  Before(e, turned[y].key, turned[x].key)
      BY DEF new
    <3>1. Before(e, nodes[y].key, nodes[x].key)
      BY <1>17
    <3>2. y \in E[x]
      <4>1. e = 1 \/ e = 2
        OBVIOUS
      <4> QED  BY <1>16, <4>1
    <3>3. y \in 1 .. n
      BY <1>9, <3>2
    <3> QED  BY <1>10, <3>1, <3>3
  <2>3. \A x \in 1 .. n, e \in 1 .. 2 : turned[x].child[e] # top
    BY <1>18 DEF new
  <2>4. \A x, y \in 1 .. n, e, f \in 1 .. 2 :
          turned[x].child[e] = turned[y].child[f] /\ turned[x].child[e] # Nil => x = y /\ e = f
    BY <1>19 DEF new
  <2> QED  BY <1>9, <1>10, <1>20, <2>1, <2>2, <2>3, <2>4, Zenon DEF Linked
<1> QED  BY <1>21 DEF E, top

-----------------------------------------------------------------------------
(* Colours.                                                                *)

\* The black nodes on a way down from a child.
Blacks(B, c) == IF c = Nil THEN 0 ELSE B[c]

\* B[x] black nodes are on every way down from x.
BlackNodes(n, nodes, B) ==
  /\ B \in [1 .. n -> Nat]
  /\ \A x \in 1 .. n, e \in 1 .. 2 :
       B[x] = Blacks(B, nodes[x].child[e]) + (IF nodes[x].clr = BLACK THEN 1 ELSE 0)

\* No red node has a red child, unless it is the one of p to the side d.
RedsApart(n, nodes, p, d) ==
  \A x \in 1 .. n, e \in 1 .. 2 :
    Red(nodes, x) /\ Red(nodes, nodes[x].child[e]) => x = p /\ e = d

\* The same tree in other colours.
Repaints(painted, nodes, n, m) ==
  /\ painted \in NodesOf(n, m)
  /\ \A x \in 1 .. n : painted[x].child = nodes[x].child /\ painted[x].key = nodes[x].key

\* A child is another node than its parent and the root, and has one parent.
Links(n, nodes, root) ==
  /\ \A x \in 1 .. n, e \in 1 .. 2 :
       /\ nodes[x].child[e] \in 0 .. n /\ nodes[x].child[e] # root /\ nodes[x].child[e] # x
       /\ nodes[x].child[e] # Nil => nodes[x].child[e] \in 1 .. n
  /\ \A x, y \in 1 .. n, e, f \in 1 .. 2 :
       nodes[x].child[e] = nodes[y].child[f] /\ nodes[x].child[e] # Nil => x = y /\ e = f

\* The links of a linked tree are such.
LEMMA LinksOf ==
  ASSUME NEW n \in Nat, NEW m \in Nat, NEW nodes, NEW root, NEW D, Linked(n, m, nodes, root, D)
  PROVE  Links(n, nodes, root)
<1>1. Hangs(n, m, nodes, D)
  BY TreeHangs
<1>2. ASSUME NEW x \in 1 .. n, NEW e \in 1 .. 2
      PROVE  /\ nodes[x].child[e] \in 0 .. n /\ nodes[x].child[e] # x
             /\ nodes[x].child[e] # Nil => nodes[x].child[e] \in 1 .. n
  <2>1. /\ nodes[x].child[e] \in 0 .. n /\ x \notin Under(D, nodes[x].child[e]) /\ x \in D[x]
        /\ nodes[x].child[e] # Nil => nodes[x].child[e] \in 1 .. n
    BY <1>1 DEF Hangs, HangsAt
  <2> QED  BY <2>1 DEF Under, Nil
<1>3. /\ \A x \in 1 .. n, e \in 1 .. 2 : nodes[x].child[e] # root
      /\ \A x, y \in 1 .. n, e, f \in 1 .. 2 :
           nodes[x].child[e] = nodes[y].child[f] /\ nodes[x].child[e] # Nil => x = y /\ e = f
  BY ZenonT(60) DEF Linked
<1> QED  BY <1>2, <1>3 DEF Links

\* Another colour leaves a tree a tree.
LEMMA RepaintedIsTree ==
  ASSUME NEW n \in Nat, NEW m \in Nat, NEW nodes, NEW root, NEW D, Linked(n, m, nodes, root, D),
         NEW painted, Repaints(painted, nodes, n, m)
  PROVE  Linked(n, m, painted, root, D)
<1>1. D \in [1 .. n -> SUBSET (1 .. n)] /\ root \in 1 .. n /\ D[root] = 1 .. n
  BY DEF Linked
<1>2. \A x \in 1 .. n : painted[x].child = nodes[x].child /\ painted[x].key = nodes[x].key
  BY DEF Repaints
<1>3. \A x \in 1 .. n : D[x] = {x} \cup Under(D, painted[x].child[1]) \cup Under(D, painted[x].child[2])
  BY <1>2 DEF Linked
<1>4. ASSUME NEW x \in 1 .. n, NEW e \in 1 .. 2, NEW y \in Under(D, painted[x].child[e])
      PROVE  Before(e, painted[y].key, painted[x].key)
  <2>1. y \in Under(D, nodes[x].child[e])
    BY <1>2, <1>4
  <2>2. Before(e, nodes[y].key, nodes[x].key)
    BY <2>1 DEF Linked
  <2>3. Hangs(n, m, nodes, D)
    BY TreeHangs
  <2>4. y \in 1 .. n
    BY <2>1, <2>3, Zenon DEF Hangs, HangsAt
  <2> QED  BY <1>2, <2>2, <2>4
<1>5. \A x \in 1 .. n, e \in 1 .. 2 : painted[x].child[e] # root
  BY <1>2 DEF Linked
<1>6. \A x, y \in 1 .. n, e, f \in 1 .. 2 :
        painted[x].child[e] = painted[y].child[f] /\ painted[x].child[e] # Nil => x = y /\ e = f
  BY <1>2, SMTT(60) DEF Linked
<1>7. painted \in NodesOf(n, m)
  BY DEF Repaints
<1> QED  BY <1>1, <1>3, <1>4, <1>5, <1>6, <1>7 DEF Linked

\* A new node is red and has no black node under it.
LEMMA GrownInColour ==
  ASSUME NEW n \in Nat, NEW m \in Nat, NEW nodes, NEW root, NEW D, Linked(n, m, nodes, root, D),
         NEW B, BlackNodes(n, nodes, B), RedsApart(n, nodes, Nil, 0),
         NEW p \in 1 .. n, NEW d \in 1 .. 2, nodes[p].child[d] = Nil, NEW k,
         NEW more, Grows(more, nodes, n, m, p, d, k)
  PROVE  /\ \E C : BlackNodes(n + 1, more, C)
         /\ RedsApart(n + 1, more, p, d)
<1> DEFINE C == [x \in 1 .. n + 1 |-> IF x = n + 1 THEN 0 ELSE B[x]]
<1>1. \A x \in 1 .. n + 1 : x = n + 1 \/ (x \in 1 .. n /\ x # n + 1)
  OBVIOUS
<1>2. B \in [1 .. n -> Nat]
  BY DEF BlackNodes
<1>3. C \in [1 .. n + 1 -> Nat] /\ C[n + 1] = 0 /\ \A x \in 1 .. n : C[x] = B[x]
  BY <1>1, <1>2
<1> HIDE DEF C
<1>4. \A x \in 1 .. n, e \in 1 .. 2 :
        /\ nodes[x].child[e] # Nil => nodes[x].child[e] \in 1 .. n
        /\ more[x].child[e] = IF x = p /\ e = d THEN n + 1 ELSE nodes[x].child[e]
        /\ more[x].clr = nodes[x].clr
  BY LinksOf, SMTT(60) DEF Links, Grows
<1>5. \A e \in 1 .. 2 : more[n + 1].child[e] = Nil /\ more[n + 1].clr = RED
  BY DEF Grows
<1>6. ASSUME NEW x \in 1 .. n + 1, NEW e \in 1 .. 2
      PROVE  C[x] = Blacks(C, more[x].child[e]) + (IF more[x].clr = BLACK THEN 1 ELSE 0)
  <2>1. CASE x = n + 1
    BY <1>3, <1>5, <2>1, SMTT(60) DEF Blacks, RED, BLACK
  <2>2. CASE x # n + 1
    <3>1. x \in 1 .. n
      BY <2>2
    <3>2. B[x] = Blacks(B, nodes[x].child[e]) + (IF nodes[x].clr = BLACK THEN 1 ELSE 0)
      BY <3>1, Zenon DEF BlackNodes
    <3>3. Blacks(C, more[x].child[e]) = Blacks(B, nodes[x].child[e])
      <4>1. CASE x = p /\ e = d
        <5>1. more[x].child[e] = n + 1 /\ n + 1 # Nil
          BY <1>4, <3>1, <4>1 DEF Nil
        <5> QED  BY <1>3, <4>1, <5>1 DEF Blacks
      <4>2. CASE ~(x = p /\ e = d)
        <5>1. more[x].child[e] = nodes[x].child[e] /\ (nodes[x].child[e] # Nil => nodes[x].child[e] \in 1 .. n)
          BY <1>4, <3>1, <4>2
        <5> QED  BY <1>3, <5>1, Zenon DEF Blacks
      <4> QED  BY <4>1, <4>2
    <3> QED  BY <1>3, <1>4, <3>1, <3>2, <3>3, Zenon
  <2> QED  BY <2>1, <2>2
<1>7. ASSUME NEW x \in 1 .. n + 1, NEW e \in 1 .. 2, Red(more, x), Red(more, more[x].child[e])
      PROVE x = p /\ e = d
  <2>1. x # n + 1
    BY <1>5, <1>7 DEF Red
  <2>2. x \in 1 .. n
    BY <2>1
  <2> SUFFICES ASSUME ~(x = p /\ e = d) PROVE FALSE
    OBVIOUS
  <2>3. more[x].child[e] = nodes[x].child[e]
    BY <1>4, <2>2
  <2>4. Red(nodes, nodes[x].child[e]) /\ Red(nodes, x)
    BY <1>4, <1>7, <2>2, <2>3 DEF Red
  <2>5. x = Nil
    BY <2>2, <2>4 DEF RedsApart
  <2> QED  BY <2>2, <2>5 DEF Nil
<1>8. BlackNodes(n + 1, more, C)
  BY <1>3, <1>6 DEF BlackNodes
<1> QED  BY <1>7, <1>8 DEF RedsApart

\* f and u have become black and g red.
ThreeColours(painted, nodes, n, m, f, u, g) ==
  /\ Repaints(painted, nodes, n, m)
  /\ \A x \in 1 .. n :
       painted[x].clr = IF x = f \/ x = u THEN BLACK ELSE IF x = g THEN RED ELSE nodes[x].clr

\* No other link leads to g than the one of p to the side c.
OnlyLink(nodes, n, g, p, c) ==
  \A x \in 1 .. n, e \in 1 .. 2 : nodes[x].child[e] = g => x = p /\ e = c

\* The colours when father f and uncle u become black and grandfather g red: what
\* may be left is a red father of g.
LEMMA RecolouredColours ==
  ASSUME NEW n \in Nat, NEW m \in Nat, NEW nodes, NEW root, NEW D, Linked(n, m, nodes, root, D),
         NEW B, BlackNodes(n, nodes, B), NEW f \in 1 .. n, NEW a, RedsApart(n, nodes, f, a),
         NEW g \in 1 .. n, NEW u \in 1 .. n, NEW d \in 1 .. 2,
         nodes[g].child[d] = f, nodes[g].child[Opposite(d)] = u, Red(nodes, f), Red(nodes, u),
         NEW painted, ThreeColours(painted, nodes, n, m, f, u, g),
         NEW p, NEW c, OnlyLink(nodes, n, g, p, c)
  PROVE  /\ \E C : BlackNodes(n, painted, C)
         /\ RedsApart(n, painted, p, c)
         /\ g # f /\ g # u /\ painted[g].clr = RED
<1> DEFINE o == Opposite(d)
           C == [x \in 1 .. n |-> IF x = f \/ x = u THEN B[x] + 1 ELSE B[x]]
           black(x) == IF nodes[x].clr = BLACK THEN 1 ELSE 0
<1>1. /\ Repaints(painted, nodes, n, m)
      /\ \A x \in 1 .. n :
           painted[x].clr = IF x = f \/ x = u THEN BLACK ELSE IF x = g THEN RED ELSE nodes[x].clr
  BY DEF ThreeColours
<1>2. o \in 1 .. 2 /\ \A e \in 1 .. 2 : e = d \/ e = o
  BY DEF Opposite
<1>3. /\ \A x \in 1 .. n, e \in 1 .. 2 :
           nodes[x].child[e] # x /\ (nodes[x].child[e] # Nil => nodes[x].child[e] \in 1 .. n)
      /\ \A x, y \in 1 .. n, e, h \in 1 .. 2 :
           nodes[x].child[e] = nodes[y].child[h] /\ nodes[x].child[e] # Nil => x = y /\ e = h
  <2>1. Links(n, nodes, root)
    BY LinksOf
  <2> QED  BY <2>1 DEF Links
<1>4. g # f /\ g # u /\ f # Nil /\ u # Nil /\ g # Nil
  BY <1>2, <1>3 DEF Nil
<1>5. \A x \in 1 .. n, e \in 1 .. 2 : nodes[x].child[e] = f \/ nodes[x].child[e] = u => x = g
  BY <1>2, <1>3, <1>4
<1>6. \A x \in 1 .. n : painted[x].child = nodes[x].child
  BY <1>1 DEF Repaints
<1>7. nodes[f].clr = RED /\ nodes[u].clr = RED /\ RED # BLACK
  BY DEF Red, RED, BLACK
<1>8. nodes[g].clr = BLACK
  <2>1. nodes[g].clr # RED
    BY <1>4 DEF RedsApart, Red
  <2>2. nodes[g].clr \in {BLACK, RED}
    BY DEF Linked, NodesOf
  <2> QED  BY <2>1, <2>2
<1>9. B \in [1 .. n -> Nat] /\ \A x \in 1 .. n, e \in 1 .. 2 : B[x] = Blacks(B, nodes[x].child[e]) + black(x)
  BY DEF BlackNodes
<1>10. C \in [1 .. n -> Nat] /\ \A x \in 1 .. n : C[x] = IF x = f \/ x = u THEN B[x] + 1 ELSE B[x]
  BY <1>9, SMTT(60)
<1> HIDE DEF C, o, black
<1>11. ASSUME NEW x \in 1 .. n, NEW e \in 1 .. 2
       PROVE  C[x] = Blacks(C, painted[x].child[e]) + (IF painted[x].clr = BLACK THEN 1 ELSE 0)
  <2>1. painted[x].child[e] = nodes[x].child[e] /\ B[x] = Blacks(B, nodes[x].child[e]) + black(x)
    BY <1>6, <1>9, Zenon
  <2>2. nodes[x].child[e] # Nil => nodes[x].child[e] \in 1 .. n
    BY <1>3
  <2>3. CASE x = g
    <3>1. nodes[x].child[e] \in {f, u}
      BY <1>2, <2>3 DEF o
    <3>2. /\ Blacks(C, nodes[x].child[e]) = C[nodes[x].child[e]]
          /\ Blacks(B, nodes[x].child[e]) = B[nodes[x].child[e]]
      BY <1>4, <3>1 DEF Blacks
    <3>3. C[nodes[x].child[e]] = B[nodes[x].child[e]] + 1 /\ C[x] = B[x]
      BY <1>4, <1>10, <2>3, <3>1, Zenon
    <3>4. painted[x].clr = RED /\ black(x) = 1
      BY <1>1, <1>4, <1>8, <2>3 DEF black
    <3>5. B[nodes[x].child[e]] \in Nat
      BY <1>9, <3>1, Zenon
    <3> QED  BY <1>7, <2>1, <3>2, <3>3, <3>4, <3>5
  <2>4. CASE x # g
    <3>1. nodes[x].child[e] # f /\ nodes[x].child[e] # u
      BY <1>5, <2>4
    <3>2. Blacks(C, nodes[x].child[e]) = Blacks(B, nodes[x].child[e]) /\ Blacks(B, nodes[x].child[e]) \in Nat
      BY <1>9, <1>10, <2>2, <3>1, Zenon DEF Blacks
    <3>3. CASE x = f \/ x = u
      <4>1. painted[x].clr = BLACK /\ black(x) = 0 /\ C[x] = B[x] + 1
        BY <1>1, <1>7, <1>10, <3>3 DEF black
      <4> QED  BY <2>1, <3>2, <4>1
    <3>4. CASE x # f /\ x # u
      <4>1. painted[x].clr = nodes[x].clr /\ C[x] = B[x]
        BY <1>1, <1>10, <2>4, <3>4
      <4> QED  BY <2>1, <3>2, <4>1 DEF black
    <3> QED  BY <3>3, <3>4
  <2> QED  BY <2>3, <2>4
<1>12. ASSUME NEW x \in 1 .. n, NEW e \in 1 .. 2, Red(painted, x), Red(painted, painted[x].child[e])
       PROVE x = p /\ e = c
  <2> DEFINE y == nodes[x].child[e]
  <2>1. painted[x].child[e] = y /\ y # Nil /\ y \in 1 .. n
    BY <1>3, <1>6, <1>12 DEF Red
  <2>2. painted[x].clr = RED /\ painted[y].clr = RED
    BY <1>12, <2>1 DEF Red
  <2>3. x # f /\ x # u /\ y # f /\ y # u
    BY <1>1, <1>7, <2>1, <2>2
  <2>4. x # g
    <3> SUFFICES ASSUME x = g PROVE FALSE
      OBVIOUS
    <3>1. y = f \/ y = u
      BY <1>2 DEF o
    <3> QED  BY <2>3, <3>1
  <2>5. y = g
    <3> SUFFICES ASSUME y # g PROVE FALSE
      OBVIOUS
    <3>1. nodes[x].clr = RED /\ nodes[y].clr = RED
      BY <1>1, <2>1, <2>2, <2>3, <2>4
    <3>2. Red(nodes, x) /\ Red(nodes, nodes[x].child[e])
      BY <2>1, <3>1 DEF Red, Nil
    <3>3. x = f
      BY <3>2 DEF RedsApart
    <3> QED  BY <2>3, <3>3
  <2> QED  BY <2>5 DEF OnlyLink
<1>13. BlackNodes(n, painted, C)
  BY <1>10, <1>11, Zenon DEF BlackNodes
<1>14. painted[g].clr = RED
  BY <1>1, <1>4
<1> QED  BY <1>4, <1>12, <1>13, <1>14 DEF RedsApart

\* The colours of a tree whose root is painted black.
LEMMA RootBlackened ==
  ASSUME NEW n \in Nat, NEW m \in Nat, NEW nodes, NEW root, NEW D, Linked(n, m, nodes, root, D),
         NEW B, BlackNodes(n, nodes, B), NEW a, RedsApart(n, nodes, root, a) \/ RedsApart(n, nodes, Nil, a),
         NEW painted, Repaints(painted, nodes, n, m),
         \A x \in 1 .. n : painted[x].clr = IF x = root THEN BLACK ELSE nodes[x].clr
  PROVE  /\ \E C : BlackNodes(n, painted, C)
         /\ RedsApart(n, painted, Nil, 0)
         /\ painted[root].clr = BLACK
<1> DEFINE C == [x \in 1 .. n |-> IF x = root /\ nodes[x].clr = RED THEN B[x] + 1 ELSE B[x]]
<1>1. /\ root \in 1 .. n
      /\ \A x \in 1 .. n, e \in 1 .. 2 :
           nodes[x].child[e] # root /\ (nodes[x].child[e] # Nil => nodes[x].child[e] \in 1 .. n)
  BY LinksOf, ZenonT(60) DEF Linked, Links
<1>2. B \in [1 .. n -> Nat] /\ \A x \in 1 .. n, e \in 1 .. 2 :
        B[x] = Blacks(B, nodes[x].child[e]) + (IF nodes[x].clr = BLACK THEN 1 ELSE 0)
  BY DEF BlackNodes
<1>3. C \in [1 .. n -> Nat] /\ \A x \in 1 .. n :
        C[x] = IF x = root /\ nodes[x].clr = RED THEN B[x] + 1 ELSE B[x]
  BY <1>2
<1> HIDE DEF C
<1>4. \A x \in 1 .. n : painted[x].child = nodes[x].child /\ nodes[x].clr \in {BLACK, RED}
  BY Zenon DEF Repaints, Linked, NodesOf
<1>5. ASSUME NEW x \in 1 .. n, NEW e \in 1 .. 2
      PROVE  C[x] = Blacks(C, painted[x].child[e]) + (IF painted[x].clr = BLACK THEN 1 ELSE 0)
  <2>1. Blacks(C, painted[x].child[e]) = Blacks(B, nodes[x].child[e]) /\ Blacks(B, nodes[x].child[e]) \in Nat
    BY <1>1, <1>2, <1>3, <1>4, ZenonT(60) DEF Blacks
  <2>2. B[x] = Blacks(B, nodes[x].child[e]) + (IF nodes[x].clr = BLACK THEN 1 ELSE 0)
    BY <1>2, Zenon
  <2>3. painted[x].clr = (IF x = root THEN BLACK ELSE nodes[x].clr) /\ nodes[x].clr \in {BLACK, RED}
    BY <1>4
  <2> QED  BY <1>3, <2>1, <2>2, <2>3 DEF RED, BLACK
<1>6. ASSUME NEW x \in 1 .. n, NEW e \in 1 .. 2, Red(painted, x), Red(painted, painted[x].child[e]) PROVE FALSE
  <2>1. x # root /\ Red(nodes, x)
    BY <1>6 DEF Red, RED, BLACK
  <2>2. painted[x].child[e] = nodes[x].child[e] /\ nodes[x].child[e] # root
        /\ (nodes[x].child[e] # Nil => nodes[x].child[e] \in 1 .. n)
    BY <1>1, <1>4
  <2>3. Red(nodes, nodes[x].child[e])
    BY <1>6, <2>2 DEF Red
  <2>4. x = root \/ x = Nil
    BY <2>1, <2>3 DEF RedsApart
  <2> QED  BY <2>1, <2>4 DEF Nil
<1>7. painted[root].clr = BLACK
  BY <1>1
<1>8. BlackNodes(n, painted, C)
  BY <1>3, <1>5 DEF BlackNodes
<1> QED  BY <1>6, <1>7, <1>8 DEF RedsApart

-----------------------------------------------------------------------------
(* The colours of a tree that is rotated.                                  *)

\* Where the links of a rotated tree lead.
TurnedLinks(turned, nodes, n, a, d, b) ==
  /\ a # b /\ Opposite(d) \in 1 .. 2 /\ Opposite(d) # d /\ \A e \in 1 .. 2 : e = d \/ e = Opposite(d)
  /\ turned[a].child[d] = nodes[b].child[Opposite(d)]
     /\ turned[a].child[Opposite(d)] = nodes[a].child[Opposite(d)]
  /\ turned[b].child[d] = nodes[b].child[d] /\ turned[b].child[Opposite(d)] = a
  /\ \A e \in 1 .. 2 : nodes[b].child[e] \notin {a, b}
  /\ nodes[a].child[Opposite(d)] \notin {a, b}
  /\ \A x \in 1 .. n, e \in 1 .. 2 :
       x # a /\ x # b => /\ turned[x].child[e] = IF nodes[x].child[e] = a THEN b ELSE nodes[x].child[e]
                         /\ nodes[x].child[e] # b

\* These are the links after a rotation.
LEMMA TurnedLinksAre ==
  ASSUME NEW n \in Nat, NEW m \in Nat, NEW nodes, NEW root, NEW D, Linked(n, m, nodes, root, D),
         NEW a \in 1 .. n, NEW d \in 1 .. 2, NEW b \in 1 .. n, nodes[a].child[d] = b,
         NEW turned, Rotates(turned, nodes, n, m, a, d, b)
  PROVE  TurnedLinks(turned, nodes, n, a, d, b)
<1> DEFINE o == Opposite(d)
<1>1. o \in 1 .. 2 /\ o # d /\ \A e \in 1 .. 2 : e = d \/ e = o
  BY DEF Opposite
<1>2. /\ \A x \in 1 .. n, e \in 1 .. 2 : nodes[x].child[e] # x
      /\ \A x, y \in 1 .. n, e, h \in 1 .. 2 :
           nodes[x].child[e] = nodes[y].child[h] /\ nodes[x].child[e] # Nil => x = y /\ e = h
  <2>1. Links(n, nodes, root)
    BY LinksOf
  <2> QED  BY <2>1 DEF Links
<1>3. a # Nil /\ b # Nil /\ a # b
  BY <1>2 DEF Nil
<1>4. \A e \in 1 .. 2 : nodes[b].child[e] # a
  <2> SUFFICES ASSUME NEW e \in 1 .. 2, nodes[b].child[e] = a PROVE FALSE
    OBVIOUS
  <2>1. HangsAt(a, n, m, nodes, D) /\ HangsAt(b, n, m, nodes, D)
    BY TreeHangs DEF Hangs
  <2>2. a \in D[a] /\ a \notin D[b] /\ Under(D, a) \subseteq D[b]
    BY <1>3, <2>1 DEF HangsAt
  <2> QED  BY <1>3, <2>2 DEF Under
<1>5. nodes[a].child[o] # a /\ nodes[a].child[o] # b
  BY <1>1, <1>2, <1>3
<1>6. \A x \in 1 .. n, e \in 1 .. 2 :
        turned[x].child[e] = IF x = a /\ e = d THEN nodes[b].child[o] ELSE IF x = b /\ e = o THEN a
                             ELSE IF nodes[x].child[e] = a THEN b ELSE nodes[x].child[e]
  BY DEF Rotates
<1> HIDE DEF o
<1>7. ASSUME NEW x \in 1 .. n, NEW e \in 1 .. 2, x # a, x # b
      PROVE  /\ turned[x].child[e] = IF nodes[x].child[e] = a THEN b ELSE nodes[x].child[e]
             /\ nodes[x].child[e] # b
  <2>1. nodes[x].child[e] # b
    BY <1>2, <1>3, <1>7
  <2> QED  BY <1>6, <1>7, <2>1
<1>8. turned[a].child[d] = nodes[b].child[o] /\ turned[a].child[o] = nodes[a].child[o]
  BY <1>1, <1>3, <1>5, <1>6
<1>9. turned[b].child[d] = nodes[b].child[d] /\ turned[b].child[o] = a
  BY <1>1, <1>3, <1>4, <1>6
<1>10. \A e \in 1 .. 2 : nodes[b].child[e] \notin {a, b}
  BY <1>2, <1>4
<1> QED  BY <1>1, <1>3, <1>5, <1>7, <1>8, <1>9, <1>10 DEF TurnedLinks, o

\* A red child takes the place of its red father: the colours remain as good or
\* bad as they were.
LEMMA RedsRotated ==
  ASSUME NEW n \in Nat, NEW m \in Nat, NEW nodes, NEW root, NEW D, Linked(n, m, nodes, root, D),
         NEW B, BlackNodes(n, nodes, B),
         NEW a \in 1 .. n, NEW d \in 1 .. 2, NEW b \in 1 .. n, nodes[a].child[d] = b,
         RedsApart(n, nodes, a, d), Red(nodes, a), Red(nodes, b),
         NEW turned, Rotates(turned, nodes, n, m, a, d, b), \A x \in 1 .. n : turned[x].clr = nodes[x].clr
  PROVE  /\ BlackNodes(n, turned, B)
         /\ RedsApart(n, turned, b, Opposite(d))
<1> DEFINE o == Opposite(d)
<1>1. TurnedLinks(turned, nodes, n, a, d, b)
  BY TurnedLinksAre, Zenon
<1>2. \A x \in 1 .. n, e \in 1 .. 2 : nodes[x].child[e] # Nil => nodes[x].child[e] \in 1 .. n
  BY LinksOf DEF Links
<1>3. a # Nil /\ b # Nil /\ nodes[a].clr = RED /\ nodes[b].clr = RED /\ RED # BLACK
  BY DEF Nil, Red, RED, BLACK
<1>4. B \in [1 .. n -> Nat] /\ \A x \in 1 .. n, e \in 1 .. 2 :
        B[x] = Blacks(B, nodes[x].child[e]) + (IF nodes[x].clr = BLACK THEN 1 ELSE 0)
  BY DEF BlackNodes
<1>5. /\ \A e \in 1 .. 2 : B[b] = Blacks(B, nodes[b].child[e])
      /\ \A e \in 1 .. 2 : B[a] = Blacks(B, nodes[a].child[e])
      /\ B[a] = B[b]
  <2>1. \A e \in 1 .. 2 : Blacks(B, nodes[b].child[e]) \in Nat /\ Blacks(B, nodes[a].child[e]) \in Nat
    BY <1>2, <1>4, Zenon DEF Blacks
  <2>2. Blacks(B, nodes[a].child[d]) = B[b]
    BY <1>3 DEF Blacks
  <2>3. \A e \in 1 .. 2 : /\ B[b] = Blacks(B, nodes[b].child[e]) + 0
                          /\ B[a] = Blacks(B, nodes[a].child[e]) + 0
    BY <1>3, <1>4, Zenon
  <2> QED  BY <2>1, <2>2, <2>3
<1>6. ASSUME NEW x \in 1 .. n, NEW e \in 1 .. 2
      PROVE  B[x] = Blacks(B, turned[x].child[e]) + (IF turned[x].clr = BLACK THEN 1 ELSE 0)
  <2>1. CASE x = a \/ x = b
    <3>1. Blacks(B, turned[x].child[e]) = B[x]
      BY <1>1, <1>3, <1>5, <2>1, SMTT(60) DEF TurnedLinks, Blacks
    <3>2. turned[x].clr # BLACK /\ B[x] \in Nat
      BY <1>3, <1>4, <2>1, Zenon
    <3> QED  BY <3>1, <3>2, SMTT(60)
  <2>2. CASE x # a /\ x # b
    <3>1. turned[x].child[e] = IF nodes[x].child[e] = a THEN b ELSE nodes[x].child[e]
      BY <1>1, <2>2 DEF TurnedLinks
    <3>2. Blacks(B, turned[x].child[e]) = Blacks(B, nodes[x].child[e])
      BY <1>3, <1>5, <3>1 DEF Blacks
    <3> QED  BY <1>4, <3>2, ZenonT(60)
  <2> QED  BY <2>1, <2>2
<1>7. ASSUME NEW x \in 1 .. n, NEW e \in 1 .. 2, Red(turned, x), Red(turned, turned[x].child[e])
      PROVE x = b /\ e = o
  <2>1. \A y \in 1 .. n, h \in 1 .. 2 : Red(nodes, y) /\ Red(nodes, nodes[y].child[h]) => y = a /\ h = d
    BY DEF RedsApart
  <2>2. \A y \in 1 .. n : Red(turned, y) = Red(nodes, y)
    BY DEF Red
  <2>3. \A y \in 1 .. n, h \in 1 .. 2 : Red(turned, nodes[y].child[h]) = Red(nodes, nodes[y].child[h])
    BY <1>2, SMTT(60) DEF Red
  <2>4. CASE x = a
    <3>1. turned[a].child[e] \in {nodes[b].child[o], nodes[a].child[o]}
      BY <1>1 DEF TurnedLinks
    <3>2. ~Red(nodes, nodes[b].child[o]) /\ ~Red(nodes, nodes[a].child[o])
      BY <1>1, <2>1 DEF TurnedLinks
    <3> QED  BY <1>1, <1>7, <2>3, <2>4, <3>1, <3>2, SMTT(60) DEF TurnedLinks
  <2>5. CASE x = b
    <3>1. e # o => turned[b].child[e] = nodes[b].child[d]
      BY <1>1 DEF TurnedLinks
    <3>2. ~Red(nodes, nodes[b].child[d])
      BY <1>1, <2>1 DEF TurnedLinks
    <3> QED  BY <1>7, <2>3, <2>5, <3>1, <3>2
  <2>6. CASE x # a /\ x # b
    <3>1. turned[x].child[e] = IF nodes[x].child[e] = a THEN b ELSE nodes[x].child[e]
      BY <1>1, <2>6 DEF TurnedLinks
    <3>2. Red(nodes, x) /\ Red(nodes, nodes[x].child[e])
      BY <1>7, <2>2, <2>3, <3>1
    <3> QED  BY <2>1, <2>6, <3>2
  <2> QED  BY <2>4, <2>5, <2>6
<1>8. BlackNodes(n, turned, B)
  BY <1>4, <1>6 DEF BlackNodes
<1> QED  BY <1>7, <1>8 DEF RedsApart

\* b has become black and a red.
NewColours(turned, nodes, n, a, b) ==
  \A x \in 1 .. n : turned[x].clr = IF x = b THEN BLACK ELSE IF x = a THEN RED ELSE nodes[x].clr

\* A red father takes the place of the black grandfather, and his colour, if the
\* uncle is not red: no red node is left with a red child.
LEMMA BlackRotated ==
  ASSUME NEW n \in Nat, NEW m \in Nat, NEW nodes, NEW root, NEW D, Linked(n, m, nodes, root, D),
         NEW B, BlackNodes(n, nodes, B),
         NEW a \in 1 .. n, NEW d \in 1 .. 2, NEW b \in 1 .. n, nodes[a].child[d] = b,
         RedsApart(n, nodes, b, d), Red(nodes, b), ~Red(nodes, nodes[a].child[Opposite(d)]),
         NEW turned, Rotates(turned, nodes, n, m, a, d, b),
         NewColours(turned, nodes, n, a, b)
  PROVE  /\ BlackNodes(n, turned, [B EXCEPT ![a] = B[b], ![b] = B[a]])
         /\ RedsApart(n, turned, Nil, 0)
<1> DEFINE o == Opposite(d)
           C == [B EXCEPT ![a] = B[b], ![b] = B[a]]
<1>1. \A x \in 1 .. n : turned[x].clr = IF x = b THEN BLACK ELSE IF x = a THEN RED ELSE nodes[x].clr
  BY DEF NewColours
<1>2. TurnedLinks(turned, nodes, n, a, d, b)
  BY TurnedLinksAre
<1>3. \A x \in 1 .. n, e \in 1 .. 2 : nodes[x].child[e] # Nil => nodes[x].child[e] \in 1 .. n
  BY LinksOf DEF Links
<1>4. a # Nil /\ b # Nil /\ a # b /\ nodes[b].clr = RED /\ RED # BLACK
  BY <1>2 DEF Nil, Red, RED, BLACK, TurnedLinks
<1>5. nodes[a].clr = BLACK
  <2>1. ~Red(nodes, a)
    BY <1>4 DEF RedsApart
  <2>2. nodes[a].clr \in {BLACK, RED}
    BY DEF Linked, NodesOf
  <2> QED  BY <1>4, <2>1, <2>2 DEF Red
<1>6. B \in [1 .. n -> Nat] /\ \A x \in 1 .. n, e \in 1 .. 2 :
        B[x] = Blacks(B, nodes[x].child[e]) + (IF nodes[x].clr = BLACK THEN 1 ELSE 0)
  BY DEF BlackNodes
<1>7. C \in [1 .. n -> Nat] /\ C[a] = B[b] /\ C[b] = B[a] /\ \A x \in 1 .. n : x # a /\ x # b => C[x] = B[x]
  BY <1>4, <1>6, Zenon
<1>8. /\ \A e \in 1 .. 2 : B[b] = Blacks(B, nodes[b].child[e])
      /\ B[a] = B[b] + 1 /\ B[b] = Blacks(B, nodes[a].child[o]) /\ B[a] \in Nat /\ B[b] \in Nat
  <2>1. \A e \in 1 .. 2 : Blacks(B, nodes[b].child[e]) \in Nat /\ Blacks(B, nodes[a].child[e]) \in Nat
    BY <1>3, <1>6, ZenonT(60) DEF Blacks
  <2>2. Blacks(B, nodes[a].child[d]) = B[b] /\ B[b] \in Nat /\ B[a] \in Nat /\ o \in 1 .. 2
    BY <1>2, <1>4, <1>6 DEF Blacks, TurnedLinks
  <2>3. \A e \in 1 .. 2 : /\ B[b] = Blacks(B, nodes[b].child[e]) + 0
                          /\ B[a] = Blacks(B, nodes[a].child[e]) + 1
    BY <1>4, <1>5, <1>6
  <2> HIDE DEF o
  <2> QED  BY <2>1, <2>2, <2>3
<1> HIDE DEF C
<1>9. ASSUME NEW x \in 1 .. n, NEW e \in 1 .. 2
      PROVE  C[x] = Blacks(C, turned[x].child[e]) + (IF turned[x].clr = BLACK THEN 1 ELSE 0)
  <2>1. \A y \in 1 .. n, h \in 1 .. 2 :
          nodes[y].child[h] \notin {a, b} => Blacks(C, nodes[y].child[h]) = Blacks(B, nodes[y].child[h])
    BY <1>3, <1>7, Zenon DEF Blacks
  <2>2. CASE x = a
    <3>1. turned[a].child[e] \in {nodes[b].child[o], nodes[a].child[o]}
      BY <1>2, SMTT(60) DEF TurnedLinks
    <3>2. Blacks(C, nodes[b].child[o]) = B[b] /\ Blacks(C, nodes[a].child[o]) = B[b]
      BY <1>2, <1>8, <2>1 DEF TurnedLinks
    <3>3. Blacks(C, turned[a].child[e]) = B[b] /\ turned[a].clr = RED
      BY <1>1, <1>4, <3>1, <3>2
    <3> QED  BY <1>4, <1>7, <1>8, <2>2, <3>3
  <2>3. CASE x = b
    <3>1. turned[b].child[e] \in {a, nodes[b].child[d]}
      BY <1>2, SMTT(60) DEF TurnedLinks
    <3>2. Blacks(C, nodes[b].child[d]) = B[b] /\ Blacks(C, a) = B[b]
      BY <1>2, <1>4, <1>7, <1>8, <2>1, SMTT(60) DEF TurnedLinks, Blacks
    <3>3. Blacks(C, turned[b].child[e]) = B[b] /\ turned[b].clr = BLACK
      BY <1>1, <3>1, <3>2
    <3> QED  BY <1>7, <1>8, <2>3, <3>3
  <2>4. CASE x # a /\ x # b
    <3>1. /\ turned[x].child[e] = IF nodes[x].child[e] = a THEN b ELSE nodes[x].child[e]
          /\ nodes[x].child[e] # b
      BY <1>2, <2>4 DEF TurnedLinks
    <3>2. Blacks(C, turned[x].child[e]) = Blacks(B, nodes[x].child[e])
      <4>1. CASE nodes[x].child[e] = a
        BY <1>4, <1>7, <3>1, <4>1 DEF Blacks
      <4>2. CASE nodes[x].child[e] # a
        BY <2>1, <3>1, <4>2
      <4> QED  BY <4>1, <4>2
    <3>3. turned[x].clr = nodes[x].clr /\ C[x] = B[x]
      BY <1>1, <1>7, <2>4
    <3> QED  BY <1>6, <3>2, <3>3, ZenonT(60)
  <2> QED  BY <2>2, <2>3, <2>4
<1>10. ASSUME NEW x \in 1 .. n, NEW e \in 1 .. 2, Red(turned, x), Red(turned, turned[x].child[e]) PROVE FALSE
  <2>1. \A y \in 1 .. n, h \in 1 .. 2 : Red(nodes, y) /\ Red(nodes, nodes[y].child[h]) => y = b /\ h = d
    BY DEF RedsApart
  <2>2. \A c : c \in 1 .. n /\ Red(turned, c) => c # b /\ (c # a => Red(nodes, c))
    BY <1>1, <1>4 DEF Red, RED, BLACK
  <2>3. \A y \in 1 .. n, h \in 1 .. 2 :
          Red(turned, nodes[y].child[h]) => nodes[y].child[h] # b
          /\ (nodes[y].child[h] # a => Red(nodes, nodes[y].child[h]))
    <3> TAKE y \in 1 .. n, h \in 1 .. 2
    <3>1. Red(turned, nodes[y].child[h]) => nodes[y].child[h] \in 1 .. n
      BY <1>3 DEF Red
    <3> QED  BY <2>2, <3>1
  <2>4. CASE x = a
    <3>1. turned[a].child[e] \in {nodes[b].child[o], nodes[a].child[o]}
      BY <1>2 DEF TurnedLinks
    <3>2. ~Red(nodes, nodes[b].child[o])
      BY <1>2, <2>1 DEF TurnedLinks
    <3>3. nodes[b].child[o] # a /\ nodes[a].child[o] # a /\ o \in 1 .. 2
      BY <1>2 DEF TurnedLinks
    <3> QED  BY <1>10, <2>3, <2>4, <3>1, <3>2, <3>3
  <2>5. CASE x # a
    <3>1. x # b /\ Red(nodes, x)
      BY <1>10, <2>2, <2>5
    <3>2. turned[x].child[e] = IF nodes[x].child[e] = a THEN b ELSE nodes[x].child[e]
      BY <1>2, <2>5, <3>1 DEF TurnedLinks
    <3>3. ~Red(turned, b)
      BY <2>2
    <3>4. nodes[x].child[e] # a /\ Red(turned, nodes[x].child[e])
      BY <1>10, <3>2, <3>3
    <3>5. Red(nodes, nodes[x].child[e])
      BY <2>3, <3>4
    <3> QED  BY <2>1, <3>1, <3>5
  <2> QED  BY <2>4, <2>5
<1>11. BlackNodes(n, turned, C)
  BY <1>7, <1>9, Zenon DEF BlackNodes
<1> QED  BY <1>10, <1>11 DEF RedsApart, C

-----------------------------------------------------------------------------
(* The rotations of the code.                                              *)

\* A node is not under its child.
LEMMA NoCycle ==
  ASSUME NEW n \in Nat, NEW m \in Nat, NEW nodes, NEW root, NEW D, Linked(n, m, nodes, root, D),
         NEW a \in 1 .. n, NEW d \in 1 .. 2, NEW b \in 1 .. n, nodes[a].child[d] = b
  PROVE  \A e \in 1 .. 2 : nodes[b].child[e] # a
<1> SUFFICES ASSUME NEW e \in 1 .. 2, nodes[b].child[e] = a PROVE FALSE
  OBVIOUS
<1>1. HangsAt(a, n, m, nodes, D) /\ HangsAt(b, n, m, nodes, D)
  BY TreeHangs DEF Hangs
<1>2. a # Nil /\ b # Nil
  BY SMTT(60) DEF Nil
<1>3. a \in D[a] /\ a \notin D[b] /\ Under(D, a) \subseteq D[b]
  BY <1>1, <1>2 DEF HangsAt
<1> QED  BY <1>2, <1>3 DEF Under

\* Nodes of which only one link has changed, and nodes of which only one colour has.
ChildSet(linked, nodes, n, m, a, d, c) ==
  /\ linked \in NodesOf(n, m)
  /\ \A x \in 1 .. n : linked[x].key = nodes[x].key /\ linked[x].clr = nodes[x].clr
  /\ \A x \in 1 .. n, e \in 1 .. 2 : linked[x].child[e] = IF x = a /\ e = d THEN c ELSE nodes[x].child[e]

\* painted is nodes with a in colour c.
Paints(painted, nodes, n, m, a, c) ==
  /\ Repaints(painted, nodes, n, m)
  /\ \A x \in 1 .. n : painted[x].clr = IF x = a THEN c ELSE nodes[x].clr

\* SetChild() changes that one link.
LEMMA SetChildIs ==
  ASSUME NEW n \in Nat, NEW m \in Nat, NEW nodes \in NodesOf(n, m), NEW a \in 1 .. n, NEW d \in 1 .. 2,
         NEW c \in 0 .. n
  PROVE  ChildSet(SetChild(nodes, a, d, c), nodes, n, m, a, d, c)
<1> DEFINE s == SetChild(nodes, a, d, c)
           child == [nodes[a].child EXCEPT ![d] = c]
<1>1. nodes[a].child \in [1 .. 2 -> 0 .. n]
  BY DEF NodesOf
<1>2. child \in [1 .. 2 -> 0 .. n] /\ \A e \in 1 .. 2 : child[e] = IF e = d THEN c ELSE nodes[a].child[e]
  BY <1>1
<1> HIDE DEF child
<1>3. s = [nodes EXCEPT ![a] = [@ EXCEPT !.child = child]]
  BY DEF SetChild, child
<1> HIDE DEF s
<1>4. s \in NodesOf(n, m) /\ \A x \in 1 .. n : /\ s[x].key = nodes[x].key /\ s[x].clr = nodes[x].clr
                                               /\ s[x].child = IF x = a THEN child ELSE nodes[x].child
  BY <1>2, <1>3, ZenonT(60) DEF NodesOf
<1> QED  BY <1>2, <1>4 DEF s, ChildSet

\* An assignment of a colour changes that one.
LEMMA PaintedIs ==
  ASSUME NEW n \in Nat, NEW m \in Nat, NEW nodes \in NodesOf(n, m), NEW a \in 1 .. n, NEW c \in {BLACK, RED}
  PROVE  Paints([nodes EXCEPT ![a].clr = c], nodes, n, m, a, c)
BY SMTT(60) DEF Paints, Repaints, NodesOf

\* What Turned() does to colours and links, g being the grandfather with his son to the
\* side d, and above, if there is one, his parent.
TurnedNodes(node, nodes, n, s, j, g, d, y) ==
  /\ \A x \in 1 .. n : node[x].key = nodes[x].key
  /\ \A x \in 1 .. n : node[x].clr = IF x = y THEN BLACK ELSE IF x = g THEN RED ELSE nodes[x].clr
  /\ \A x \in 1 .. n, e \in 1 .. 2 :
       node[x].child[e] = IF x = g /\ e = d THEN nodes[y].child[Opposite(d)]
                          ELSE IF x = y /\ e = Opposite(d) THEN g
                          ELSE IF j # 2 /\ x = s[j - 2].node /\ e = s[j - 2].drct THEN y
                          ELSE nodes[x].child[e]

\* The tree that has node for its nodes, and y for its root if the way began at the grandfather.
TurnedTree(t, node, j, y) ==
  IF j = 2 THEN [t EXCEPT !.node = node, !.root = y] ELSE [t EXCEPT !.node = node]

\* Turned() gives y the place of the grandfather g, and makes g its child.
LEMMA TurnedIs ==
  ASSUME NEW n \in Nat, NEW m \in Nat, NEW t, NEW nodes \in NodesOf(n, m),
         NEW s, NEW j \in Nat, j >= 2,
         NEW g \in 1 .. n, NEW d \in 1 .. 2, g = s[j - 1].node, d = s[j - 1].drct,
         NEW y \in 1 .. n, y # g,
         j # 2 => s[j - 2].node \in 1 .. n \ {g, y} /\ s[j - 2].drct \in 1 .. 2
  PROVE  \E node \in NodesOf(n, m) :
           /\ Turned(t, nodes, s, j, y) = TurnedTree(t, node, j, y)
           /\ TurnedNodes(node, nodes, n, s, j, g, d, y)
<1> DEFINE o == Opposite(d)
           c == nodes[y].child[o]
           coloured == [nodes EXCEPT ![g].clr = RED, ![y].clr = BLACK]
           one == SetChild(coloured, g, d, c)
           two == SetChild(one, y, o, g)
           three == SetChild(two, s[j - 2].node, s[j - 2].drct, y)
           node == IF j = 2 THEN two ELSE three
<1>1. o \in 1 .. 2
  BY DEF Opposite
<1>2. c \in 0 .. n /\ g \in 0 .. n /\ y \in 0 .. n
  <2>1. nodes[y].child \in [1 .. 2 -> 0 .. n]
    BY DEF NodesOf
  <2> QED  BY <1>1, <2>1
<1>3. /\ coloured \in NodesOf(n, m)
      /\ \A x \in 1 .. n : /\ coloured[x].key = nodes[x].key /\ coloured[x].child = nodes[x].child
                           /\ coloured[x].clr = IF x = y THEN BLACK ELSE IF x = g THEN RED ELSE nodes[x].clr
  <2> DEFINE red == [nodes EXCEPT ![g].clr = RED]
  <2>1. RED \in {BLACK, RED} /\ BLACK \in {BLACK, RED}
    OBVIOUS
  <2>2. Paints(red, nodes, n, m, g, RED)
    BY <2>1, PaintedIs, Zenon
  <2>3. coloured = [red EXCEPT ![y].clr = BLACK]
    OBVIOUS
  <2> HIDE DEF red, coloured
  <2>4. red \in NodesOf(n, m)
    BY <2>2 DEF Paints, Repaints
  <2>5. Paints(coloured, red, n, m, y, BLACK)
    BY <2>1, <2>3, <2>4, PaintedIs, Zenon
  <2> QED  BY <2>2, <2>5 DEF Paints, Repaints
<1>4. Turned(t, nodes, s, j, y) = TurnedTree(t, node, j, y)
  BY DEF Turned, TurnedTree
<1> HIDE DEF o, c, coloured, one, two, three
<1>5. ChildSet(one, coloured, n, m, g, d, c)
  BY <1>2, <1>3, SetChildIs DEF one
<1>6. one \in NodesOf(n, m)
  BY <1>5 DEF ChildSet
<1>7. ChildSet(two, one, n, m, y, o, g)
  BY <1>1, <1>2, <1>6, SetChildIs DEF two
<1>8. two \in NodesOf(n, m)
  BY <1>7 DEF ChildSet
<1>9. j # 2 => ChildSet(three, two, n, m, s[j - 2].node, s[j - 2].drct, y)
  <2> HAVE j # 2
  <2>1. s[j - 2].node \in 1 .. n /\ s[j - 2].drct \in 1 .. 2
    OBVIOUS
  <2> QED  BY <1>2, <1>8, <2>1, SetChildIs DEF three
<1>10. node \in NodesOf(n, m) /\ \A x \in 1 .. n : node[x].key = nodes[x].key /\ node[x].clr = coloured[x].clr
  BY <1>3, <1>5, <1>7, <1>8, <1>9 DEF ChildSet
<1>11. ASSUME NEW x \in 1 .. n, NEW e \in 1 .. 2
      PROVE  node[x].child[e] = IF x = g /\ e = d THEN c ELSE IF x = y /\ e = o THEN g
                                ELSE IF j # 2 /\ x = s[j - 2].node /\ e = s[j - 2].drct THEN y
                                ELSE nodes[x].child[e]
  <2>1. two[x].child[e] = IF x = g /\ e = d THEN c ELSE IF x = y /\ e = o THEN g ELSE nodes[x].child[e]
    BY <1>3, <1>5, <1>7 DEF ChildSet
  <2> QED  BY <1>9, <2>1 DEF ChildSet
<1> HIDE DEF node
<1>12. \A x \in 1 .. n : node[x].clr = IF x = y THEN BLACK ELSE IF x = g THEN RED ELSE nodes[x].clr
  BY <1>3, <1>10, SMTT(60)
<1> QED  BY <1>4, <1>10, <1>11, <1>12 DEF c, o, TurnedNodes

\* What is known of a tree of n nodes but the order of its keys and colours.
TreeRecords(n, m) ==
  [root : 0 .. n, node : NodesOf(n, m), freeNodeCounter : Int, memoryIsFull : BOOLEAN]

\* No node is taken from the pool.
SameMemory(t, u) == t.freeNodeCounter = u.freeNodeCounter /\ t.memoryIsFull = u.memoryIsFull

\* t is a tree in which only the child of p to the side d may be red like p.
RedBut(t, n, m, p, d) ==
  /\ t \in TreeRecords(n, m)
  /\ \E D : Linked(n, m, t.node, t.root, D)
  /\ \E B : BlackNodes(n, t.node, B)
  /\ RedsApart(n, t.node, p, d)

\* A way down from the root.
WayFromRoot(s, n, nodes, root) ==
  /\ Len(s) \in Nat /\ Len(s) >= 1 /\ s[1].node = root
  /\ \A i \in 1 .. Len(s) : s[i].node \in 1 .. n /\ s[i].drct \in 1 .. 2
  /\ \A i \in 1 .. Len(s) : i # Len(s) => nodes[s[i].node].child[s[i].drct] = s[i + 1].node

\* g is the root, or the only link to g is the one two steps before j on the way.
AboveLink(nodes, root, n, s, j, g) ==
  /\ j = 2 => g = root
  /\ j # 2 => s[j - 2].node \in 1 .. n /\ s[j - 2].drct \in 1 .. 2
  /\ \A x \in 1 .. n, e \in 1 .. 2 :
       nodes[x].child[e] = g <=> j # 2 /\ x = s[j - 2].node /\ e = s[j - 2].drct

\* Above the grandfather is his parent on the way, or nothing.
LEMMA AboveIs ==
  ASSUME NEW n \in Nat, NEW m \in Nat, NEW nodes, NEW root, NEW D, Linked(n, m, nodes, root, D),
         NEW s, WayFromRoot(s, n, nodes, root), NEW j \in 2 .. Len(s)
  PROVE  /\ s[j - 1].node \in 1 .. n /\ s[j - 1].drct \in 1 .. 2 /\ s[j].node \in 1 .. n /\ s[j].drct \in 1 .. 2
         /\ nodes[s[j - 1].node].child[s[j - 1].drct] = s[j].node
         /\ j # 2 => nodes[s[j - 2].node].child[s[j - 2].drct] = s[j - 1].node
         /\ AboveLink(nodes, root, n, s, j, s[j - 1].node)
<1>1. Len(s) \in Nat /\ j - 1 \in 1 .. Len(s) /\ j - 1 # Len(s) /\ (j - 1) + 1 = j
  BY DEF WayFromRoot
<1>2. /\ s[j - 1].node \in 1 .. n /\ s[j - 1].drct \in 1 .. 2 /\ s[j].node \in 1 .. n /\ s[j].drct \in 1 .. 2
      /\ nodes[s[j - 1].node].child[s[j - 1].drct] = s[j].node
  BY <1>1, SMTT(60) DEF WayFromRoot
<1>3. j = 2 => s[j - 1].node = root
  BY DEF WayFromRoot
<1>4. j # 2 => /\ s[j - 2].node \in 1 .. n /\ s[j - 2].drct \in 1 .. 2
               /\ nodes[s[j - 2].node].child[s[j - 2].drct] = s[j - 1].node
  <2> HAVE j # 2
  <2>1. j - 2 \in 1 .. Len(s) /\ j - 2 # Len(s) /\ (j - 2) + 1 = j - 1
    BY <1>1
  <2> QED  BY <2>1 DEF WayFromRoot
<1>5. Links(n, nodes, root)
  BY LinksOf
<1>6. ASSUME NEW x \in 1 .. n, NEW e \in 1 .. 2
      PROVE  nodes[x].child[e] = s[j - 1].node <=> j # 2 /\ x = s[j - 2].node /\ e = s[j - 2].drct
  <2>1. s[j - 1].node # Nil /\ nodes[x].child[e] # root
    BY <1>2, <1>5, SMTT(60) DEF Nil, Links
  <2>2. CASE j = 2
    BY <1>3, <2>1, <2>2
  <2>3. CASE j # 2
    <3> DEFINE p == s[j - 2].node
               h == s[j - 2].drct
    <3>1. p \in 1 .. n /\ h \in 1 .. 2 /\ nodes[p].child[h] = s[j - 1].node
      BY <1>4, <2>3
    <3> HIDE DEF p, h
    <3>2. \A v, w \in 1 .. n, i, k \in 1 .. 2 :
            nodes[v].child[i] = nodes[w].child[k] /\ nodes[v].child[i] # Nil => v = w /\ i = k
      BY <1>5, Zenon DEF Links
    <3>3. nodes[x].child[e] = s[j - 1].node <=> x = p /\ e = h
      BY <2>1, <3>1, <3>2, SMTT(60)
    <3> QED  BY <2>3, <3>3 DEF p, h
  <2> QED  BY <2>2, <2>3, SMTT(60)
<1> QED  BY <1>2, <1>3, <1>4, <1>6 DEF AboveLink

\* The nodes are the same but for the link of g to the side d.
ButOneLink(nodes, mid, n, g, d) ==
  /\ \A x \in 1 .. n : nodes[x].key = mid[x].key /\ nodes[x].clr = mid[x].clr
  /\ \A x \in 1 .. n, e \in 1 .. 2 : (x = g /\ e = d) \/ nodes[x].child[e] = mid[x].child[e]

\* y, the red son of g to the side d, takes the place of g.  nodes are those of t
\* but for the link from g, which Turned() sets anyway.
LEMMA TurnedIsRight ==
  ASSUME NEW n \in Nat, NEW m \in Nat, NEW t \in TreeRecords(n, m), NEW mid \in NodesOf(n, m),
         NEW D, Linked(n, m, mid, t.root, D), NEW B, BlackNodes(n, mid, B),
         NEW s, NEW j \in Nat, j >= 2, NEW g \in 1 .. n, NEW d \in 1 .. 2, g = s[j - 1].node, d = s[j - 1].drct,
         AboveLink(mid, t.root, n, s, j, g),
         NEW y \in 1 .. n, mid[g].child[d] = y,
         RedsApart(n, mid, y, d), Red(mid, y), ~Red(mid, mid[g].child[Opposite(d)]),
         NEW nodes \in NodesOf(n, m), ButOneLink(nodes, mid, n, g, d)
  PROVE  RedBut(Turned(t, nodes, s, j, y), n, m, Nil, 0) /\ SameMemory(Turned(t, nodes, s, j, y), t)
<1> DEFINE u == Turned(t, nodes, s, j, y)
           o == Opposite(d)
<1>1. /\ j = 2 => g = t.root
      /\ j # 2 => s[j - 2].node \in 1 .. n /\ s[j - 2].drct \in 1 .. 2
      /\ \A x \in 1 .. n, e \in 1 .. 2 :
           mid[x].child[e] = g <=> j # 2 /\ x = s[j - 2].node /\ e = s[j - 2].drct
  BY DEF AboveLink
<1>2. /\ \A x \in 1 .. n : nodes[x].key = mid[x].key /\ nodes[x].clr = mid[x].clr
      /\ \A x \in 1 .. n, e \in 1 .. 2 : (x = g /\ e = d) \/ nodes[x].child[e] = mid[x].child[e]
  BY SMTT(60) DEF ButOneLink
<1>3. o \in 1 .. 2 /\ o # d
  BY DEF Opposite
<1>4. Links(n, mid, t.root)
  BY LinksOf, SMTT(60)
<1>5. y # g /\ \A e \in 1 .. 2 : mid[y].child[e] # g
  BY <1>4, NoCycle, SMTT(60) DEF Links
<1>6. j # 2 => s[j - 2].node \in (1 .. n) \ {g, y} /\ s[j - 2].drct \in 1 .. 2
  <2> HAVE j # 2
  <2> DEFINE p == s[j - 2].node
             h == s[j - 2].drct
  <2>1. p \in 1 .. n /\ h \in 1 .. 2
    BY <1>1
  <2>2. mid[p].child[h] = g
    BY <1>1, <2>1
  <2> HIDE DEF p, h
  <2>3. p # g
    BY <1>4, <2>1, <2>2 DEF Links
  <2>4. p # y
    BY <1>5, <2>1, <2>2, SMTT(60)
  <2> QED  BY <2>1, <2>3, <2>4 DEF p, h
<1>7. PICK node \in NodesOf(n, m) :
        u = TurnedTree(t, node, j, y) /\ TurnedNodes(node, nodes, n, s, j, g, d, y)
  BY <1>5, <1>6, TurnedIs, SMTT(60)
<1> HIDE DEF u, o
<1>8. Rotates(node, mid, n, m, g, d, y)
  <2>1. ASSUME NEW x \in 1 .. n, NEW e \in 1 .. 2
        PROVE  node[x].child[e] = IF x = g /\ e = d THEN mid[y].child[o] ELSE IF x = y /\ e = o THEN g
                                  ELSE IF mid[x].child[e] = g THEN y ELSE mid[x].child[e]
    <3>1. nodes[y].child[o] = mid[y].child[o]
      BY <1>2, <1>3, <1>5, SMTT(60)
    <3>2. (x = g /\ e = d) \/ nodes[x].child[e] = mid[x].child[e]
      BY <1>2, SMTT(60)
    <3>3. mid[x].child[e] = g <=> j # 2 /\ x = s[j - 2].node /\ e = s[j - 2].drct
      BY <1>1, SMTT(60)
    <3> QED  BY <1>7, <3>1, <3>2, <3>3, SMTT(60) DEF TurnedNodes, o
  <2>2. \A x \in 1 .. n : node[x].key = mid[x].key
    BY <1>2, <1>7, SMTT(60) DEF TurnedNodes
  <2> QED  BY <2>1, <2>2, SMTT(60) DEF Rotates, o
<1>9. NewColours(node, mid, n, g, y)
  BY <1>2, <1>7 DEF TurnedNodes, NewColours
<1>10. /\ BlackNodes(n, node, [B EXCEPT ![g] = B[y], ![y] = B[g]])
       /\ RedsApart(n, node, Nil, 0)
  BY <1>8, <1>9, BlackRotated, Zenon
<1>11. Linked(n, m, node, IF t.root = g THEN y ELSE t.root, BelowTurned(n, mid, D, g, d, y))
  BY <1>8, RotatedIsTree, ZenonT(60)
<1>12. u \in TreeRecords(n, m) /\ u.node = node /\ u.root = (IF t.root = g THEN y ELSE t.root)
       /\ SameMemory(u, t)
  <2>1. y \in 0 .. n
    BY SMTT(60)
  <2>2. j # 2 => t.root # g
    <3> HAVE j # 2
    <3>1. mid[s[j - 2].node].child[s[j - 2].drct] = g
      BY <1>1
    <3> QED  BY <1>1, <1>4, <3>1 DEF Links
  <2>3. CASE j = 2
    BY <1>1, <1>7, <2>1, <2>3, ZenonT(60) DEF TreeRecords, SameMemory, TurnedTree
  <2>4. CASE j # 2
    BY <1>7, <2>2, <2>4, SMTT(60) DEF TreeRecords, SameMemory, TurnedTree
  <2> QED  BY <2>3, <2>4
<1>13. RedBut(u, n, m, Nil, 0)
  BY <1>10, <1>11, <1>12 DEF RedBut
<1> QED  BY <1>12, <1>13 DEF u

\* Nor is it under the child of a child.
LEMMA NoLongerCycle ==
  ASSUME NEW n \in Nat, NEW m \in Nat, NEW nodes, NEW root, NEW D, Linked(n, m, nodes, root, D),
         NEW a \in 1 .. n, NEW d \in 1 .. 2, NEW b \in 1 .. n, nodes[a].child[d] = b,
         NEW e \in 1 .. 2, NEW c \in 1 .. n, nodes[b].child[e] = c
  PROVE  \A h \in 1 .. 2 : nodes[c].child[h] # a
<1> SUFFICES ASSUME NEW h \in 1 .. 2, nodes[c].child[h] = a PROVE FALSE
  OBVIOUS
<1>1. HangsAt(a, n, m, nodes, D) /\ HangsAt(b, n, m, nodes, D) /\ HangsAt(c, n, m, nodes, D)
  BY TreeHangs DEF Hangs
<1>2. a # Nil /\ b # Nil /\ c # Nil
  BY SMTT(60) DEF Nil
<1>3. a \in D[a] /\ a \notin D[b] /\ Under(D, c) \subseteq D[b] /\ Under(D, a) \subseteq D[c]
  BY <1>1, <1>2 DEF HangsAt
<1> QED  BY <1>2, <1>3 DEF Under

\* Rotated() leaves no red node with a red child.
LEMMA RotatedIsRight ==
  ASSUME NEW n \in Nat, NEW m \in Nat, NEW t, NEW s, NEW j \in 2 .. Len(s),
         WayFromRoot(s, n, t.node, t.root), RedBut(t, n, m, s[j].node, s[j].drct),
         Red(t.node, s[j].node), Red(t.node, t.node[s[j].node].child[s[j].drct]), ~Red(t.node, Uncle(t, s, j))
  PROVE  RedBut(Rotated(t, s, j), n, m, Nil, 0) /\ SameMemory(Rotated(t, s, j), t)
<1> DEFINE nodes == t.node
           g == s[j - 1].node
           d == s[j - 1].drct
           f == s[j].node
           o == Opposite(d)
           y == nodes[f].child[o]
<1>1. t \in TreeRecords(n, m) /\ RedsApart(n, nodes, f, s[j].drct) /\ nodes \in NodesOf(n, m)
  BY DEF RedBut, TreeRecords
<1>2. PICK D : Linked(n, m, nodes, t.root, D)
  BY DEF RedBut
<1>3. PICK B : BlackNodes(n, nodes, B)
  BY SMTT(60) DEF RedBut
<1>4. /\ g \in 1 .. n /\ d \in 1 .. 2 /\ f \in 1 .. n /\ s[j].drct \in 1 .. 2
      /\ nodes[g].child[d] = f /\ AboveLink(nodes, t.root, n, s, j, g)
  BY <1>2, AboveIs, SMTT(60)
<1>5. j \in Nat /\ j >= 2
  BY SMTT(60) DEF WayFromRoot
<1>6. o \in 1 .. 2 /\ o # d /\ Opposite(o) = d
  BY <1>4, SMTT(60) DEF Opposite
<1>7. Uncle(t, s, j) = nodes[g].child[o]
  BY DEF Uncle
<1>8. CASE s[j].drct = d
  <2>1. Rotated(t, s, j) = Turned(t, nodes, s, j, f)
    BY <1>8 DEF Rotated
  <2>2. ButOneLink(nodes, nodes, n, g, d)
    BY DEF ButOneLink
  <2> HIDE DEF nodes, g, d, f, o, y
  <2>3. RedsApart(n, nodes, f, d) /\ Red(nodes, f) /\ ~Red(nodes, nodes[g].child[Opposite(d)])
    BY <1>1, <1>7, <1>8 DEF nodes, f, o
  <2>4. RedBut(Turned(t, nodes, s, j, f), n, m, Nil, 0) /\ SameMemory(Turned(t, nodes, s, j, f), t)
    <3>1. g = s[j - 1].node /\ d = s[j - 1].drct
      BY DEF g, d
    <3> QED  BY <1>1, <1>2, <1>3, <1>4, <1>5, <2>2, <2>3, <3>1, TurnedIsRight, ZenonT(60)
  <2> QED  BY <2>1, <2>4, SMTT(60)
<1>9. CASE s[j].drct # d
  <2>1. s[j].drct = o
    BY <1>4, <1>9, SMTT(60) DEF Opposite
  <2> DEFINE one == SetChild(nodes, f, o, nodes[y].child[d])
             two == SetChild(one, y, d, f)
             mid == SetChild(two, g, d, y)
  <2>2. Rotated(t, s, j) = Turned(t, two, s, j, y)
    BY <1>9 DEF Rotated
  <2>3. Red(nodes, y) /\ Red(nodes, f) /\ RedsApart(n, nodes, f, o) /\ ~Red(nodes, nodes[g].child[o])
    BY <1>1, <1>7, <2>1, Zenon
  <2>4. g = s[j - 1].node /\ d = s[j - 1].drct
    OBVIOUS
  <2>5. nodes[f].child[o] = y
    BY SMTT(60)
  <2> HIDE DEF nodes, g, d, f, o, y, one, two, mid
  <2>6. y \in 1 .. n /\ nodes[y].child[d] \in 0 .. n /\ f \in 0 .. n /\ y \in 0 .. n
    <3>1. Links(n, nodes, t.root)
      BY <1>2, LinksOf, SMTT(60)
    <3>2. y # Nil
      BY <2>3, SMTT(60) DEF Red
    <3>3. y \in 1 .. n
      BY <1>4, <1>6, <2>5, <3>1, <3>2, SMTT(60) DEF Links
    <3>4. nodes[y].child[d] \in 0 .. n
      BY <1>4, <3>1, <3>3, SMTT(60) DEF Links
    <3> QED  BY <1>4, <3>3, <3>4
  <2>7. ChildSet(one, nodes, n, m, f, o, nodes[y].child[d]) /\ one \in NodesOf(n, m)
    <3>1. ChildSet(one, nodes, n, m, f, o, nodes[y].child[d])
      BY <1>1, <1>4, <1>6, <2>6, SetChildIs, ZenonT(60) DEF one
    <3> QED  BY <3>1 DEF ChildSet
  <2>8. ChildSet(two, one, n, m, y, d, f) /\ two \in NodesOf(n, m)
    <3>1. ChildSet(two, one, n, m, y, d, f)
      BY <1>4, <2>6, <2>7, SetChildIs, SMTT(60) DEF two
    <3> QED  BY <3>1, SMTT(60) DEF ChildSet
  <2>9. ChildSet(mid, two, n, m, g, d, y) /\ mid \in NodesOf(n, m)
    <3>1. ChildSet(mid, two, n, m, g, d, y)
      BY <1>4, <2>6, <2>8, SetChildIs, SMTT(60) DEF mid
    <3> QED  BY <3>1, SMTT(60) DEF ChildSet
  <2>10. g # f /\ f # y /\ g # y
    <3>1. Links(n, nodes, t.root)
      BY <1>2, LinksOf
    <3>2. \A e \in 1 .. 2 : nodes[f].child[e] # g
      BY <1>2, <1>4, NoCycle, SMTT(60)
    <3> QED  BY <1>4, <1>6, <2>5, <3>1, <3>2, SMTT(60) DEF Links
  <2>11. \A x \in 1 .. n, e \in 1 .. 2 :
           mid[x].child[e] = IF x = g /\ e = d THEN y ELSE IF x = y /\ e = d THEN f
                             ELSE IF x = f /\ e = o THEN nodes[y].child[d] ELSE nodes[x].child[e]
    BY <2>7, <2>8, <2>9, SMTT(60) DEF ChildSet
  <2>12. \A x \in 1 .. n : mid[x].key = nodes[x].key /\ mid[x].clr = nodes[x].clr
    BY <2>7, <2>8, <2>9, SMTT(60) DEF ChildSet
  <2>13. Rotates(mid, nodes, n, m, f, o, y)
    <3>1. ASSUME NEW x \in 1 .. n, NEW e \in 1 .. 2
          PROVE  mid[x].child[e] = IF x = f /\ e = o THEN nodes[y].child[d] ELSE IF x = y /\ e = d THEN f
                                   ELSE IF nodes[x].child[e] = f THEN y ELSE nodes[x].child[e]
      <4>1. nodes[x].child[e] = f <=> x = g /\ e = d
        <5>1. Links(n, nodes, t.root)
          BY <1>2, LinksOf
        <5>2. \A v, w \in 1 .. n, i, k \in 1 .. 2 :
                nodes[v].child[i] = nodes[w].child[k] /\ nodes[v].child[i] # Nil => v = w /\ i = k
          BY <5>1, Zenon DEF Links
        <5>3. f # Nil
          BY <1>4 DEF Nil
        <5> QED  BY <1>4, <5>2, <5>3, SMTT(60)
      <4> QED  BY <2>10, <2>11, <4>1, SMTT(60)
    <3> QED  BY <1>6, <2>9, <2>12, <3>1, SMTT(60) DEF Rotates
  <2>14. BlackNodes(n, mid, B) /\ RedsApart(n, mid, y, d)
    <3>1. \A x \in 1 .. n : mid[x].clr = nodes[x].clr
      BY <2>12
    <3> QED  BY <1>2, <1>3, <1>4, <1>6, <2>3, <2>6, <2>5, <2>13, <3>1, RedsRotated, SMTT(60)
  <2>15. PICK E : Linked(n, m, mid, t.root, E)
    <3>1. t.root # f
      <4>1. Links(n, nodes, t.root)
        BY <1>2, LinksOf
      <4> QED  BY <1>4, <4>1, SMTT(60) DEF Links
    <3>2. Linked(n, m, mid, IF t.root = f THEN y ELSE t.root, BelowTurned(n, nodes, D, f, o, y))
      BY <1>2, <1>4, <1>6, <2>6, <2>5, <2>13, RotatedIsTree, SMTT(60)
    <3> QED  BY <3>1, <3>2, SMTT(60)
  <2>16. AboveLink(mid, t.root, n, s, j, g)
    <3>1. ASSUME NEW x \in 1 .. n, NEW e \in 1 .. 2 PROVE mid[x].child[e] = g <=> nodes[x].child[e] = g
      <4>1. nodes[g].child[d] # g /\ nodes[y].child[d] # g /\ nodes[f].child[o] # g
        <5>1. \A h \in 1 .. 2 : nodes[y].child[h] # g
          BY <1>2, <1>4, <1>6, <2>6, <2>5, NoLongerCycle, SMTT(60)
        <5> QED  BY <1>4, <2>5, <2>10, <5>1, SMTT(60)
      <4> QED  BY <2>10, <2>11, <4>1, SMTT(60)
    <3> QED  BY <1>4, <3>1, SMTT(60) DEF AboveLink
  <2>17. mid[g].child[d] = y /\ Red(mid, y) /\ ~Red(mid, mid[g].child[Opposite(d)])
    <3>1. mid[g].child[d] = y
      BY <1>4, <2>11
    <3>2. Red(mid, y)
      BY <2>3, <2>6, <2>12 DEF Red
    <3>3. mid[g].child[o] = nodes[g].child[o]
      BY <1>4, <1>6, <2>10, <2>11, SMTT(60)
    <3>4. nodes[g].child[o] # Nil => nodes[g].child[o] \in 1 .. n
      <4>1. Links(n, nodes, t.root)
        BY <1>2, LinksOf
      <4> QED  BY <1>4, <1>6, <4>1, SMTT(60) DEF Links
    <3>5. ~Red(mid, nodes[g].child[o])
      BY <2>3, <2>12, <3>4 DEF Red
    <3> QED  BY <3>1, <3>2, <3>3, <3>5 DEF o
  <2>18. ButOneLink(two, mid, n, g, d)
    BY <2>9, Zenon DEF ChildSet, ButOneLink
  <2>19. RedBut(Turned(t, two, s, j, y), n, m, Nil, 0) /\ SameMemory(Turned(t, two, s, j, y), t)
    BY <1>1, <1>4, <1>5, <2>6, <2>4, <2>8, <2>9, <2>14, <2>15, <2>16, <2>17, <2>18, TurnedIsRight, ZenonT(60)
  <2> QED  BY <2>2, <2>19, SMTT(60)
<1> QED  BY <1>8, <1>9

-----------------------------------------------------------------------------
(* The loop after an insertion.                                            *)

\* IsRed() says it of the nodes of a tree.
LEMMA IsRedIs == \A t, x : IsRed(t, x) = Red(t.node, x)
BY DEF IsRed, Red

\* Where the loop has come to: only the link at j of the way may be from a red
\* node to a red one, and its lower end is red.
LoopIsAt(at, s, n, m) ==
  /\ at \in [t : TreeRecords(n, m), j : 0 .. Len(s)]
  /\ WayFromRoot(s, n, at.t.node, at.t.root)
  /\ at.j = 0 => RedBut(at.t, n, m, Nil, 0)
  /\ at.j # 0 => /\ RedBut(at.t, n, m, s[at.j].node, s[at.j].drct)
                 /\ Red(at.t.node, at.t.node[s[at.j].node].child[s[at.j].drct])

\* Only colours change.
LEMMA WayStays ==
  ASSUME NEW n, NEW m, NEW nodes, NEW painted, Repaints(painted, nodes, n, m), NEW s, NEW root,
         WayFromRoot(s, n, nodes, root)
  PROVE  WayFromRoot(s, n, painted, root)
BY Zenon DEF Repaints, WayFromRoot

\* Three nodes are painted.
LEMMA ThreePainted ==
  ASSUME NEW n \in Nat, NEW m \in Nat, NEW nodes \in NodesOf(n, m),
         NEW f \in 1 .. n, NEW u \in 1 .. n, NEW g \in 1 .. n, g # f, g # u,
         NEW painted, painted = [nodes EXCEPT ![f].clr = BLACK, ![u].clr = BLACK, ![g].clr = RED]
  PROVE  ThreeColours(painted, nodes, n, m, f, u, g)
<1> DEFINE one == [nodes EXCEPT ![f].clr = BLACK]
           two == [one EXCEPT ![u].clr = BLACK]
           three == [two EXCEPT ![g].clr = RED]
<1>1. RED \in {BLACK, RED} /\ BLACK \in {BLACK, RED}
  OBVIOUS
<1>2. Paints(one, nodes, n, m, f, BLACK)
  BY <1>1, PaintedIs, Zenon
<1>3. one \in NodesOf(n, m)
  BY <1>2 DEF Paints, Repaints
<1> HIDE DEF one
<1>4. Paints(two, one, n, m, u, BLACK)
  BY <1>1, <1>3, PaintedIs, Zenon
<1>5. two \in NodesOf(n, m)
  BY <1>4 DEF Paints, Repaints
<1> HIDE DEF two
<1>6. Paints(three, two, n, m, g, RED)
  BY <1>1, <1>5, PaintedIs, Zenon
<1> HIDE DEF three
<1>7. ThreeColours(three, nodes, n, m, f, u, g)
  BY <1>2, <1>4, <1>6 DEF Paints, Repaints, ThreeColours
<1>8. three = painted
  BY DEF one, two, three
<1> QED  BY <1>7, <1>8

\* A turn of the loop: it goes two levels up, or nothing is to be done.
LEMMA RecolouredIs ==
  ASSUME NEW n \in Nat, NEW m \in Nat, NEW s, NEW at, LoopIsAt(at, s, n, m)
  PROVE  /\ LoopIsAt(Recoloured(at, s), s, n, m)
         /\ SameMemory(Recoloured(at, s).t, at.t)
         /\ Recoloured(at, s) = at \/ Recoloured(at, s).j = at.j - 2
         /\ ~Recolours(at.t, s, at.j) => Recoloured(at, s) = at
<1>0. ASSUME ~Recolours(at.t, s, at.j)
      PROVE  /\ LoopIsAt(Recoloured(at, s), s, n, m) /\ SameMemory(Recoloured(at, s).t, at.t)
             /\ Recoloured(at, s) = at
  <2>1. Recoloured(at, s) = at
    BY <1>0, ZenonT(60) DEF Recoloured
  <2>2. SameMemory(at.t, at.t)
    BY DEF SameMemory
  <2> QED  BY <2>1, <2>2
<1> SUFFICES ASSUME Recolours(at.t, s, at.j)
             PROVE  /\ LoopIsAt(Recoloured(at, s), s, n, m)
                    /\ SameMemory(Recoloured(at, s).t, at.t)
                    /\ Recoloured(at, s).j = at.j - 2
  BY <1>0, SMTT(60)
<1> DEFINE t == at.t
           j == at.j
           nodes == t.node
           g == s[j - 1].node
           d == s[j - 1].drct
           f == s[j].node
           u == nodes[g].child[Opposite(d)]
           painted == [nodes EXCEPT ![f].clr = BLACK, ![u].clr = BLACK, ![g].clr = RED]
           next == [t |-> [t EXCEPT !.node = painted], j |-> j - 2]
<1>1. Recoloured(at, s) = next
  <2>1. Uncle(at.t, s, at.j) = u
    BY Zenon DEF Uncle
  <2>2. Recoloured(at, s) = [t |-> [at.t EXCEPT !.node = [@ EXCEPT ![s[at.j].node].clr = BLACK,
                                                                   ![Uncle(at.t, s, at.j)].clr = BLACK,
                                                                   ![s[at.j - 1].node].clr = RED]],
                             j |-> at.j - 2]
    BY Zenon DEF Recoloured
  <2> QED  BY <2>1, <2>2, ZenonT(60)
<1>2. j \in 2 .. Len(s) /\ Len(s) \in Nat /\ j # 0
  BY DEF Recolours, LoopIsAt, WayFromRoot
<1>3. Red(nodes, f) /\ Red(nodes, u)
  BY ZenonT(60) DEF Recolours, Uncle, IsRed, Red
<1>4. RedBut(t, n, m, f, s[j].drct) /\ WayFromRoot(s, n, nodes, t.root)
  BY <1>2 DEF LoopIsAt
<1> HIDE DEF t, j
<1>5. t \in TreeRecords(n, m) /\ nodes \in NodesOf(n, m) /\ RedsApart(n, nodes, f, s[j].drct)
  BY <1>4 DEF RedBut, TreeRecords
<1>6. PICK D : Linked(n, m, nodes, t.root, D)
  BY <1>4 DEF RedBut
<1>7. PICK B : BlackNodes(n, nodes, B)
  BY <1>4, SMTT(60) DEF RedBut
<1>8. /\ g \in 1 .. n /\ d \in 1 .. 2 /\ f \in 1 .. n
      /\ nodes[g].child[d] = f
      /\ j # 2 => nodes[s[j - 2].node].child[s[j - 2].drct] = g
      /\ AboveLink(nodes, t.root, n, s, j, g)
  <2> HIDE DEF nodes
  <2> QED  BY <1>2, <1>4, <1>6, AboveIs
<1>9. nodes[g].child[Opposite(d)] = u
  OBVIOUS
<1> HIDE DEF nodes, g, d, f, u, painted, next
<1>10. u \in 1 .. n /\ g # f /\ g # u
  <2>1. Links(n, nodes, t.root)
    BY <1>6, LinksOf
  <2>2. u # Nil /\ Opposite(d) \in 1 .. 2
    BY <1>3, <1>8 DEF Red, Opposite
  <2> QED  BY <1>8, <1>9, <2>1, <2>2 DEF Links
<1>11. ThreeColours(painted, nodes, n, m, f, u, g)
  <2>1. painted = [nodes EXCEPT ![f].clr = BLACK, ![u].clr = BLACK, ![g].clr = RED]
    BY DEF painted
  <2> QED  BY <1>5, <1>8, <1>10, <2>1, ThreePainted, Zenon
<1>12. Repaints(painted, nodes, n, m)
  BY <1>11 DEF ThreeColours
<1>13. Linked(n, m, painted, t.root, D)
  BY <1>6, <1>12, RepaintedIsTree
<1> DEFINE p == IF j = 2 THEN Nil ELSE s[j - 2].node
           c == IF j = 2 THEN 0 ELSE s[j - 2].drct
<1>14. OnlyLink(nodes, n, g, p, c)
  BY <1>8 DEF AboveLink, OnlyLink
<1> HIDE DEF p, c
<1>15. (\E C : BlackNodes(n, painted, C)) /\ RedsApart(n, painted, p, c) /\ painted[g].clr = RED
  BY <1>3, <1>5, <1>6, <1>7, <1>8, <1>9, <1>10, <1>11, <1>14, RecolouredColours
<1>16. /\ next.t \in TreeRecords(n, m) /\ next.t.node = painted /\ next.t.root = t.root /\ SameMemory(next.t, t)
       /\ next.j = j - 2 /\ next.j \in 0 .. Len(s) /\ next = [t |-> next.t, j |-> next.j]
  <2>1. painted \in NodesOf(n, m)
    BY <1>12 DEF Repaints
  <2> QED  BY <1>2, <1>5, <2>1, SMTT(60) DEF next, TreeRecords, SameMemory
<1>17. WayFromRoot(s, n, painted, t.root)
  BY <1>4, <1>12, WayStays
<1>18. RedBut(next.t, n, m, p, c)
  BY <1>13, <1>15, <1>16 DEF RedBut
<1>19. j # 2 => Red(painted, painted[s[j - 2].node].child[s[j - 2].drct])
  <2> HAVE j # 2
  <2>1. nodes[s[j - 2].node].child[s[j - 2].drct] = g /\ s[j - 2].node \in 1 .. n
    BY <1>8 DEF AboveLink
  <2>2. painted[s[j - 2].node].child[s[j - 2].drct] = g
    BY <1>12, <2>1, SMTT(60) DEF Repaints
  <2> QED  BY <1>8, <1>15, <2>2, SMTT(60) DEF Red, Nil
<1>20. LoopIsAt(next, s, n, m)
  <2>1. next.j = 0 <=> j = 2
    BY <1>2, <1>16
  <2>2. next \in [t : TreeRecords(n, m), j : 0 .. Len(s)]
    BY <1>16
  <2> QED  BY <1>16, <1>17, <1>18, <1>19, <2>1, <2>2 DEF LoopIsAt, p, c
<1> QED  BY <1>1, <1>16, <1>20 DEF t, j

\* The loop ends where it cannot recolour.
LEMMA LoopStops ==
  ASSUME NEW n \in Nat, NEW m \in Nat, NEW s, NEW l \in Nat, l = Len(s), NEW t,
         NEW turns, turns[0] = [t |-> t, j |-> l], LoopIsAt(turns[0], s, n, m),
         \A k \in 1 .. l : turns[k] = Recoloured(turns[k - 1], s)
  PROVE  LoopIsAt(turns[l], s, n, m) /\ SameMemory(turns[l].t, t) /\ ~Recolours(turns[l].t, s, turns[l].j)
<1> DEFINE Good(k) == /\ LoopIsAt(turns[k], s, n, m) /\ SameMemory(turns[k].t, t)
                      /\ ~Recolours(turns[k].t, s, turns[k].j) \/ turns[k].j <= l - k
           S == {k \in Nat : k <= l => Good(k)}
<1>1. 0 \in S
  BY DEF SameMemory
<1>2. ASSUME NEW k \in S PROVE k + 1 \in S
  <2> SUFFICES ASSUME k + 1 <= l PROVE Good(k + 1)
    OBVIOUS
  <2>1. k + 1 \in 1 .. l /\ (k + 1) - 1 = k /\ Good(k)
    OBVIOUS
  <2>2. turns[k + 1] = Recoloured(turns[k], s)
    BY <2>1
  <2> DEFINE u == turns[k]
             v == turns[k + 1]
  <2>3. LoopIsAt(u, s, n, m) /\ SameMemory(u.t, t) /\ (~Recolours(u.t, s, u.j) \/ u.j <= l - k)
        /\ v = Recoloured(u, s)
    BY <2>1, <2>2
  <2> HIDE DEF u, v
  <2>4. LoopIsAt(v, s, n, m) /\ SameMemory(v.t, u.t) /\ (v = u \/ v.j = u.j - 2)
        /\ (~Recolours(u.t, s, u.j) => v = u)
    BY <2>3, RecolouredIs
  <2>5. SameMemory(v.t, t)
    BY <2>3, <2>4 DEF SameMemory
  <2>6. u.j \in Nat
    <3>1. u.j \in 0 .. Len(s)
      BY <2>3, Zenon DEF LoopIsAt
    <3> QED  BY <3>1
  <2>7. ~Recolours(v.t, s, v.j) \/ v.j <= l - (k + 1)
    <3>1. CASE ~Recolours(u.t, s, u.j)
      BY <2>4, <3>1
    <3>2. CASE Recolours(u.t, s, u.j) /\ v = Recoloured(u, s) /\ v # u
      BY <2>3, <2>4, <2>6, <3>2, SMTT(60)
    <3>3. CASE Recolours(u.t, s, u.j) /\ v = u
      <4>1. Recoloured(u, s).j = u.j - 2
        BY <3>3, Zenon DEF Recoloured
      <4> QED  BY <2>3, <2>6, <3>3, <4>1, SMTT(60)
    <3> QED  BY <2>3, <3>1, <3>2, <3>3
  <2> QED  BY <2>4, <2>5, <2>7 DEF v
<1>3. S = Nat
  <2>1. S \in SUBSET Nat
    OBVIOUS
  <2> HIDE DEF S
  <2> QED  BY <1>1, <1>2, <2>1, AllNumbers, Zenon
<1>4. Good(l)
  BY <1>3
<1>5. ASSUME turns[l].j <= l - l PROVE ~Recolours(turns[l].t, s, turns[l].j)
  <2>1. turns[l].j \in Nat
    <3>1. turns[l].j \in 0 .. Len(s)
      BY <1>4, Zenon DEF LoopIsAt
    <3> QED  BY <3>1
  <2> QED  BY <1>5, <2>1 DEF Recolours
<1> QED  BY <1>4, <1>5

\* In the end no red node has a red child, and the root is black.
LEMMA RebalancedIs ==
  ASSUME NEW n \in Nat, NEW m \in Nat, NEW t, NEW s, LoopIsAt([t |-> t, j |-> Len(s)], s, n, m)
  PROVE  /\ RedBut(Rebalanced(t, s), n, m, Nil, 0)
         /\ Rebalanced(t, s).node[Rebalanced(t, s).root].clr = BLACK
         /\ SameMemory(Rebalanced(t, s), t)
<1> DEFINE l == Len(s)
           V == {at \in [t : TreeRecords(n, m), j : 0 .. l] : LoopIsAt(at, s, n, m)}
           v0 == [t |-> t, j |-> l]
           F == [p \in (1 .. l) \X V |-> Recoloured(p[2], s)]
           Turns(g) == g = [k \in 0 .. l |-> IF k = 0 THEN v0 ELSE Recoloured(g[k - 1], s)]
           turns == CHOOSE g : Turns(g)
           at == turns[l]
           turned == IF at.j >= 2 /\ IsRed(at.t, s[at.j].node) THEN Rotated(at.t, s, at.j) ELSE at.t
<1>1. v0 \in V /\ l \in Nat /\ l >= 1
  BY Zenon DEF LoopIsAt, WayFromRoot
<1>2. \A v \in V : Recoloured(v, s) \in V
  BY RecolouredIs, ZenonT(60) DEF LoopIsAt
<1>3. \A k \in 1 .. l, v \in V : F[<<k, v>>] = Recoloured(v, s)
  OBVIOUS
<1> HIDE DEF V, v0, F, l
<1>4. PICK g : Steps(g, l, V, v0, F)
  <2>1. \A k \in 1 .. l, v \in V : F[<<k, v>>] \in V
    BY <1>2, <1>3, Zenon
  <2> QED  BY <1>1, <2>1, StepsExist, Zenon
<1>5. Turns(g)
  <2>1. g = [k \in 0 .. l |-> g[k]] /\ g[0] = v0
    BY <1>4 DEF Steps
  <2>2. ASSUME NEW k \in 0 .. l, k # 0 PROVE g[k] = Recoloured(g[k - 1], s)
    <3>1. k \in 1 .. l /\ k - 1 \in 0 .. l
      BY <1>1, <2>2
    <3> QED  BY <1>3, <1>4, <3>1, Zenon DEF Steps
  <2> QED  BY <2>1, <2>2, Zenon
<1>6. Turns(turns)
  BY <1>5, Zenon
<1>7. Rebalanced(t, s) = [turned EXCEPT !.node[turned.root].clr = BLACK]
  BY DEF Rebalanced, l, v0
<1> HIDE DEF turns
<1>8. /\ turns[0] = [t |-> t, j |-> l] /\ LoopIsAt(turns[0], s, n, m)
      /\ \A k \in 1 .. l : turns[k] = Recoloured(turns[k - 1], s)
  BY <1>1, <1>6, SMTT(60) DEF v0, l
<1>9. LoopIsAt(at, s, n, m) /\ SameMemory(at.t, t) /\ ~Recolours(at.t, s, at.j)
  <2>1. l = Len(s)
    BY SMTT(60) DEF l
  <2> QED  BY <1>1, <1>8, <2>1, LoopStops
<1> HIDE DEF Turns, at
<1>10. at.j \in 0 .. Len(s) /\ Len(s) \in Nat
  BY <1>9 DEF LoopIsAt, WayFromRoot
<1>11. /\ SameMemory(turned, at.t)
       /\ RedBut(turned, n, m, Nil, 0) \/ \E a : RedBut(turned, n, m, turned.root, a)
  <2>1. CASE at.j >= 2 /\ IsRed(at.t, s[at.j].node)
    <3>1. at.j # 0 /\ at.j \in 2 .. Len(s)
      BY <1>10, <2>1
    <3>2. /\ WayFromRoot(s, n, at.t.node, at.t.root)
          /\ RedBut(at.t, n, m, s[at.j].node, s[at.j].drct)
          /\ Red(at.t.node, at.t.node[s[at.j].node].child[s[at.j].drct])
      BY <1>9, <3>1, ZenonT(60) DEF LoopIsAt
    <3>3. Red(at.t.node, s[at.j].node) /\ ~Red(at.t.node, Uncle(at.t, s, at.j))
      BY <1>9, <2>1 DEF Recolours, IsRed, Red
    <3>4. RedBut(Rotated(at.t, s, at.j), n, m, Nil, 0) /\ SameMemory(Rotated(at.t, s, at.j), at.t)
      BY <3>1, <3>2, <3>3, RotatedIsRight, Zenon
    <3> QED  BY <2>1, <3>4
  <2>2. CASE ~(at.j >= 2 /\ IsRed(at.t, s[at.j].node))
    <3>1. turned = at.t /\ SameMemory(turned, at.t)
      BY <2>2 DEF SameMemory
    <3> HIDE DEF turned
    <3>2. CASE at.j = 0
      BY <1>9, <3>1, <3>2 DEF LoopIsAt
    <3>3. CASE at.j = 1
      <4>1. RedBut(at.t, n, m, s[at.j].node, s[at.j].drct) /\ WayFromRoot(s, n, at.t.node, at.t.root)
        BY <1>9, <3>3, SMTT(60) DEF LoopIsAt
      <4>2. s[1].node = at.t.root
        BY <4>1 DEF WayFromRoot
      <4> QED  BY <3>1, <3>3, <4>1, <4>2, SMTT(60)
    <3>4. CASE at.j # 0 /\ at.j # 1
      <4>1. ~Red(at.t.node, s[at.j].node)
        BY <1>10, <2>2, <3>4, SMTT(60) DEF IsRed, Red
      <4>2. RedBut(at.t, n, m, s[at.j].node, s[at.j].drct)
        BY <1>9, <3>4, SMTT(60) DEF LoopIsAt
      <4>3. RedsApart(n, at.t.node, Nil, 0)
        BY <4>1, <4>2 DEF RedBut, RedsApart
      <4>4. RedBut(at.t, n, m, Nil, 0)
        BY <4>2, <4>3 DEF RedBut
      <4> QED  BY <3>1, <4>4, SMTT(60)
    <3> QED  BY <3>2, <3>3, <3>4
  <2> QED  BY <2>1, <2>2
<1> HIDE DEF turned
<1> DEFINE painted == [turned.node EXCEPT ![turned.root].clr = BLACK]
           made == [turned EXCEPT !.node = painted]
<1>12. Rebalanced(t, s) = made
  BY <1>7
<1>13. turned \in TreeRecords(n, m) /\ turned.node \in NodesOf(n, m)
  BY <1>11 DEF RedBut, TreeRecords
<1>14. PICK D : Linked(n, m, turned.node, turned.root, D)
  BY <1>11 DEF RedBut
<1>15. PICK B : BlackNodes(n, turned.node, B)
  BY <1>11 DEF RedBut
<1>16. PICK a : RedsApart(n, turned.node, turned.root, a) \/ RedsApart(n, turned.node, Nil, a)
  BY <1>11 DEF RedBut
<1>17. turned.root \in 1 .. n
  BY <1>14 DEF Linked
<1>18. Paints(painted, turned.node, n, m, turned.root, BLACK)
  <2>1. BLACK \in {BLACK, RED}
    OBVIOUS
  <2> QED  BY <1>13, <1>17, <2>1, PaintedIs, Zenon
<1> HIDE DEF painted
<1>19. /\ \E C : BlackNodes(n, painted, C)
       /\ RedsApart(n, painted, Nil, 0)
       /\ painted[turned.root].clr = BLACK
  <2>1. /\ Repaints(painted, turned.node, n, m)
        /\ \A x \in 1 .. n : painted[x].clr = IF x = turned.root THEN BLACK ELSE turned.node[x].clr
    BY <1>18 DEF Paints
  <2> DEFINE nodes == turned.node
             root == turned.root
  <2> HIDE DEF nodes, root
  <2>2. Linked(n, m, nodes, root, D) /\ BlackNodes(n, nodes, B)
        /\ (RedsApart(n, nodes, root, a) \/ RedsApart(n, nodes, Nil, a))
    BY <1>14, <1>15, <1>16 DEF nodes, root
  <2>3. /\ Repaints(painted, nodes, n, m)
        /\ \A x \in 1 .. n : painted[x].clr = IF x = root THEN BLACK ELSE nodes[x].clr
    BY <2>1 DEF nodes, root
  <2>4. /\ \E C : BlackNodes(n, painted, C)
        /\ RedsApart(n, painted, Nil, 0)
        /\ painted[root].clr = BLACK
    BY <2>2, <2>3, RootBlackened
  <2> QED  BY <2>4 DEF root
<1>20. Linked(n, m, painted, turned.root, D)
  BY <1>14, <1>18, RepaintedIsTree DEF Paints
<1>21. made \in TreeRecords(n, m) /\ made.node = painted /\ made.root = turned.root /\ SameMemory(made, turned)
  <2>1. painted \in NodesOf(n, m)
    BY <1>18 DEF Paints, Repaints
  <2> QED  BY <1>13, <2>1 DEF TreeRecords, SameMemory
<1> HIDE DEF made
<1>22. RedBut(made, n, m, Nil, 0)
  BY <1>19, <1>20, <1>21 DEF RedBut
<1>23. SameMemory(made, t)
  BY <1>9, <1>11, <1>21 DEF SameMemory
<1> QED  BY <1>12, <1>19, <1>21, <1>22, <1>23

-----------------------------------------------------------------------------
(* Insertions.                                                             *)

\* Rows of m attributes.
RowsOfKeys(m) == [key : Keys(m), sum : Int]

\* A red-black tree of n nodes.
RedBlack(t, n, m) ==
  /\ t \in TreeRecords(n, m)
  /\ n = 0 => t.root = Nil
  /\ n # 0 => RedBut(t, n, m, Nil, 0) /\ t.node[t.root].clr = BLACK

\* The entry of a new node.
Entry(row, colour) == [child |-> <<Nil, Nil>>, clr |-> colour, key |-> row.key, sum |-> row.sum]

\* The entries of trees of n nodes.
NodeRecords(n, m) == [child : [1 .. 2 -> 0 .. n], clr : {BLACK, RED}, key : Keys(m), sum : Int]

\* new is t with a node more, which hangs nowhere yet.
AddsNode(new, t, n, m, row, colour) ==
  /\ new.node \in NodesOf(n + 1, m)
  /\ \A x \in 1 .. n : new.node[x] = t.node[x]
  /\ new.node[n + 1] = Entry(row, colour)
  /\ new.freeNodeCounter = t.freeNodeCounter - 1 /\ new.memoryIsFull \in BOOLEAN
  /\ new = [t EXCEPT !.node = new.node, !.freeNodeCounter = new.freeNodeCounter, !.memoryIsFull = new.memoryIsFull]

\* NEW_TREE_NODE adds a node.
LEMMA NewNodeIs ==
  ASSUME NEW n \in Nat, NEW m \in Nat, NEW t \in TreeRecords(n, m), NEW row \in RowsOfKeys(m),
         NEW colour \in {BLACK, RED}
  PROVE  AddsNode(NewTreeNode(t, row, colour), t, n, m, row, colour)
<1> DEFINE new == NewTreeNode(t, row, colour)
           e == Entry(row, colour)
<1>1. t.node \in [1 .. n -> NodeRecords(n, m)]
  BY DEF TreeRecords, NodesOf, NodeRecords
<1>2. NodeRecords(n, m) \subseteq NodeRecords(n + 1, m)
  <2>1. \A c \in [1 .. 2 -> 0 .. n] : c \in [1 .. 2 -> 0 .. n + 1]
    OBVIOUS
  <2> QED  BY <2>1 DEF NodeRecords
<1>3. e \in NodeRecords(n + 1, m)
  <2>1. <<Nil, Nil>> \in [1 .. 2 -> 0 .. n + 1]
    BY DEF Nil
  <2> QED  BY <2>1 DEF Entry, NodeRecords, RowsOfKeys
<1> DEFINE node == Append(t.node, e)
<1>4. new = [t EXCEPT !.node = node, !.freeNodeCounter = t.freeNodeCounter - 1,
                      !.memoryIsFull = t.memoryIsFull \/ t.freeNodeCounter = 1]
  BY DEF NewTreeNode, Entry
<1>5. node \in [1 .. n + 1 -> NodeRecords(n + 1, m)] /\ (\A x \in 1 .. n : node[x] = t.node[x])
      /\ node[n + 1] = e
  <2>1. t.node \in Seq(NodeRecords(n + 1, m)) /\ Len(t.node) = n
    BY <1>1, <1>2
  <2> DEFINE S == NodeRecords(n + 1, m)
  <2> HIDE DEF e, S
  <2>2. t.node \in Seq(S) /\ Len(t.node) = n /\ e \in S
    BY <1>3, <2>1 DEF S
  <2>3. node \in Seq(S) /\ Len(node) = n + 1
    BY <2>2
  <2>4. (\A x \in 1 .. n : node[x] = t.node[x]) /\ node[n + 1] = e
    BY <2>2
  <2> HIDE DEF node
  <2>5. node \in [1 .. n + 1 -> S]
    BY <2>3
  <2> QED  BY <2>4, <2>5 DEF S
<1> HIDE DEF node, e, new
<1>6. new.node = node /\ new.root = t.root /\ new.freeNodeCounter = t.freeNodeCounter - 1
      /\ new.memoryIsFull = (t.memoryIsFull \/ t.freeNodeCounter = 1)
  BY <1>4 DEF TreeRecords
<1>7. new.memoryIsFull \in BOOLEAN
  BY <1>6 DEF TreeRecords
<1>8. node \in NodesOf(n + 1, m)
  BY <1>5 DEF NodesOf, NodeRecords
<1>9. new = [t EXCEPT !.node = new.node, !.freeNodeCounter = new.freeNodeCounter, !.memoryIsFull = new.memoryIsFull]
  BY <1>4, <1>6
<1> QED  BY <1>5, <1>6, <1>7, <1>8, <1>9 DEF new, e, AddsNode

\* The first node is the root, and black.
LEMMA FirstInserted ==
  ASSUME NEW m \in Nat, NEW t, RedBlack(t, 0, m), NEW row \in RowsOfKeys(m)
  PROVE  /\ RedBlack(TreeInsert(t, row), 1, m)
         /\ TreeInsert(t, row).freeNodeCounter = t.freeNodeCounter - 1
<1> DEFINE new == NewTreeNode(t, row, BLACK)
           u == [new EXCEPT !.root = 1]
           node == u.node
<1>1. t \in TreeRecords(0, m) /\ t.root = Nil
  BY DEF RedBlack
<1>2. TreeInsert(t, row) = u
  BY <1>1 DEF TreeInsert
<1>3. AddsNode(new, t, 0, m, row, BLACK)
  <2>1. 0 \in Nat /\ BLACK \in {BLACK, RED}
    OBVIOUS
  <2> QED  BY <1>1, <2>1, NewNodeIs
<1> HIDE DEF new
<1>4. new.node \in NodesOf(1, m) /\ new.node[1] = Entry(row, BLACK)
  <2>1. 0 + 1 = 1
    OBVIOUS
  <2> QED  BY <1>3, <2>1 DEF AddsNode
<1>5. /\ node = new.node /\ u \in TreeRecords(1, m) /\ u.root = 1 /\ u.freeNodeCounter = t.freeNodeCounter - 1
  <2>1. new = [t EXCEPT !.node = new.node, !.freeNodeCounter = new.freeNodeCounter, !.memoryIsFull = new.memoryIsFull]
        /\ new.memoryIsFull \in BOOLEAN /\ new.freeNodeCounter = t.freeNodeCounter - 1
    BY <1>3 DEF AddsNode
  <2>2. new = [root |-> t.root, node |-> new.node, freeNodeCounter |-> new.freeNodeCounter,
        memoryIsFull |-> new.memoryIsFull]
    BY <1>1, <2>1, Zenon DEF TreeRecords
  <2>3. u = [root |-> 1, node |-> new.node, freeNodeCounter |-> new.freeNodeCounter,
        memoryIsFull |-> new.memoryIsFull]
    BY <2>2
  <2>4. 1 \in 0 .. 1 /\ new.freeNodeCounter \in Int
    BY <1>1, <2>1 DEF TreeRecords
  <2> QED  BY <1>4, <2>1, <2>3, <2>4 DEF TreeRecords
<1>6. node[1].clr = BLACK /\ node[1].child[1] = Nil /\ node[1].child[2] = Nil
  BY <1>4, <1>5 DEF Entry
<1> HIDE DEF u, node
<1>7. \A x \in 1 .. 1 : x = 1
  OBVIOUS
<1>8. \A e \in 1 .. 2 : e = 1 \/ e = 2
  OBVIOUS
<1>9. Linked(1, m, node, 1, [x \in 1 .. 1 |-> {1}])
  <2> DEFINE D == [x \in 1 .. 1 |-> {1}]
  <2>1. D \in [1 .. 1 -> SUBSET (1 .. 1)] /\ D[1] = {1} /\ 1 .. 1 = {1}
    OBVIOUS
  <2> HIDE DEF D
  <2>2. \A x \in 1 .. 1, e \in 1 .. 2 : node[x].child[e] = Nil
    BY <1>6, <1>7, <1>8
  <2>3. \A x \in 1 .. 1, e \in 1 .. 2 : Under(D, node[x].child[e]) = {}
    BY <2>2 DEF Under
  <2>4. \A x \in 1 .. 1 : D[x] = {x} \cup Under(D, node[x].child[1]) \cup Under(D, node[x].child[2])
    BY <1>7, <2>1, <2>3
  <2>5. \A x \in 1 .. 1, e \in 1 .. 2 : \A y \in Under(D, node[x].child[e]) : Before(e, node[y].key, node[x].key)
    BY <2>3
  <2>6. \A x \in 1 .. 1, e \in 1 .. 2 : node[x].child[e] # 1
    BY <2>2 DEF Nil
  <2>7. \A x, y \in 1 .. 1, d, e \in 1 .. 2 : node[x].child[d] = node[y].child[e] /\ node[x].child[d] # Nil
        => x = y /\ d = e
    BY <2>2
  <2>8. node \in NodesOf(1, m) /\ 1 \in 1 .. 1
    BY <1>4, <1>5
  <2>9. Linked(1, m, node, 1, D)
    BY <2>1, <2>4, <2>5, <2>6, <2>7, <2>8 DEF Linked
  <2> QED  BY <2>9 DEF D
<1>10. BlackNodes(1, node, [x \in 1 .. 1 |-> 1])
  BY <1>6, <1>7, <1>8 DEF BlackNodes, Blacks, Nil
<1>11. RedsApart(1, node, Nil, 0)
  BY <1>6, <1>7 DEF RedsApart, Red, RED, BLACK
<1>12. RedBut(u, 1, m, Nil, 0)
  BY <1>5, <1>9, <1>10, <1>11 DEF RedBut, node
<1> QED  BY <1>2, <1>5, <1>6, <1>12 DEF RedBlack, node

\* The row of a known key changes only a sum.
LEMMA SummedIs ==
  ASSUME NEW n \in Nat, NEW m \in Nat, NEW nodes \in NodesOf(n, m), NEW x \in 1 .. n, NEW v \in Int
  PROVE  /\ Repaints([nodes EXCEPT ![x].sum = @ + v], nodes, n, m)
         /\ \A y \in 1 .. n : [nodes EXCEPT ![x].sum = @ + v][y].clr = nodes[y].clr
BY SMTT(60) DEF Repaints, NodesOf

\* So the tree stays what it is.
LEMMA KnownAdded ==
  ASSUME NEW n \in Nat, NEW m \in Nat, NEW t, RedBlack(t, n, m), n # 0,
         NEW x \in 1 .. n, NEW v \in Int
  PROVE  /\ RedBlack([t EXCEPT !.node[x].sum = @ + v], n, m)
         /\ [t EXCEPT !.node[x].sum = @ + v].freeNodeCounter = t.freeNodeCounter
<1> DEFINE node == [t.node EXCEPT ![x].sum = @ + v]
           u == [t EXCEPT !.node = node]
<1>1. t \in TreeRecords(n, m) /\ t.node \in NodesOf(n, m)
  BY DEF RedBlack, TreeRecords
<1>2. Repaints(node, t.node, n, m) /\ \A y \in 1 .. n : node[y].clr = t.node[y].clr
  <2> DEFINE nodes == t.node
  <2> HIDE DEF nodes
  <2>1. nodes \in NodesOf(n, m)
    BY <1>1 DEF nodes
  <2>2. /\ Repaints([nodes EXCEPT ![x].sum = @ + v], nodes, n, m)
        /\ \A y \in 1 .. n : [nodes EXCEPT ![x].sum = @ + v][y].clr = nodes[y].clr
    BY <2>1, SummedIs
  <2> QED  BY <2>2 DEF nodes
<1>3. [t EXCEPT !.node[x].sum = @ + v] = u
  OBVIOUS
<1> HIDE DEF node
<1>4. u \in TreeRecords(n, m) /\ u.node = node /\ u.root = t.root /\ u.freeNodeCounter = t.freeNodeCounter
  BY <1>1, <1>2 DEF TreeRecords, Repaints
<1> HIDE DEF u
<1>5. PICK D : Linked(n, m, t.node, t.root, D)
  BY DEF RedBlack, RedBut
<1>6. PICK B : BlackNodes(n, t.node, B)
  BY DEF RedBlack, RedBut
<1>7. t.root \in 1 .. n /\ t.node[t.root].clr = BLACK /\ RedsApart(n, t.node, Nil, 0)
  BY <1>5 DEF Linked, RedBlack, RedBut
<1>8. Linked(n, m, node, t.root, D)
  BY <1>2, <1>5, RepaintedIsTree
<1>9. BlackNodes(n, node, B)
  BY <1>2, <1>6, ZenonT(60) DEF BlackNodes, Repaints
<1>10. RedsApart(n, node, Nil, 0)
  <2> SUFFICES ASSUME NEW y \in 1 .. n, NEW e \in 1 .. 2, Red(node, y), Red(node, node[y].child[e]) PROVE FALSE
    BY DEF RedsApart
  <2>1. Links(n, t.node, t.root)
    BY <1>5, LinksOf, Zenon
  <2>2. node[y].child[e] = t.node[y].child[e] /\ (t.node[y].child[e] # Nil => t.node[y].child[e] \in 1 .. n)
    BY <1>2, <2>1 DEF Repaints, Links
  <2>3. Red(t.node, y) /\ Red(t.node, t.node[y].child[e])
    BY <1>2, <2>2 DEF Red
  <2>4. y = Nil
    BY <1>7, <2>3 DEF RedsApart
  <2> QED  BY <2>4 DEF Nil
<1>11. RedBut(u, n, m, Nil, 0)
  BY <1>4, <1>8, <1>9, <1>10 DEF RedBut
<1>12. node[t.root].clr = BLACK
  BY <1>2, <1>7
<1> QED  BY <1>3, <1>4, <1>11, <1>12 DEF RedBlack

\* u is new with its last node hung to the last node of the path s.
HungOn(u, new, s, n) ==
  s[Len(s)].drct # 0 /\ u = [new EXCEPT !.node = SetChild(@, s[Len(s)].node, s[Len(s)].drct, n + 1)]

\* v is a tree of a node more than t, or of the same, and the pool has as many less.
InsertedIn(v, t, n, m) ==
  \E k \in {n, n + 1} : RedBlack(v, k, m) /\ v.freeNodeCounter + k = t.freeNodeCounter + n

\* A new child is hung to the last node of the path and the tree rebalanced.
LEMMA NewInserted ==
  ASSUME NEW n \in Nat, NEW m \in Nat, NEW t, RedBlack(t, n, m), n # 0, NEW row \in RowsOfKeys(m),
         NEW D, Linked(n, m, t.node, t.root, D),
         NEW s, WayDown(t.root, s, row.key, n, t.node, D),
         NEW new, AddsNode(new, t, n, m, row, RED),
         NEW u, HungOn(u, new, s, n)
  PROVE  InsertedIn(Rebalanced(u, s), t, n, m)
<1> DEFINE p == s[Len(s)].node
           d == s[Len(s)].drct
           node == SetChild(new.node, p, d, n + 1)
<1>1. t \in TreeRecords(n, m) /\ t.node \in NodesOf(n, m) /\ t.root \in 1 .. n /\ RedsApart(n, t.node, Nil, 0)
  BY DEF RedBlack, TreeRecords, RedBut, Linked
<1>2. PICK B : BlackNodes(n, t.node, B)
  BY DEF RedBlack, RedBut
<1>3. Len(s) \in Nat /\ Len(s) \in 1 .. Len(s) /\ \A i \in 1 .. Len(s) : s[i].node \in 1 .. n
      /\ s[i].drct \in 0 .. 2
  BY OnTheWay
<1>4. \A i \in 1 .. Len(s) : s[i].drct \in 1 .. 2
  <2>1. \A i \in 1 .. Len(s) : s[i].drct # 0
    BY SMTT(60) DEF WayDown, HungOn
  <2> QED  BY <1>3, <2>1
<1>5. p \in 1 .. n /\ d \in 1 .. 2 /\ t.node[p].child[d] = Nil
  BY <1>3, <1>4 DEF WayDown
<1>6. new.node \in NodesOf(n + 1, m) /\ n + 1 \in Nat /\ p \in 1 .. n + 1 /\ n + 1 \in 0 .. n + 1
  BY <1>5 DEF AddsNode
<1>7. ChildSet(node, new.node, n + 1, m, p, d, n + 1)
  <2> DEFINE k == n + 1
             more == new.node
  <2>1. more \in NodesOf(k, m) /\ k \in Nat /\ p \in 1 .. k /\ d \in 1 .. 2 /\ k \in 0 .. k
    BY <1>5, <1>6
  <2> HIDE DEF k, more, p, d
  <2>2. ChildSet(SetChild(more, p, d, k), more, k, m, p, d, k)
    BY <2>1, SetChildIs
  <2> QED  BY <2>2 DEF k, more
<1> HIDE DEF node, p, d
<1>8. Grows(node, t.node, n, m, p, d, row.key)
  <2>1. node \in NodesOf(n + 1, m)
    BY <1>7 DEF ChildSet
  <2>2. \A x \in 1 .. n : x \in 1 .. n + 1 /\ x # n + 1
    OBVIOUS
  <2>3. n + 1 \in 1 .. n + 1 /\ n + 1 # p
    BY <1>5
  <2>4. \A x \in 1 .. n : new.node[x] = t.node[x]
    BY DEF AddsNode
  <2>5. \A x \in 1 .. n, e \in 1 .. 2 : node[x].child[e] = IF x = p /\ e = d THEN n + 1 ELSE t.node[x].child[e]
    BY <1>7, <2>2, <2>4 DEF ChildSet
  <2>6. \A x \in 1 .. n : node[x].key = t.node[x].key /\ node[x].clr = t.node[x].clr
    BY <1>7, <2>2, <2>4 DEF ChildSet
  <2>7. new.node[n + 1] = Entry(row, RED)
    BY DEF AddsNode
  <2>8. \A e \in 1 .. 2 : Entry(row, RED).child[e] = Nil
    <3>1. \A e \in 1 .. 2 : e = 1 \/ e = 2
      OBVIOUS
    <3> QED  BY <3>1 DEF Entry
  <2>9. \A e \in 1 .. 2 : node[n + 1].child[e] = Nil
    BY <1>7, <2>3, <2>7, <2>8 DEF ChildSet
  <2>10. node[n + 1].key = row.key /\ node[n + 1].clr = RED
    BY <1>7, <2>3, <2>7 DEF ChildSet, Entry
  <2> QED  BY <2>1, <2>5, <2>6, <2>9, <2>10 DEF Grows
<1>9. row.key \in Keys(m)
  BY DEF RowsOfKeys
<1>10. Linked(n + 1, m, node, t.root, BelowGrown(s, n, D))
  <2>1. Grows(node, t.node, n, m, s[Len(s)].node, s[Len(s)].drct, row.key)
    BY <1>8 DEF p, d
  <2>2. s[Len(s)].drct # 0
    BY DEF HungOn
  <2> QED  BY <2>2, <1>9, <2>1, GrownIsTree
<1>11. (\E C : BlackNodes(n + 1, node, C)) /\ RedsApart(n + 1, node, p, d)
  BY <1>1, <1>2, <1>5, <1>8, GrownInColour
<1>12. u \in TreeRecords(n + 1, m) /\ u.node = node /\ u.root = t.root
       /\ u.freeNodeCounter = t.freeNodeCounter - 1
  <2>1. u = [new EXCEPT !.node = node]
    BY DEF node, p, d, HungOn
  <2>2. /\ new.freeNodeCounter = t.freeNodeCounter - 1 /\ new.memoryIsFull \in BOOLEAN
        /\ new = [t EXCEPT !.node = new.node, !.freeNodeCounter = new.freeNodeCounter, !.memoryIsFull = new.memoryIsFull]
    BY DEF AddsNode
  <2>3. new = [root |-> t.root, node |-> new.node, freeNodeCounter |-> new.freeNodeCounter,
        memoryIsFull |-> new.memoryIsFull]
    BY <1>1, <2>2, Zenon DEF TreeRecords
  <2>4. u = [root |-> t.root, node |-> node, freeNodeCounter |-> new.freeNodeCounter,
        memoryIsFull |-> new.memoryIsFull]
    BY <2>1, <2>3
  <2>5. t.root \in 0 .. n + 1 /\ new.freeNodeCounter \in Int /\ node \in NodesOf(n + 1, m)
    BY <1>1, <1>7, <2>2 DEF TreeRecords, ChildSet
  <2>6. u \in TreeRecords(n + 1, m)
    BY <2>2, <2>4, <2>5 DEF TreeRecords
  <2>7. u.node = node /\ u.root = t.root /\ u.freeNodeCounter = new.freeNodeCounter
    BY <2>4
  <2> QED  BY <2>2, <2>6, <2>7
<1>13. WayFromRoot(s, n + 1, node, t.root)
  <2>1. Len(s) >= 1 /\ s[1].node = t.root
    BY DEF WayDown
  <2>2. \A i \in 1 .. Len(s) : s[i].node \in 1 .. n + 1
    BY <1>3
  <2>3. ASSUME NEW i \in 1 .. Len(s), i # Len(s) PROVE node[s[i].node].child[s[i].drct] = s[i + 1].node
    <3>1. t.node[s[i].node].child[s[i].drct] = s[i + 1].node
      BY <1>4, <2>3, SMTT(60) DEF WayDown
    <3>2. s[i].node # p
      BY <1>3, <2>3 DEF WayDown, p
    <3> QED  BY <1>3, <1>4, <1>8, <3>1, <3>2, ZenonT(60) DEF Grows
  <2> QED  BY <1>3, <1>4, <2>1, <2>2, <2>3, SMTT(60) DEF WayFromRoot
<1>14. LoopIsAt([t |-> u, j |-> Len(s)], s, n + 1, m)
  <2> DEFINE at == [t |-> u, j |-> Len(s)]
  <2>1. at.t = u /\ at.j = Len(s) /\ at \in [t : TreeRecords(n + 1, m), j : 0 .. Len(s)]
    BY <1>3, <1>12
  <2> HIDE DEF at
  <2>2. at.j # 0
    BY <1>3, <2>1
  <2>3. RedBut(u, n + 1, m, p, d)
    BY <1>10, <1>11, <1>12 DEF RedBut
  <2>4. node[p].child[d] = n + 1 /\ node[n + 1].clr = RED /\ n + 1 # Nil
    BY <1>5, <1>8 DEF Grows, Nil
  <2>5. Red(u.node, u.node[p].child[d])
    BY <1>12, <2>4, SMTT(60) DEF Red
  <2>6. LoopIsAt(at, s, n + 1, m)
    BY <1>12, <1>13, <2>1, <2>2, <2>3, <2>5 DEF LoopIsAt, p, d
  <2> QED  BY <2>6 DEF at
<1>15. /\ RedBut(Rebalanced(u, s), n + 1, m, Nil, 0)
       /\ Rebalanced(u, s).node[Rebalanced(u, s).root].clr = BLACK
       /\ SameMemory(Rebalanced(u, s), u)
  <2> DEFINE k == n + 1
  <2>1. k \in Nat /\ LoopIsAt([t |-> u, j |-> Len(s)], s, k, m)
    BY <1>6, <1>14
  <2> HIDE DEF k
  <2>2. /\ RedBut(Rebalanced(u, s), k, m, Nil, 0)
        /\ Rebalanced(u, s).node[Rebalanced(u, s).root].clr = BLACK
        /\ SameMemory(Rebalanced(u, s), u)
    BY <2>1, RebalancedIs
  <2> QED  BY <2>2 DEF k
<1>16. n + 1 # 0 /\ Rebalanced(u, s) \in TreeRecords(n + 1, m)
  BY <1>15 DEF RedBut
<1>17. RedBlack(Rebalanced(u, s), n + 1, m)
  BY <1>15, <1>16 DEF RedBlack
<1>18. Rebalanced(u, s).freeNodeCounter + (n + 1) = t.freeNodeCounter + n
  BY <1>1, <1>12, <1>15 DEF SameMemory, TreeRecords
<1> QED  BY <1>17, <1>18, SMTT(60) DEF InsertedIn

\* TreeInsert() keeps a red-black tree, and takes a node from the pool when it
\* adds one.
LEMMA TreeInsertIs ==
  ASSUME NEW n \in Nat, NEW m \in Nat, NEW t, RedBlack(t, n, m), NEW row \in RowsOfKeys(m)
  PROVE  InsertedIn(TreeInsert(t, row), t, n, m)
<1>1. t \in TreeRecords(n, m) /\ t.freeNodeCounter \in Int
  BY DEF RedBlack, TreeRecords
<1>2. CASE n = 0
  <2>1. RedBlack(t, 0, m)
    BY <1>2
  <2>2. /\ RedBlack(TreeInsert(t, row), 1, m)
        /\ TreeInsert(t, row).freeNodeCounter = t.freeNodeCounter - 1
    BY <2>1, FirstInserted
  <2> QED  BY <1>1, <1>2, <2>2 DEF InsertedIn
<1>3. CASE n # 0
  <2> DEFINE s == Path(t, row.key)
             new == NewTreeNode(t, row, RED)
             u == [new EXCEPT !.node = SetChild(@, s[Len(s)].node, s[Len(s)].drct, Count(new))]
  <2>1. PICK D : Linked(n, m, t.node, t.root, D)
    BY <1>3 DEF RedBlack, RedBut
  <2>2. Count(t) = n /\ row.key \in Keys(m) /\ row.sum \in Int
    BY <1>1 DEF Count, TreeRecords, NodesOf, RowsOfKeys
  <2>3. WayDown(t.root, s, row.key, n, t.node, D)
    BY <2>1, <2>2, PathIs
  <2>4. t.root # Nil
    BY <2>1 DEF Linked, Nil
  <2>5. TreeInsert(t, row) = IF s[Len(s)].drct = 0 THEN [t EXCEPT !.node[s[Len(s)].node].sum = @ + row.sum]
                             ELSE Rebalanced(u, s)
    BY <2>4 DEF TreeInsert
  <2>6. AddsNode(new, t, n, m, row, RED)
    BY <1>1, NewNodeIs
  <2>7. Count(new) = n + 1
    <3>1. new.node \in NodesOf(n + 1, m)
      BY <2>6 DEF AddsNode
    <3> HIDE DEF new
    <3> QED  BY <3>1 DEF Count, NodesOf
  <2> HIDE DEF s, new
  <2> HIDE DEF u
  <2>8. CASE s[Len(s)].drct = 0
    <3> DEFINE x == s[Len(s)].node
    <3>1. x \in 1 .. n
      BY <2>3, OnTheWay
    <3> HIDE DEF x
    <3>2. /\ RedBlack([t EXCEPT !.node[x].sum = @ + row.sum], n, m)
          /\ [t EXCEPT !.node[x].sum = @ + row.sum].freeNodeCounter = t.freeNodeCounter
      BY <1>3, <2>2, <3>1, KnownAdded
    <3>3. TreeInsert(t, row) = [t EXCEPT !.node[x].sum = @ + row.sum]
      BY <2>5, <2>8 DEF x
    <3> QED  BY <1>1, <3>2, <3>3 DEF InsertedIn
  <2>9. CASE s[Len(s)].drct # 0
    <3>1. HungOn(u, new, s, n)
      BY <2>7, <2>9 DEF HungOn, u
    <3>2. InsertedIn(Rebalanced(u, s), t, n, m)
      BY <1>3, <2>1, <2>3, <2>6, <3>1, NewInserted
    <3>3. TreeInsert(t, row) = Rebalanced(u, s)
      BY <2>5, <2>9
    <3> QED  BY <3>2, <3>3
  <2> QED  BY <2>8, <2>9
<1> QED  BY <1>2, <1>3

\* The tree RunFormation() starts with, and takes after a chunk.
LEMMA NoNodesYet ==
  ASSUME NEW m \in Nat, NEW limit \in Nat
  PROVE  RedBlack(InitializeTree(limit), 0, m)
<1>1. <<>> \in NodesOf(0, m)
  <2>1. 1 .. 0 = {}
    OBVIOUS
  <2> QED  BY <2>1 DEF NodesOf
<1> QED  BY <1>1 DEF RedBlack, TreeRecords, InitializeTree, Nil

-----------------------------------------------------------------------------
(* What a red-black tree has: the same number of black nodes on every way   *)
(* down, a small height, and its rows in order.                             *)

\* BlackHeight() is the number of black nodes below the root, never -1.
LEMMA BlackHeightIs ==
  ASSUME NEW n \in Nat, NEW m \in Nat, NEW t, NEW D, Linked(n, m, t.node, t.root, D),
         NEW B, BlackNodes(n, t.node, B)
  PROVE  BlackHeight(t) = B[t.root]
<1> DEFINE nodes == t.node
           turn(g, x) ==
             IF x = Nil THEN 0
             ELSE IF g[nodes[x].child[Left]] = -1 \/ g[nodes[x].child[Left]] # g[nodes[x].child[Right]] THEN -1
             ELSE g[nodes[x].child[Left]] + (IF nodes[x].clr = BLACK THEN 1 ELSE 0)
           Counts(g) == g = [x \in 0 .. n |-> turn(g, x)]
           of == CHOOSE g : Counts(g)
           f == [x \in 0 .. n |-> Blacks(B, x)]
<1>1. Links(n, nodes, t.root) /\ nodes \in NodesOf(n, m) /\ t.root \in 1 .. n
  BY LinksOf, Zenon DEF Linked
<1>2. Count(t) = n
  BY <1>1 DEF Count, NodesOf
<1>3. \A x \in 1 .. n, e \in 1 .. 2 : nodes[x].child[e] \in 0 .. n
  BY <1>1 DEF Links
<1>4. \A x \in 1 .. n : x # Nil /\ x \in 0 .. n
  BY DEF Nil
<1>5. \A x \in 0 .. n : Blacks(B, x) \in Nat
  BY DEF Blacks, BlackNodes, Nil
<1>6. Counts(f)
  <2>1. ASSUME NEW x \in 0 .. n PROVE f[x] = turn(f, x)
    <3>1. CASE x = Nil
      BY <3>1 DEF Blacks
    <3>2. CASE x # Nil
      <4>1. x \in 1 .. n
        BY <3>2 DEF Nil
      <4> DEFINE c(e) == nodes[x].child[e]
      <4>2. f[c(1)] = Blacks(B, c(1)) /\ f[c(2)] = Blacks(B, c(2)) /\ c(1) \in 0 .. n /\ c(2) \in 0 .. n
        BY <1>3, <4>1
      <4>3. Blacks(B, c(1)) \in Nat /\ Blacks(B, c(2)) \in Nat
        BY <1>5, <4>2, Zenon
      <4>4. \A e \in 1 .. 2 : B[x] = Blacks(B, c(e)) + (IF nodes[x].clr = BLACK THEN 1 ELSE 0)
        BY <4>1 DEF BlackNodes
      <4>5. B[x] = Blacks(B, c(1)) + (IF nodes[x].clr = BLACK THEN 1 ELSE 0)
            /\ B[x] = Blacks(B, c(2)) + (IF nodes[x].clr = BLACK THEN 1 ELSE 0)
        BY <4>4
      <4>6. f[x] = B[x]
        BY <3>2 DEF Blacks
      <4> HIDE DEF f, c
      <4>7. f[c(1)] # -1 /\ f[c(1)] = f[c(2)]
        BY <4>2, <4>3, <4>5
      <4>8. turn(f, x) = f[c(1)] + (IF nodes[x].clr = BLACK THEN 1 ELSE 0)
        BY <3>2, <4>7 DEF Left, Right, c
      <4> QED  BY <4>2, <4>5, <4>6, <4>8
    <3> QED  BY <3>1, <3>2
  <2>2. f = [x \in 0 .. n |-> f[x]]
    OBVIOUS
  <2> HIDE DEF f, turn
  <2> QED  BY <2>1, <2>2, SMTT(60)
<1>7. Counts(of)
  <2> HIDE DEF Counts
  <2> QED  BY <1>6
<1>8. BlackHeight(t) = of[t.root]
  BY <1>2, SMTT(60) DEF BlackHeight
<1> HIDE DEF of
<1> DEFINE S == {x \in 0 .. n : of[x] = Blacks(B, x)}
<1>9. Nil \in S
  BY <1>7 DEF Nil, Blacks
<1>10. ASSUME NEW x \in 1 .. n, nodes[x].child[1] \in S, nodes[x].child[2] \in S PROVE x \in S
  <2> DEFINE c(e) == nodes[x].child[e]
  <2>1. of[c(1)] = Blacks(B, c(1)) /\ of[c(2)] = Blacks(B, c(2)) /\ c(1) \in 0 .. n /\ c(2) \in 0 .. n
    BY <1>10
  <2>2. Blacks(B, c(1)) \in Nat /\ Blacks(B, c(2)) \in Nat
    BY <1>5, <2>1
  <2>3. \A e \in 1 .. 2 : B[x] = Blacks(B, c(e)) + (IF nodes[x].clr = BLACK THEN 1 ELSE 0)
    BY DEF BlackNodes
  <2>4. B[x] = Blacks(B, c(1)) + (IF nodes[x].clr = BLACK THEN 1 ELSE 0)
        /\ B[x] = Blacks(B, c(2)) + (IF nodes[x].clr = BLACK THEN 1 ELSE 0)
    BY <2>3
  <2>5. of[x] = turn(of, x)
    BY <1>4, <1>7, Zenon
  <2> HIDE DEF c
  <2>6. of[c(1)] # -1 /\ of[c(1)] = of[c(2)]
    BY <2>1, <2>2, <2>4
  <2>7. turn(of, x) = of[c(1)] + (IF nodes[x].clr = BLACK THEN 1 ELSE 0)
    BY <1>4, <2>6, SMTT(60) DEF Left, Right, c
  <2>8. of[x] = B[x]
    BY <2>1, <2>4, <2>5, <2>7
  <2> QED  BY <1>4, <2>8 DEF Blacks
<1>11. 0 .. n \subseteq S
  <2> HIDE DEF S
  <2> QED  BY <1>9, <1>10, TreeInduction
<1>12. of[t.root] = Blacks(B, t.root) /\ t.root # Nil
  BY <1>1, <1>4, <1>11
<1> QED  BY <1>8, <1>12 DEF Blacks

\* A tree without nodes has no levels and no rows.
LEMMA NothingBelow ==
  ASSUME NEW m \in Nat, NEW t, RedBlack(t, 0, m)
  PROVE  Count(t) = 0 /\ BlackHeight(t) = 0 /\ Height(t) = 0 /\ InOrder(t) = <<>>
<1>1. Count(t) = 0 /\ t.root = Nil
  BY DEF RedBlack, TreeRecords, NodesOf, Count
<1>2. \A x \in 0 .. 0 : x = Nil
  BY DEF Nil
<1>3. BlackHeight(t) = 0
  <2> DEFINE turn(g, x) == LET l == g[t.node[x].child[Left]]
                               r == g[t.node[x].child[Right]]
                           IN  IF l = -1 \/ l # r THEN -1 ELSE l + (IF t.node[x].clr = BLACK THEN 1 ELSE 0)
             Counts(g) == g = [x \in 0 .. 0 |-> IF x = Nil THEN 0 ELSE turn(g, x)]
             of == CHOOSE g : Counts(g)
             f == [x \in 0 .. 0 |-> 0]
  <2>1. Counts(f)
    <3> HIDE DEF turn
    <3> QED  BY <1>2
  <2>2. Counts(of)
    <3> HIDE DEF Counts
    <3> QED  BY <2>1
  <2>3. BlackHeight(t) = of[Nil]
    BY <1>1 DEF BlackHeight
  <2> HIDE DEF of, turn
  <2> QED  BY <2>2, <2>3 DEF Nil
<1>4. Height(t) = 0
  <2> DEFINE turn(g, x) == LET l == g[t.node[x].child[Left]]
                               r == g[t.node[x].child[Right]]
                           IN  1 + (IF l < r THEN r ELSE l)
             Counts(g) == g = [x \in 0 .. 0 |-> IF x = Nil THEN 0 ELSE turn(g, x)]
             of == CHOOSE g : Counts(g)
             f == [x \in 0 .. 0 |-> 0]
  <2>1. Counts(f)
    <3> HIDE DEF turn
    <3> QED  BY <1>2
  <2>2. Counts(of)
    <3> HIDE DEF Counts
    <3> QED  BY <2>1
  <2>3. Height(t) = of[Nil]
    BY <1>1 DEF Height
  <2> HIDE DEF of, turn
  <2> QED  BY <2>2, <2>3 DEF Nil
<1>5. InOrder(t) = <<>>
  <2> DEFINE turn(g, x) == g[t.node[x].child[Left]] \o <<[key |-> t.node[x].key, sum |-> t.node[x].sum]>>
                           \o g[t.node[x].child[Right]]
             Lists(g) == g = [x \in 0 .. 0 |-> IF x = Nil THEN <<>> ELSE turn(g, x)]
             of == CHOOSE g : Lists(g)
             f == [x \in 0 .. 0 |-> <<>>]
  <2>1. Lists(f)
    <3> HIDE DEF turn
    <3> QED  BY <1>2
  <2>2. Lists(of)
    <3> HIDE DEF Lists
    <3> QED  BY <2>1
  <2>3. InOrder(t) = of[Nil]
    BY <1>1 DEF InOrder
  <2> HIDE DEF of, turn
  <2> QED  BY <2>2, <2>3 DEF Nil
<1> QED  BY <1>1, <1>3, <1>4, <1>5

\* The levels below a red-black root are at most twice its black nodes.
LEMMA HeightIs ==
  ASSUME NEW n \in Nat, NEW m \in Nat, NEW t, NEW D, Linked(n, m, t.node, t.root, D),
         NEW B, BlackNodes(n, t.node, B), RedsApart(n, t.node, Nil, 0), t.node[t.root].clr = BLACK
  PROVE  Height(t) \in Nat /\ Height(t) <= 2 * B[t.root]
<1> DEFINE nodes == t.node
           more(a, b) == 1 + (IF a < b THEN b ELSE a)
           F == [p \in (1 .. n) \X Nat \X Nat |-> more(p[2], p[3])]
           turn(g, x) == IF x = Nil THEN 0 ELSE more(g[nodes[x].child[Left]], g[nodes[x].child[Right]])
           Heights(g) == g = [x \in 0 .. n |-> turn(g, x)]
           of == CHOOSE g : Heights(g)
           red(x) == IF Red(nodes, x) THEN 1 ELSE 0
<1>1. Links(n, nodes, t.root) /\ nodes \in NodesOf(n, m) /\ t.root \in 1 .. n
  BY LinksOf, Zenon DEF Linked
<1>2. Count(t) = n
  BY <1>1, SMTT(60) DEF Count, NodesOf
<1>3. \A x \in 1 .. n, e \in 1 .. 2 : nodes[x].child[e] \in 0 .. n
  BY <1>1 DEF Links
<1>4. \A x \in 1 .. n : x # Nil /\ x \in 0 .. n
  BY DEF Nil
<1>5. \A x \in 0 .. n : Blacks(B, x) \in Nat
  BY DEF Blacks, BlackNodes, Nil
<1>6. PICK f : MadeOfTree(f, n, nodes, Nat, 0, F)
  <2>1. F \in [(1 .. n) \X Nat \X Nat -> Nat] /\ 0 \in Nat
    BY SMTT(60)
  <2> HIDE DEF F
  <2> QED  BY <2>1, TreeRecursion, Zenon
<1>7. f \in [0 .. n -> Nat] /\ f[Nil] = 0
  BY <1>6 DEF MadeOfTree
<1>8. Heights(f)
  <2>1. ASSUME NEW x \in 0 .. n PROVE f[x] = turn(f, x)
    <3>1. CASE x = Nil
      BY <1>7, <3>1
    <3>2. CASE x # Nil
      <4>1. x \in 1 .. n
        BY <3>2 DEF Nil
      <4> DEFINE c(e) == nodes[x].child[e]
      <4>2. c(1) \in 0 .. n /\ c(2) \in 0 .. n
        BY <1>3, <4>1
      <4>3. f[x] = F[<<x, f[c(1)], f[c(2)]>>]
        BY <1>6, <4>1, Zenon DEF MadeOfTree
      <4>4. f[c(1)] \in Nat /\ f[c(2)] \in Nat
        BY <1>7, <4>2, Zenon
      <4> HIDE DEF c, more
      <4>5. f[x] = more(f[c(1)], f[c(2)])
        BY <4>1, <4>3, <4>4
      <4> QED  BY <3>2, <4>5 DEF c, Left, Right
    <3> QED  BY <3>1, <3>2
  <2>2. f = [x \in 0 .. n |-> f[x]]
    BY <1>7
  <2> HIDE DEF turn
  <2> QED  BY <2>1, <2>2, SMTT(60)
<1>9. Heights(of)
  <2> HIDE DEF Heights
  <2> QED  BY <1>8
<1>10. Height(t) = of[t.root]
  BY <1>2 DEF Height
<1> HIDE DEF of
<1> DEFINE S == {x \in 0 .. n : of[x] \in Nat /\ of[x] <= 2 * Blacks(B, x) + red(x)}
<1>11. Nil \in S
  <2>1. of[Nil] = 0 /\ Nil \in 0 .. n
    BY <1>9 DEF Nil
  <2> QED  BY <2>1, SMTT(60) DEF Blacks, Red
<1>12. ASSUME NEW x \in 1 .. n, nodes[x].child[1] \in S, nodes[x].child[2] \in S PROVE x \in S
  <2> DEFINE c(e) == nodes[x].child[e]
             b(e) == Blacks(B, c(e))
  <2>1. \A e \in 1 .. 2 : e = 1 \/ e = 2
    OBVIOUS
  <2>2. \A e \in 1 .. 2 : of[c(e)] \in Nat /\ of[c(e)] <= 2 * b(e) + red(c(e)) /\ b(e) \in Nat
    BY <1>5, <1>12, <2>1
  <2>3. \A e \in 1 .. 2 : Red(nodes, x) => ~Red(nodes, c(e))
    BY <1>4 DEF RedsApart
  <2>4. Blacks(B, x) = B[x] /\ nodes[x].clr \in {BLACK, RED}
    BY <1>1, <1>4, Zenon DEF Blacks, NodesOf
  <2>5. \A e \in 1 .. 2 : B[x] = b(e) + (IF nodes[x].clr = BLACK THEN 1 ELSE 0)
    BY SMTT(60) DEF BlackNodes
  <2>6. of[x] = more(of[c(1)], of[c(2)])
    BY <1>4, <1>9, Zenon DEF Left, Right
  <2>7. red(x) = IF nodes[x].clr = RED THEN 1 ELSE 0
    BY <1>4 DEF Red
  <2>8. \A e \in 1 .. 2 : of[c(e)] + 1 <= 2 * B[x] + red(x)
    <3> SUFFICES ASSUME NEW e \in 1 .. 2 PROVE of[c(e)] + 1 <= 2 * B[x] + red(x)
      BY SMTT(60)
    <3>1. of[c(e)] \in Nat /\ of[c(e)] <= 2 * b(e) + red(c(e)) /\ b(e) \in Nat
          /\ B[x] = b(e) + (IF nodes[x].clr = BLACK THEN 1 ELSE 0)
      BY <2>2, <2>5
    <3>2. red(c(e)) \in 0 .. 1
      OBVIOUS
    <3>3. CASE nodes[x].clr = RED
      <4>1. red(c(e)) = 0 /\ red(x) = 1
        BY <1>4, <2>3, <2>7, <3>3 DEF Red
      <4>2. B[x] = b(e)
        BY <3>1, <3>3 DEF RED, BLACK
      <4> HIDE DEF red, b, c
      <4> QED  BY <3>1, <4>1, <4>2, SMTT(60)
    <3>4. CASE nodes[x].clr = BLACK
      <4>1. red(x) = 0
        BY <2>7, <3>4 DEF RED, BLACK
      <4>2. B[x] = b(e) + 1
        BY <3>1, <3>4, SMTT(60)
      <4> HIDE DEF red, b, c
      <4> QED  BY <3>1, <3>2, <4>1, <4>2
    <3> QED  BY <2>4, <3>3, <3>4
  <2>9. /\ of[c(1)] + 1 <= 2 * B[x] + red(x) /\ of[c(2)] + 1 <= 2 * B[x] + red(x)
        /\ of[c(1)] \in Nat /\ of[c(2)] \in Nat
    BY <2>2, <2>8
  <2> HIDE DEF c, red
  <2>10. of[x] \in Nat /\ of[x] <= 2 * B[x] + red(x)
    BY <2>6, <2>9
  <2> QED  BY <1>4, <2>4, <2>10
<1>13. 0 .. n \subseteq S
  <2> HIDE DEF S
  <2> QED  BY <1>11, <1>12, TreeInduction
<1>14. of[t.root] \in Nat /\ of[t.root] <= 2 * Blacks(B, t.root) + red(t.root) /\ t.root # Nil
  BY <1>1, <1>4, <1>13
<1>15. red(t.root) = 0 /\ Blacks(B, t.root) = B[t.root] /\ B[t.root] \in Nat
  BY <1>1, <1>14 DEF Red, RED, BLACK, Blacks, BlackNodes
<1> QED  BY <1>10, <1>14, <1>15

\* With b black nodes on every way down there are at least Bit[b] - 1 nodes.
LEMMA BlacksAreFew ==
  ASSUME NEW n \in Nat, NEW m \in Nat, NEW nodes, NEW root, NEW D, Linked(n, m, nodes, root, D),
         NEW B, BlackNodes(n, nodes, B)
  PROVE  B[root] \in Nat /\ Bit[B[root]] <= n + 1
<1> DEFINE card(x) == Cardinality(Under(D, x))
           S == {x \in 0 .. n : Bit[Blacks(B, x)] <= card(x) + 1}
<1>1. Hangs(n, m, nodes, D) /\ root \in 1 .. n /\ D[root] = 1 .. n
  BY TreeHangs, Zenon DEF Linked
<1>2. \A x \in 1 .. n : x # Nil /\ x \in 0 .. n
  BY DEF Nil
<1>3. \A x \in 0 .. n : Blacks(B, x) \in Nat
  BY DEF Blacks, BlackNodes, Nil
<1>4. Nil \in S
  <2>1. Bit[Blacks(B, Nil)] = 1
    BY BitIs DEF Blacks
  <2>2. card(Nil) = 0
    BY FS_EmptySet DEF Under
  <2>3. Nil \in 0 .. n
    BY DEF Nil
  <2> HIDE DEF card
  <2> QED  BY <2>1, <2>2, <2>3
<1>5. ASSUME NEW x \in 1 .. n, nodes[x].child[1] \in S, nodes[x].child[2] \in S PROVE x \in S
  <2> DEFINE c(e) == nodes[x].child[e]
             U(e) == Under(D, c(e))
  <2>1. HangsAt(x, n, m, nodes, D)
    BY <1>1 DEF Hangs
  <2>2. \A e \in 1 .. 2 : U(e) \subseteq D[x] /\ x \notin U(e)
    BY <2>1 DEF HangsAt
  <2>3. IsFiniteSet(D[x]) /\ U(1) \cap U(2) = {} /\ x \in D[x]
    BY <2>1 DEF HangsAt
  <2>4. IsFiniteSet(U(1)) /\ IsFiniteSet(U(2)) /\ U(1) \subseteq D[x] /\ U(2) \subseteq D[x] /\ x \notin U(1)
        /\ x \notin U(2)
    <3>1. U(1) \subseteq D[x] /\ U(2) \subseteq D[x] /\ x \notin U(1) /\ x \notin U(2)
      BY <2>2
    <3> HIDE DEF U
    <3> QED  BY <2>3, <3>1, FS_Subset
  <2>5. Bit[Blacks(B, c(1))] <= card(c(1)) + 1 /\ Bit[Blacks(B, c(2))] <= card(c(2)) + 1
        /\ c(1) \in 0 .. n /\ c(2) \in 0 .. n
    BY <1>5
  <2>6. Cardinality(U(1)) \in Nat /\ Cardinality(U(2)) \in Nat /\ Cardinality(D[x]) \in Nat
    <3> HIDE DEF U
    <3> QED  BY <2>3, <2>4, FS_CardinalityType
  <2>7. Cardinality(D[x]) >= Cardinality(U(1)) + Cardinality(U(2)) + 1
    <3> HIDE DEF U
    <3> DEFINE A == U(1) \cup U(2)
    <3>1. IsFiniteSet(A) /\ Cardinality(A) = Cardinality(U(1)) + Cardinality(U(2))
      <4>1. Cardinality({}) = 0
        BY FS_EmptySet
      <4> DEFINE E == U(1)
                 W == U(2)
      <4>2. IsFiniteSet(E) /\ IsFiniteSet(W) /\ E \cap W = {} /\ Cardinality(E) \in Nat
            /\ Cardinality(W) \in Nat
        BY <2>3, <2>4, <2>6
      <4> HIDE DEF E, W
      <4>3. IsFiniteSet(E \cup W)
            /\ Cardinality(E \cup W) = Cardinality(E) + Cardinality(W) - Cardinality(E \cap W)
        BY <4>2, FS_Union
      <4>4. Cardinality(E \cap W) = 0
        BY <4>1, <4>2, Zenon
      <4>5. Cardinality(E \cup W) = Cardinality(E) + Cardinality(W)
        BY <4>2, <4>3, <4>4
      <4> QED  BY <4>3, <4>5 DEF E, W
    <3>2. x \notin A /\ A \cup {x} \subseteq D[x]
      BY <2>3, <2>4
    <3> HIDE DEF A
    <3>3. IsFiniteSet(A \cup {x}) /\ Cardinality(A \cup {x}) = Cardinality(A) + 1
      BY <3>1, <3>2, FS_AddElement
    <3>4. Cardinality(A \cup {x}) <= Cardinality(D[x])
      BY <2>3, <3>2, FS_Subset
    <3> QED  BY <2>6, <3>1, <3>3, <3>4
  <2>8. \A e \in 1 .. 2 : B[x] = Blacks(B, c(e)) + (IF nodes[x].clr = BLACK THEN 1 ELSE 0)
    BY DEF BlackNodes
  <2>9. B[x] = Blacks(B, c(1)) + (IF nodes[x].clr = BLACK THEN 1 ELSE 0)
        /\ B[x] = Blacks(B, c(2)) + (IF nodes[x].clr = BLACK THEN 1 ELSE 0)
    BY <2>8
  <2> DEFINE b == Blacks(B, c(1))
  <2>10. b \in Nat /\ Blacks(B, c(2)) \in Nat
    BY <1>3, <2>5
  <2>11. Blacks(B, c(2)) = b
    <3> HIDE DEF c, b
    <3>1. B[x] = b + (IF nodes[x].clr = BLACK THEN 1 ELSE 0)
      BY <2>9 DEF b
    <3> QED  BY <2>9, <2>10, <3>1
  <2>12. B[x] \in {b, b + 1}
    BY <2>9, <2>10
  <2> HIDE DEF b, U, c
  <2>13. Bit[b] \in Nat \ {0} /\ Bit[b + 1] = 2 * Bit[b]
    BY <2>10, BitIs
  <2>14. Bit[b] <= Cardinality(U(1)) + 1 /\ Bit[b] <= Cardinality(U(2)) + 1
    BY <2>5, <2>11 DEF b, U
  <2>15. Bit[B[x]] \in Int /\ Bit[B[x]] <= 2 * Bit[b]
    BY <2>12, <2>13
  <2>16. Bit[B[x]] <= Cardinality(D[x]) + 1
    BY <2>6, <2>7, <2>13, <2>14, <2>15
  <2> QED  BY <1>2, <2>16 DEF Blacks, Under
<1>6. 0 .. n \subseteq S
  <2> HIDE DEF S
  <2> QED  BY <1>4, <1>5, TreeInduction, Zenon
<1>7. Bit[Blacks(B, root)] <= card(root) + 1 /\ root # Nil
  BY <1>1, <1>2, <1>6
<1>8. card(root) = n
  <2>1. Cardinality(1 .. n) = n
    BY FS_Interval
  <2> QED  BY <1>1, <1>7, <2>1 DEF Under
<1> HIDE DEF card
<1> QED  BY <1>1, <1>3, <1>7, <1>8 DEF Blacks, BlackNodes

\* Bit grows, and twice the exponent is the square.
LEMMA BitsSquared ==
  /\ \A i, j \in Nat : i <= j => Bit[i] <= Bit[j]
  /\ \A b \in Nat : Bit[2 * b] = Bit[b] * Bit[b]
<1>1. \A i \in Nat : Bit[i] \in Nat \ {0} /\ Bit[i + 1] = 2 * Bit[i]
  BY BitIs
<1>2. ASSUME NEW i \in Nat, NEW j \in Nat, i <= j PROVE Bit[i] <= Bit[j]
  <2> DEFINE S == {k \in Nat : Bit[i] <= Bit[i + k]}
  <2>1. 0 \in S
    BY <1>1
  <2>2. ASSUME NEW k \in S PROVE k + 1 \in S
    <3>1. i + k \in Nat /\ i + (k + 1) = (i + k) + 1
      OBVIOUS
    <3>2. Bit[i] \in Nat /\ Bit[i + k] \in Nat /\ Bit[(i + k) + 1] = 2 * Bit[i + k]
      BY <1>1, <3>1
    <3> QED  BY <3>1, <3>2
  <2>3. S = Nat
    <3>1. S \in SUBSET Nat
      OBVIOUS
    <3> HIDE DEF S
    <3> QED  BY <2>1, <2>2, <3>1, AllNumbers
  <2>4. j - i \in Nat /\ i + (j - i) = j
    BY <1>2
  <2>5. j - i \in S
    BY <2>3, <2>4, Zenon
  <2>6. Bit[i] <= Bit[i + (j - i)]
    BY <2>5
  <2> QED  BY <2>4, <2>6
<1>3. \A b \in Nat : Bit[2 * b] = Bit[b] * Bit[b]
  <2> DEFINE S == {b \in Nat : Bit[2 * b] = Bit[b] * Bit[b]}
  <2>1. 0 \in S
    BY BitIs
  <2>2. ASSUME NEW b \in S PROVE b + 1 \in S
    <3>1. 2 * b \in Nat /\ 2 * b + 1 \in Nat /\ 2 * (b + 1) = (2 * b + 1) + 1
      OBVIOUS
    <3>2. Bit[b] \in Nat /\ Bit[2 * b] \in Nat /\ Bit[b + 1] = 2 * Bit[b] /\ Bit[2 * b + 1] = 2 * Bit[2 * b]
          /\ Bit[(2 * b + 1) + 1] = 2 * Bit[2 * b + 1]
      BY <1>1, <3>1
    <3>3. \A a \in Nat : (2 * a) * (2 * a) = 2 * (2 * (a * a))
      OBVIOUS
    <3>4. Bit[2 * b] = Bit[b] * Bit[b]
      OBVIOUS
    <3>5. (2 * Bit[b]) * (2 * Bit[b]) = 2 * (2 * (Bit[b] * Bit[b]))
      BY <3>2, <3>3
    <3>6. Bit[2 * (b + 1)] = Bit[b + 1] * Bit[b + 1]
      BY <3>1, <3>2, <3>4, <3>5
    <3> QED  BY <3>6
  <2>3. S = Nat
    <3>1. S \in SUBSET Nat
      OBVIOUS
    <3> HIDE DEF S
    <3> QED  BY <2>1, <2>2, <3>1, AllNumbers
  <2> QED  BY <2>3
<1> QED  BY <1>2, <1>3

\* The height is at most twice the binary logarithm of the nodes and one more.
LEMMA HeightIsSmall ==
  ASSUME NEW n \in Nat, NEW b \in Nat, Bit[b] <= n + 1, NEW h \in Nat, h <= 2 * b
  PROVE  Bit[h] <= (n + 1) * (n + 1)
<1>1. 2 * b \in Nat
  OBVIOUS
<1>2. Bit[h] \in Nat /\ Bit[b] \in Nat /\ Bit[2 * b] \in Nat
  BY <1>1, BitIs
<1>3. Bit[h] <= Bit[2 * b] /\ Bit[2 * b] = Bit[b] * Bit[b]
  BY <1>1, BitsSquared
<1>4. \A x, y \in Nat : x <= y => x * x <= y * y
  <2> SUFFICES ASSUME NEW x \in Nat, NEW y \in Nat, x <= y PROVE x * x <= y * y
    OBVIOUS
  <2>1. PICK z \in Nat : y = x + z
    <3>1. y - x \in Nat /\ y = x + (y - x)
      OBVIOUS
    <3> QED  BY <3>1
  <2>2. (x + z) * (x + z) = x * x + z * (2 * x + z)
    OBVIOUS
  <2>3. z * (2 * x + z) \in Nat /\ x * x \in Nat
    OBVIOUS
  <2> QED  BY <2>1, <2>2, <2>3
<1>5. Bit[b] * Bit[b] <= (n + 1) * (n + 1)
  BY <1>2, <1>4
<1>6. Bit[b] * Bit[b] \in Nat /\ (n + 1) * (n + 1) \in Nat
  BY <1>2
<1> QED  BY <1>2, <1>3, <1>5, <1>6

\* s lists the rows below x in the order of their keys.
Lists(s, m, nodes, under) ==
  /\ s \in Seq(RowsOfKeys(m)) /\ Len(s) = Cardinality(under)
  /\ Sorted(s)
  /\ \A i \in 1 .. Len(s) : \E y \in under : s[i].key = nodes[y].key

\* The row e comes after those of l and before those of r.
Between(l, e, r) ==
  /\ \A i \in 1 .. Len(l) : KeyComp(l[i].key, e.key) = -1
  /\ \A i \in 1 .. Len(r) : KeyComp(e.key, r[i].key) = -1

\* s is as long as l, e and r, and has their entries.
JoinedOf(s, l, e, r) ==
  /\ Len(s) = Len(l) + 1 + Len(r)
  /\ \A i \in 1 .. Len(s) : \/ \E j \in 1 .. Len(l) : s[i] = l[j]
                            \/ s[i] = e
                            \/ \E j \in 1 .. Len(r) : s[i] = r[j]

\* Sorted rows, a row between them and sorted rows.
LEMMA JoinedInOrder ==
  ASSUME NEW m \in Nat, NEW l \in Seq(RowsOfKeys(m)), NEW r \in Seq(RowsOfKeys(m)), NEW e \in RowsOfKeys(m),
         Sorted(l), Sorted(r),
         Between(l, e, r),
         NEW s, s = (l \o <<e>>) \o r
  PROVE  s \in Seq(RowsOfKeys(m)) /\ Sorted(s) /\ JoinedOf(s, l, e, r)
<1> DEFINE R == RowsOfKeys(m)
           a == Len(l)
           b == Len(r)
           f == l \o <<e>>
<1> HIDE DEF R
<1>1. l \in Seq(R) /\ r \in Seq(R) /\ e \in R /\ a \in Nat /\ b \in Nat
  BY DEF R
<1>2. <<e>> \in Seq(R) /\ Len(<<e>>) = 1 /\ <<e>>[1] = e
  BY <1>1
<1>3. f \in Seq(R) /\ Len(f) = a + 1 /\ (\A i \in 1 .. a : f[i] = l[i]) /\ f[a + 1] = e
  BY <1>1, <1>2
<1> HIDE DEF f
<1>4. s \in Seq(R) /\ Len(s) = a + 1 + b
  BY <1>1, <1>3 DEF f
<1>5. /\ \A i \in 1 .. a + 1 : s[i] = f[i]
      /\ \A j \in 1 .. b : s[a + 1 + j] = r[j]
  BY <1>1, <1>3 DEF f
<1> HIDE DEF a, b
<1>6. /\ \A i \in 1 .. a : s[i] = l[i]
      /\ s[a + 1] = e
      /\ \A i \in 1 .. a + 1 + b : i > a + 1 => i - (a + 1) \in 1 .. b /\ s[i] = r[i - (a + 1)]
  <2>1. \A i \in 1 .. a : i \in 1 .. a + 1
    BY <1>1
  <2>2. a + 1 \in 1 .. a + 1
    BY <1>1
  <2>3. ASSUME NEW i \in 1 .. a + 1 + b, i > a + 1 PROVE i - (a + 1) \in 1 .. b /\ s[i] = r[i - (a + 1)]
    <3>1. i - (a + 1) \in 1 .. b /\ a + 1 + (i - (a + 1)) = i
      BY <1>1, <2>3
    <3> QED  BY <1>5, <3>1, Zenon
  <2> QED  BY <1>3, <1>5, <2>1, <2>2, <2>3, Zenon
<1>7. Sorted(s)
  <2> SUFFICES ASSUME NEW i \in 1 .. Len(s) - 1 PROVE KeyComp(s[i].key, s[i + 1].key) < 0
    BY Zenon DEF Sorted
  <2>1. i \in 1 .. a + b
    BY <1>1, <1>4
  <2>2. CASE i < a
    <3>1. i \in 1 .. a /\ i + 1 \in 1 .. a /\ i \in 1 .. a - 1
      BY <1>1, <2>1, <2>2
    <3>2. KeyComp(l[i].key, l[i + 1].key) < 0
      BY <3>1, Zenon DEF Sorted, a
    <3> QED  BY <1>6, <3>1, <3>2, Zenon
  <2>3. CASE i = a
    <3>1. i \in 1 .. a
      BY <2>1, <2>3
    <3>2. s[i] = l[i] /\ s[i + 1] = e
      BY <1>6, <2>3, <3>1, Zenon
    <3>3. KeyComp(l[i].key, e.key) = -1
      BY <3>1 DEF a, Between
    <3>4. KeyComp(s[i].key, s[i + 1].key) = -1
      BY <3>2, <3>3, Zenon
    <3> QED  BY <3>4, SMTT(60)
  <2>4. CASE i = a + 1
    <3>1. i + 1 \in 1 .. a + 1 + b /\ i + 1 > a + 1 /\ (i + 1) - (a + 1) = 1 /\ 1 \in 1 .. b
      BY <1>1, <2>1, <2>4
    <3>2. s[i] = e /\ s[i + 1] = r[1]
      BY <1>6, <2>4, <3>1, Zenon
    <3>3. KeyComp(e.key, r[1].key) = -1
      BY <3>1 DEF b, Between
    <3>4. KeyComp(s[i].key, s[i + 1].key) = -1
      BY <3>2, <3>3, Zenon
    <3> QED  BY <3>4, SMTT(60)
  <2>5. CASE i > a + 1
    <3> DEFINE k == i - (a + 1)
    <3>1. i \in 1 .. a + 1 + b /\ i + 1 \in 1 .. a + 1 + b /\ i + 1 > a + 1 /\ (i + 1) - (a + 1) = k + 1
          /\ k \in 1 .. b - 1
      BY <1>1, <2>1, <2>5
    <3>2. s[i] = r[k] /\ s[i + 1] = r[k + 1]
      BY <1>6, <2>5, <3>1, Zenon
    <3>3. KeyComp(r[k].key, r[k + 1].key) < 0
      BY <3>1, Zenon DEF Sorted, b
    <3> HIDE DEF k
    <3> QED  BY <3>2, <3>3, Zenon
  <2> QED  BY <1>1, <2>1, <2>2, <2>3, <2>4, <2>5, SMTT(60)
<1>8. ASSUME NEW i \in 1 .. Len(s)
      PROVE  (\E j \in 1 .. a : s[i] = l[j]) \/ s[i] = e \/ (\E j \in 1 .. b : s[i] = r[j])
  <2>1. i \in 1 .. a + 1 + b
    BY <1>4
  <2>2. i \in 1 .. a \/ i = a + 1 \/ i > a + 1
    BY <1>1, <2>1
  <2> QED  BY <1>6, <2>1, <2>2, Zenon
<1> QED  BY <1>4, <1>7, <1>8 DEF R, a, b, JoinedOf

\* The rows of a node's subtree are those to the left, its own and those to the right.
LEMMA ListJoined ==
  ASSUME NEW n \in Nat, NEW m \in Nat, NEW nodes, NEW root, NEW D, Linked(n, m, nodes, root, D),
         NEW x \in 1 .. n, NEW e \in RowsOfKeys(m), e.key = nodes[x].key,
         NEW l, Lists(l, m, nodes, Under(D, nodes[x].child[1])),
         NEW r, Lists(r, m, nodes, Under(D, nodes[x].child[2]))
  PROVE  Lists((l \o <<e>>) \o r, m, nodes, D[x])
<1> DEFINE U(d) == Under(D, nodes[x].child[d])
           s == (l \o <<e>>) \o r
<1>1. HangsAt(x, n, m, nodes, D)
  BY TreeHangs DEF Hangs
<1>2. D[x] = {x} \cup U(1) \cup U(2)
  BY DEF Linked
<1>3. U(1) \cap U(2) = {} /\ IsFiniteSet(D[x]) /\ \A d \in 1 .. 2 : x \notin U(d) /\ U(d) \subseteq D[x]
  BY <1>1 DEF HangsAt
<1>4. l \in Seq(RowsOfKeys(m)) /\ r \in Seq(RowsOfKeys(m)) /\ Sorted(l) /\ Sorted(r)
      /\ Len(l) = Cardinality(U(1)) /\ Len(r) = Cardinality(U(2))
  BY DEF Lists
<1>5. ASSUME NEW i \in 1 .. Len(l) PROVE KeyComp(l[i].key, e.key) = -1
  <2>1. PICK y \in U(1) : l[i].key = nodes[y].key
    BY DEF Lists
  <2>2. Before(1, nodes[y].key, nodes[x].key)
    BY <2>1 DEF Linked
  <2> QED  BY <2>1, <2>2 DEF Before, Left
<1>6. ASSUME NEW i \in 1 .. Len(r) PROVE KeyComp(e.key, r[i].key) = -1
  <2>1. PICK y \in U(2) : r[i].key = nodes[y].key
    BY DEF Lists
  <2>2. Before(2, nodes[y].key, nodes[x].key)
    BY <2>1 DEF Linked
  <2> QED  BY <2>1, <2>2 DEF Before, Left
<1>7. s \in Seq(RowsOfKeys(m)) /\ Sorted(s) /\ JoinedOf(s, l, e, r)
  <2> HIDE DEF s
  <2>1. s = (l \o <<e>>) \o r
    BY DEF s
  <2>2. Between(l, e, r)
    BY <1>5, <1>6 DEF Between
  <2> QED  BY <1>4, <2>1, <2>2, JoinedInOrder, Zenon
<1>8. Cardinality(D[x]) = Cardinality(U(1)) + 1 + Cardinality(U(2))
  <2> DEFINE E == U(1)
             W == U(2)
             A == E \cup W
  <2>1. E \cap W = {} /\ E \subseteq D[x] /\ W \subseteq D[x] /\ x \notin E /\ x \notin W /\ D[x] = A \cup {x}
    BY <1>2, <1>3
  <2> HIDE DEF E, W
  <2>2. IsFiniteSet(E) /\ IsFiniteSet(W)
    BY <1>3, <2>1, FS_Subset
  <2>3. Cardinality(E) \in Nat /\ Cardinality(W) \in Nat
    BY <2>2, FS_CardinalityType
  <2>4. IsFiniteSet(A) /\ Cardinality(A) = Cardinality(E) + Cardinality(W) - Cardinality(E \cap W)
    BY <2>2, FS_Union
  <2>5. Cardinality(E \cap W) = 0
    <3>1. Cardinality({}) = 0
      BY FS_EmptySet
    <3> QED  BY <2>1, <3>1, Zenon
  <2>6. x \notin A
    BY <2>1
  <2> HIDE DEF A
  <2>7. Cardinality(A \cup {x}) = Cardinality(A) + 1
    BY <2>4, <2>6, FS_AddElement, Zenon
  <2>8. Cardinality(D[x]) = Cardinality(E) + 1 + Cardinality(W)
    BY <2>1, <2>3, <2>4, <2>5, <2>7
  <2> QED  BY <2>8, SMTT(60) DEF E, W
<1>9. ASSUME NEW i \in 1 .. Len(s) PROVE \E y \in D[x] : s[i].key = nodes[y].key
  <2> HIDE DEF s
  <2>1. CASE \E j \in 1 .. Len(l) : s[i] = l[j]
    <3>1. PICK j \in 1 .. Len(l) : s[i] = l[j]
      BY <2>1
    <3>2. PICK y \in U(1) : l[j].key = nodes[y].key
      BY DEF Lists
    <3> QED  BY <1>2, <3>1, <3>2
  <2>2. CASE s[i] = e
    BY <1>2, <2>2
  <2>3. CASE \E j \in 1 .. Len(r) : s[i] = r[j]
    <3>1. PICK j \in 1 .. Len(r) : s[i] = r[j]
      BY <2>3
    <3>2. PICK y \in U(2) : r[j].key = nodes[y].key
      BY DEF Lists
    <3> QED  BY <1>2, <3>1, <3>2
  <2> QED  BY <1>7, <2>1, <2>2, <2>3, Zenon DEF JoinedOf
<1> HIDE DEF s, U
<1>10. Len(s) = Cardinality(D[x])
  BY <1>4, <1>7, <1>8 DEF JoinedOf
<1>11. Lists(s, m, nodes, D[x])
  BY <1>7, <1>9, <1>10 DEF Lists
<1> QED  BY <1>11 DEF s

\* f gives the rows below each node, as InOrder() lists them.
ListOf(f, n, nodes) ==
  f = [x \in 0 .. n |->
         IF x = Nil THEN <<>>
         ELSE f[nodes[x].child[Left]] \o <<[key |-> nodes[x].key, sum |-> nodes[x].sum]>>
              \o f[nodes[x].child[Right]]]

\* InOrder() lists the rows of the tree in the order of their keys.
LEMMA InOrderIs ==
  ASSUME NEW n \in Nat, NEW m \in Nat, NEW t, NEW D, Linked(n, m, t.node, t.root, D)
  PROVE  Sorted(InOrder(t)) /\ Len(InOrder(t)) = n
<1> DEFINE nodes == t.node
           V == Seq(RowsOfKeys(m))
           row(x) == [key |-> nodes[x].key, sum |-> nodes[x].sum]
           join(l, e, r) == (l \o <<e>>) \o r
           F == [p \in (1 .. n) \X V \X V |-> join(p[2], row(p[1]), p[3])]
           of == CHOOSE g : ListOf(g, n, nodes)
<1>1. Links(n, nodes, t.root) /\ nodes \in NodesOf(n, m) /\ t.root \in 1 .. n /\ D[t.root] = 1 .. n
  BY LinksOf, Zenon DEF Linked
<1>2. Count(t) = n
  BY <1>1, SMTT(60) DEF Count, NodesOf
<1>3. \A x \in 1 .. n, e \in 1 .. 2 : nodes[x].child[e] \in 0 .. n
  BY <1>1 DEF Links
<1>4. \A x \in 1 .. n : x # Nil /\ x \in 0 .. n
  BY DEF Nil
<1>5. \A x \in 1 .. n : row(x) \in RowsOfKeys(m)
  BY <1>1, Zenon DEF NodesOf, RowsOfKeys
<1>6. PICK f : MadeOfTree(f, n, nodes, V, <<>>, F)
  <2>1. <<>> \in V
    OBVIOUS
  <2>2. ASSUME NEW x \in 1 .. n, NEW l \in V, NEW r \in V PROVE join(l, row(x), r) \in V
    <3> DEFINE R == RowsOfKeys(m)
               e == row(x)
    <3>1. e \in R /\ l \in Seq(R) /\ r \in Seq(R)
      BY <1>5
    <3> HIDE DEF R, e
    <3>2. l \o <<e>> \in Seq(R)
      BY <3>1
    <3>3. (l \o <<e>>) \o r \in Seq(R)
      BY <3>1, <3>2
    <3> QED  BY <3>3 DEF R, e
  <2> HIDE DEF V, join, row
  <2>3. F \in [(1 .. n) \X V \X V -> V]
    BY <2>2
  <2> HIDE DEF F
  <2> QED  BY <2>1, <2>3, TreeRecursion, Zenon
<1>7. f \in [0 .. n -> V] /\ f[Nil] = <<>>
  BY <1>6, Zenon DEF MadeOfTree
<1>8. ListOf(f, n, nodes)
  <2> DEFINE turn(x) == IF x = Nil THEN <<>> ELSE join(f[nodes[x].child[Left]], row(x), f[nodes[x].child[Right]])
  <2>1. ASSUME NEW x \in 0 .. n PROVE f[x] = turn(x)
    <3>1. CASE x = Nil
      BY <1>7, <3>1
    <3>2. CASE x # Nil
      <4>1. x \in 1 .. n
        BY <3>2 DEF Nil
      <4> DEFINE c(e) == nodes[x].child[e]
      <4>2. c(1) \in 0 .. n /\ c(2) \in 0 .. n
        BY <1>3, <4>1
      <4>3. f[x] = F[<<x, f[c(1)], f[c(2)]>>]
        BY <1>6, <4>1, Zenon DEF MadeOfTree
      <4> HIDE DEF V, c, join, row
      <4>4. f[c(1)] \in V /\ f[c(2)] \in V
        BY <1>7, <4>2
      <4>5. f[x] = join(f[c(1)], row(x), f[c(2)])
        BY <4>1, <4>3, <4>4
      <4> QED  BY <3>2, <4>5 DEF c, Left, Right
    <3> QED  BY <3>1, <3>2
  <2>2. f = [x \in 0 .. n |-> f[x]]
    BY <1>7
  <2>3. f = [x \in 0 .. n |-> turn(x)]
    <3> HIDE DEF turn
    <3> QED  BY <2>1, <2>2
  <2> QED  BY <2>3, ZenonT(60) DEF ListOf
<1>9. ListOf(of, n, nodes)
  <2> DEFINE P(g) == ListOf(g, n, nodes)
  <2>1. P(f)
    BY <1>8
  <2> HIDE DEF P
  <2>2. P(CHOOSE g : P(g))
    BY <2>1
  <2> QED  BY <2>2 DEF P
<1>10. InOrder(t) = of[t.root]
  BY <1>2 DEF InOrder, ListOf
<1> HIDE DEF of
<1> DEFINE S == {x \in 0 .. n : Lists(of[x], m, nodes, Under(D, x))}
<1>11. Nil \in S
  <2> DEFINE turn(x) == of[nodes[x].child[Left]] \o <<row(x)>> \o of[nodes[x].child[Right]]
  <2>1. of = [x \in 0 .. n |-> IF x = Nil THEN <<>> ELSE turn(x)]
    BY <1>9, Zenon DEF ListOf
  <2>2. Nil \in 0 .. n
    BY DEF Nil
  <2> HIDE DEF turn
  <2>3. of[Nil] = <<>>
    BY <2>1, <2>2
  <2>4. Under(D, Nil) = {} /\ Cardinality({}) = 0
    BY FS_EmptySet DEF Under
  <2>5. Lists(<<>>, m, nodes, {})
    BY <2>4 DEF Lists, Sorted
  <2> QED  BY <2>2, <2>3, <2>4, <2>5, Zenon
<1>12. ASSUME NEW x \in 1 .. n, nodes[x].child[1] \in S, nodes[x].child[2] \in S PROVE x \in S
  <2> DEFINE l == of[nodes[x].child[1]]
             r == of[nodes[x].child[2]]
             e == row(x)
  <2>1. Lists(l, m, nodes, Under(D, nodes[x].child[1])) /\ Lists(r, m, nodes, Under(D, nodes[x].child[2]))
    BY <1>12
  <2>2. of[x] = (l \o <<e>>) \o r
    BY <1>4, <1>9, Zenon DEF ListOf, Left, Right
  <2>3. e \in RowsOfKeys(m) /\ e.key = nodes[x].key
    BY <1>5
  <2> HIDE DEF l, r, e
  <2>4. Lists((l \o <<e>>) \o r, m, nodes, D[x])
    BY <2>1, <2>3, ListJoined
  <2>5. Under(D, x) = D[x]
    BY <1>4 DEF Under
  <2> QED  BY <1>4, <2>2, <2>4, <2>5, ZenonT(60)
<1>13. 0 .. n \subseteq S
  <2> HIDE DEF S
  <2> QED  BY <1>11, <1>12, TreeInduction
<1>14. Lists(of[t.root], m, nodes, 1 .. n)
  <2>1. t.root \in S /\ Under(D, t.root) = 1 .. n
    BY <1>1, <1>4, <1>13 DEF Under
  <2> QED  BY <2>1
<1>15. Cardinality(1 .. n) = n
  BY FS_Interval
<1> QED  BY <1>10, <1>14, <1>15 DEF Lists

\* A red-black tree is all that TreeIsBalanced asks of a tree.
LEMMA RedBlackIsBalanced ==
  ASSUME NEW n \in Nat, NEW m \in Nat, NEW t, RedBlack(t, n, m)
  PROVE  /\ Count(t) = n
         /\ Balanced(t)
         /\ Sorted(InOrder(t)) /\ Len(InOrder(t)) = n
         /\ Bit[Height(t)] <= (n + 1) * (n + 1)
<1>1. t \in TreeRecords(n, m) /\ t.node \in NodesOf(n, m)
  BY DEF RedBlack, TreeRecords
<1>2. Count(t) = n
  BY <1>1 DEF NodesOf, Count
<1>3. CASE n = 0
  <2>1. RedBlack(t, 0, m)
    BY <1>3
  <2>2. BlackHeight(t) = 0 /\ Height(t) = 0 /\ InOrder(t) = <<>> /\ t.root = Nil
    BY <2>1, NothingBelow DEF RedBlack
  <2>3. Balanced(t)
    BY <1>2, <1>3, <2>2 DEF Balanced, IsRed
  <2>4. Sorted(<<>>) /\ Len(<<>>) = 0
    BY DEF Sorted
  <2>5. Bit[0] <= (0 + 1) * (0 + 1)
    BY BitIs
  <2> QED  BY <1>2, <1>3, <2>2, <2>3, <2>4, <2>5
<1>4. CASE n # 0
  <2>1. PICK D : Linked(n, m, t.node, t.root, D)
    BY <1>4 DEF RedBlack, RedBut
  <2>2. PICK B : BlackNodes(n, t.node, B)
    BY <1>4 DEF RedBlack, RedBut
  <2>3. RedsApart(n, t.node, Nil, 0) /\ t.node[t.root].clr = BLACK
    BY <1>4 DEF RedBlack, RedBut
  <2>4. BlackHeight(t) = B[t.root]
    BY <2>1, <2>2, BlackHeightIs, Zenon
  <2>5. B[t.root] \in Nat /\ Bit[B[t.root]] <= n + 1
    BY <2>1, <2>2, BlacksAreFew
  <2>6. Height(t) \in Nat /\ Height(t) <= 2 * B[t.root]
    BY <2>1, <2>2, <2>3, HeightIs, Zenon
  <2>7. Bit[Height(t)] <= (n + 1) * (n + 1)
    BY <2>5, <2>6, HeightIsSmall
  <2>8. Sorted(InOrder(t)) /\ Len(InOrder(t)) = n
    BY <2>1, InOrderIs
  <2>9. Balanced(t)
    <3>1. ~IsRed(t, t.root)
      BY <2>3 DEF IsRed, RED, BLACK
    <3>2. ASSUME NEW x \in 1 .. n, IsRed(t, x), NEW d \in {Left, Right} PROVE ~IsRed(t, t.node[x].child[d])
      <4>1. d \in 1 .. 2 /\ x # Nil
        BY DEF Left, Right, Nil
      <4>2. Red(t.node, x)
        BY <3>2, IsRedIs
      <4>3. ~Red(t.node, t.node[x].child[d])
        BY <2>3, <4>1, <4>2 DEF RedsApart
      <4> QED  BY <4>3, IsRedIs
    <3>3. BlackHeight(t) # -1
      BY <2>4, <2>5
    <3> QED  BY <1>2, <3>1, <3>2, <3>3 DEF Balanced
  <2> QED  BY <1>2, <2>7, <2>8, <2>9
<1> QED  BY <1>3, <1>4

-----------------------------------------------------------------------------
(* The task that makes a view.                                             *)

\* The rows have keys of m attributes.
RowsHave(m) == rows \in Seq(RowsOfKeys(m))

\* While rows are read and when the tree is written it is a red-black tree, and
\* the nodes it has and those the pool has are all there are.
TreeInv ==
  /\ memory \in Memories /\ iRec \in Nat
  /\ \E m \in Nat :
       /\ RowsHave(m)
       /\ Working => \E n \in Nat : RedBlack(tree, n, m) /\ tree.freeNodeCounter + n = memory.nodes

\* The rows of an input have keys of one length.
LEMMA InputsHaveKeys ==
  ASSUME NEW list \in Inputs
  PROVE  \E m \in Nat : list \in Seq(RowsOfKeys(m))
<1>1. list \in Seq([key : Seq(Int), sum : Int]) /\ \A i, j \in DOMAIN list : Len(list[i].key) = Len(list[j].key)
  BY InputsAssumption
<1>2. CASE list = <<>>
  <2>1. list \in Seq(RowsOfKeys(0))
    BY <1>2
  <2> QED  BY <2>1
<1>3. CASE list # <<>>
  <2> DEFINE l == Len(list)
             m == Len(list[1].key)
  <2>1. l \in Nat /\ l >= 1 /\ DOMAIN list = 1 .. l /\ \A i \in 1 .. l : list[i] \in [key : Seq(Int), sum : Int]
    <3> DEFINE R == [key : Seq(Int), sum : Int]
    <3> HIDE DEF R
    <3>1. list \in Seq(R)
      BY <1>1 DEF R
    <3>2. l \in Nat /\ l >= 1 /\ DOMAIN list = 1 .. l /\ \A i \in 1 .. l : list[i] \in R
      BY <1>3, <3>1
    <3> QED  BY <3>2 DEF R
  <2>2. m \in Nat
    <3>1. list[1].key \in Seq(Int)
      BY <2>1
    <3> QED  BY <3>1
  <2>3. ASSUME NEW i \in 1 .. l PROVE list[i] \in RowsOfKeys(m)
    <3>1. list[i].key \in Seq(Int) /\ list[i].sum \in Int
          /\ list[i] = [key |-> list[i].key, sum |-> list[i].sum]
      BY <2>1
    <3>2. Len(list[i].key) = m
      <4>1. 1 \in DOMAIN list /\ i \in DOMAIN list
        BY <2>1
      <4> HIDE DEF l
      <4> QED  BY <1>1, <4>1
    <3> HIDE DEF m
    <3>3. list[i].key \in [1 .. m -> Int]
      BY <3>1, <3>2
    <3> QED  BY <3>1, <3>3 DEF RowsOfKeys, Keys
  <2> HIDE DEF m
  <2>4. list = [i \in 1 .. l |-> list[i]]
    BY <1>1
  <2>5. list \in Seq(RowsOfKeys(m))
    <3> DEFINE R == RowsOfKeys(m)
    <3>1. list \in [1 .. l -> R]
      BY <2>3, <2>4
    <3> HIDE DEF R, l
    <3>2. list \in Seq(R)
      BY <2>1, <3>1
    <3> QED  BY <3>2 DEF R
  <2> QED  BY <2>2, <2>5
<1> QED  BY <1>2, <1>3

\* At first the tree has no nodes.
LEMMA TreeAtFirst == ViewInit => TreeInv
<1> SUFFICES ASSUME ViewInit PROVE TreeInv
  OBVIOUS
<1>1. memory \in Memories /\ iRec = 0 /\ tree = InitializeTree(memory.nodes) /\ memory.nodes \in Nat
  BY MemoriesAssumption DEF ViewInit, CreateEmptyTree
<1>2. PICK m \in Nat : RowsHave(m)
  BY InputsHaveKeys DEF ViewInit, RowsHave
<1>3. RedBlack(tree, 0, m) /\ tree.freeNodeCounter + 0 = memory.nodes
  <2>1. RedBlack(tree, 0, m)
    BY <1>1, NoNodesYet
  <2>2. tree.freeNodeCounter = memory.nodes
    BY <1>1 DEF InitializeTree
  <2> QED  BY <1>1, <2>2, <2>1
<1> QED  BY <1>1, <1>2, <1>3 DEF TreeInv

\* The tree after a row more.
LEMMA RowInserted ==
  ASSUME NEW m \in Nat, NEW n \in Nat, RowsHave(m), RedBlack(tree, n, m),
         tree.freeNodeCounter + n = memory.nodes,
         memory.nodes \in Nat, iRec \in Nat, iRec < Len(rows)
  PROVE  \E k \in Nat : RedBlack(TreeInsert(tree, rows[iRec + 1]), k, m)
                        /\ TreeInsert(tree, rows[iRec + 1]).freeNodeCounter + k = memory.nodes
<1>1. rows[iRec + 1] \in RowsOfKeys(m)
  <2>1. iRec + 1 \in 1 .. Len(rows)
    BY DEF RowsHave
  <2> QED  BY <2>1 DEF RowsHave
<1>2. InsertedIn(TreeInsert(tree, rows[iRec + 1]), tree, n, m)
  BY <1>1, TreeInsertIs
<1> QED  BY <1>2 DEF InsertedIn

\* TreeInv holds in every state.
LEMMA TreeStep == TreeInv /\ [ViewNext]_viewVars => TreeInv'
<1> SUFFICES ASSUME TreeInv, [ViewNext]_viewVars PROVE TreeInv'
  OBVIOUS
<1>1. memory.nodes \in Nat /\ iRec \in Nat /\ memory \in Memories
  BY MemoriesAssumption DEF TreeInv
<1>2. PICK m \in Nat :
        /\ RowsHave(m)
        /\ Working => \E n \in Nat : RedBlack(tree, n, m) /\ tree.freeNodeCounter + n = memory.nodes
  BY DEF TreeInv
<1>3. ASSUME memory' = memory, rows' = rows, iRec' \in Nat,
             Working' => \E n \in Nat : RedBlack(tree', n, m) /\ tree'.freeNodeCounter + n = memory.nodes
      PROVE  TreeInv'
  BY <1>1, <1>2, <1>3 DEF TreeInv, RowsHave
<1>4. ASSUME memory' = memory, rows' = rows, iRec' = iRec, tree' = tree, Working' => Working
      PROVE  TreeInv'
  BY <1>1, <1>2, <1>3, <1>4
<1>5. ASSUME memory' = memory, rows' = rows, iRec' = iRec, ~Working'
      PROVE  TreeInv'
  BY <1>1, <1>3, <1>5
<1>6. CASE FormRun
  <2>1. memory' = memory /\ rows' = rows /\ iRec' = iRec + 1 /\ iRec < Len(rows) /\ Working
    BY <1>6 DEF FormRun, Working
  <2>2. PICK k \in Nat : RedBlack(TreeInsert(tree, rows[iRec + 1]), k, m)
                         /\ TreeInsert(tree, rows[iRec + 1]).freeNodeCounter + k = memory.nodes
    BY <1>1, <1>2, <2>1, RowInserted
  <2>3. tree' = TreeInsert(tree, rows[iRec + 1]) \/ tree' = InitializeTree(memory.nodes)
    BY <1>6 DEF FormRun
  <2>4. RedBlack(InitializeTree(memory.nodes), 0, m)
        /\ InitializeTree(memory.nodes).freeNodeCounter + 0 = memory.nodes
    <3>1. RedBlack(InitializeTree(memory.nodes), 0, m)
      BY <1>1, NoNodesYet
    <3>2. InitializeTree(memory.nodes).freeNodeCounter = memory.nodes
      BY DEF InitializeTree
    <3> QED  BY <1>1, <3>1, <3>2
  <2> QED  BY <1>1, <1>3, <2>1, <2>2, <2>3, <2>4
<1>7. CASE EndRuns
  <2>1. memory' = memory /\ rows' = rows /\ iRec' = iRec /\ tree' = tree /\ Working
    BY <1>7 DEF EndRuns, Working
  <2> QED  BY <1>4, <2>1
<1>8. CASE FitInMemory
  <2>1. memory' = memory /\ rows' = rows /\ Working
    BY <1>8 DEF FitInMemory, Working
  <2>2. CASE iRec < Len(rows)
    <3>1. tree' = TreeInsert(tree, rows[iRec + 1]) /\ iRec' = iRec + 1
      BY <1>8, <2>2 DEF FitInMemory
    <3>2. PICK k \in Nat : RedBlack(TreeInsert(tree, rows[iRec + 1]), k, m)
                           /\ TreeInsert(tree, rows[iRec + 1]).freeNodeCounter + k = memory.nodes
      BY <1>1, <1>2, <2>1, <2>2, RowInserted
    <3> QED  BY <1>1, <1>3, <2>1, <3>1, <3>2
  <2>3. CASE ~(iRec < Len(rows))
    <3>1. tree' = tree /\ iRec' = iRec
      BY <1>8, <2>3 DEF FitInMemory
    <3> QED  BY <1>4, <2>1, <3>1
  <2> QED  BY <2>2, <2>3
<1>9. CASE WriteView
  <2>1. memory' = memory /\ rows' = rows /\ iRec' = iRec /\ ~Working'
    BY <1>9, Zenon DEF WriteView, Working, formed
  <2> QED  BY <1>5, <2>1
<1>10. CASE StartMerge
  <2>1. memory' = memory /\ rows' = rows /\ iRec' = iRec /\ ~Working'
    BY <1>10 DEF StartMerge, Working, formed
  <2> QED  BY <1>5, <2>1
<1>11. CASE MergeStep
  <2>1. pc = "merging" /\ (pc' = "flush" \/ pc' = pc) /\ UNCHANGED formed
    BY <1>11 DEF MergeStep
  <2>2. memory' = memory /\ rows' = rows /\ iRec' = iRec /\ ~Working'
    BY <2>1 DEF Working, formed
  <2> QED  BY <1>5, <2>2
<1>12. CASE EndMerge
  <2>1. memory' = memory /\ rows' = rows /\ iRec' = iRec /\ ~Working'
    BY <1>12 DEF EndMerge, Working, formed
  <2> QED  BY <1>5, <2>1
<1>13. CASE ViewReturn \/ UNCHANGED viewVars
  <2>1. memory' = memory /\ rows' = rows /\ iRec' = iRec /\ tree' = tree /\ pc' = pc
    BY <1>13 DEF ViewReturn, viewVars
  <2> QED  BY <1>4, <2>1 DEF Working
<1> QED  BY <1>6, <1>7, <1>8, <1>9, <1>10, <1>11, <1>12, <1>13 DEF ViewNext

\* Whatever the rows, TreeInsert() keeps the tree a red-black tree (rbt.c): no
\* two red nodes in a row, as many black nodes on every way down, the keys in
\* order, none lost, and a height logarithmic in the nodes, so that nodes[] and
\* drcts[], of MAX_TREE_HEIGHT entries, hold every descent.
THEOREM TreeStaysBalanced == ViewSpec => []TreeIsBalanced
<1>1. TreeInv => TreeIsBalanced
  <2> SUFFICES ASSUME TreeInv, Working
               PROVE  /\ Balanced(tree)
                      /\ Sorted(InOrder(tree)) /\ Len(InOrder(tree)) = Count(tree)
                      /\ Bit[Height(tree)] <= (Count(tree) + 1) * (Count(tree) + 1)
                      /\ tree.freeNodeCounter + Count(tree) = memory.nodes
    BY DEF TreeIsBalanced
  <2>1. PICK m \in Nat, n \in Nat : RedBlack(tree, n, m) /\ tree.freeNodeCounter + n = memory.nodes
    BY DEF TreeInv
  <2> QED  BY <2>1, RedBlackIsBalanced
<1>2. ViewSpec => []TreeInv
  BY TreeAtFirst, TreeStep, PTL DEF ViewSpec
<1> QED  BY <1>1, <1>2, PTL
=============================================================================
