------------------------------- MODULE Heaps -------------------------------
(* The heap sort of the DC benchmark (NPB3.4-OMP/DC/jobcntl.c).  The code   *)
(* has it twice, vszsort() with restore() for records with the size of a    *)
(* view and onessort() with restoreo() for records with its number of       *)
(* attributes: key is the field that is compared.                           *)
EXTENDS Integers, Sequences

\* 1 << n
Bit[n \in Nat] == IF n = 0 THEN 1 ELSE 2 * Bit[n - 1]

Swapped(x, i, j) == [x EXCEPT ![i] = x[j], ![j] = x[i]]

\* A turn of the loop of restore() and restoreo(): x[j] changes places with the
\* larger of its children, unless it is not smaller.
Sunk(at, l, key) ==
  LET x == at.x
      j == at.j
      larger == IF 2 * j < l /\ x[2 * j][key] < x[2 * j + 1][key] THEN 2 * j + 1 ELSE 2 * j
  IN  IF j > l \div 2 \/ x[larger][key] <= x[j][key] THEN at
      ELSE [x |-> Swapped(x, j, larger), j |-> larger]

\* The levels of a heap.
Levels(l) == CHOOSE b \in 0 .. l : Bit[b] > l

\* All of it: j comes to the next level in every turn, until one changes nothing.
Restored(x, first, l, key) ==
  LET sinks[n \in 0 .. Len(x)] == IF n = 0 THEN [x |-> x, j |-> first] ELSE Sunk(sinks[n - 1], l, key)
  IN  sinks[Levels(l)].x

\* vszsort() and onessort(): a heap is made from its lower end, and the largest
\* entry left is drawn again and again.
HeapSort(x, key) ==
  LET n == Len(x)
      heap[k \in 0 .. n \div 2] == IF k = 0 THEN x ELSE Restored(heap[k - 1], n \div 2 + 1 - k, n, key)
      drawn[k \in 0 .. n - 1] ==
        IF k = 0 THEN heap[n \div 2] ELSE Restored(Swapped(drawn[k - 1], 1, n + 1 - k), 1, n - k, key)
  IN  IF n = 0 THEN x ELSE drawn[n - 1]
=============================================================================
