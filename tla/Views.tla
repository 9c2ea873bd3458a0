------------------------------- MODULE Views -------------------------------
(* Rows and views of the DC benchmark (NPB3.4-OMP/DC).  A row has a key, its*)
(* attributes, and one measure, as in all the classes of DC; sum is the     *)
(* measure of a row of the input, or the sum of those aggregated in a row   *)
(* of a view.                                                               *)
EXTENDS Integers, Sequences, FiniteSets, FiniteSetsExt, TLC

CONSTANT measbound  \* upper limit of a measure, 31415 in the code (adc.h)

\* KeyComp(): the first attribute that differs decides.
KeyComp(a, b) ==
  LET differ == {i \in 1 .. Len(a) : a[i] # b[i]}
  IN  IF differ = {} THEN 0 ELSE IF a[Min(differ)] < b[Min(differ)] THEN -1 ELSE 1

\* SelectToView(): the attributes at some places of the key.
SelectToView(row, selection) ==
  [key |-> [i \in 1 .. Len(selection) |-> row.key[selection[i]]], sum |-> row.sum]

Sorted(rows) == \A i \in 1 .. Len(rows) - 1 : KeyComp(rows[i].key, rows[i + 1].key) < 0

-----------------------------------------------------------------------------
\* The sum of F(i) over an interval; halves, since TLC's folds are as deep as
\* the set is large.
SumOver(F(_), first, last) ==
  LET sum[lo \in Int, hi \in Int] ==
        IF lo > hi THEN 0
        ELSE IF lo = hi THEN F(lo)
        ELSE LET mid == (lo + hi) \div 2 IN sum[lo, mid] + sum[mid + 1, hi]
  IN  sum[first, last]

\* What a view is: one row for every key of the rows it is made from, in the
\* order of the keys, with the sum of their measures.
GroupBy(list) ==
  LET inOrder == SortSeq(list, LAMBDA r, s : KeyComp(r.key, s.key) < 0)
      n == Len(inOrder)
      isFirst(i) == i = 1 \/ inOrder[i].key # inOrder[i - 1].key
      firsts == SelectSeq([i \in 1 .. n |-> i], isFirst)
      end(g) == IF g = Len(firsts) THEN n ELSE firsts[g + 1] - 1
  IN  [g \in 1 .. Len(firsts) |->
         [key |-> inOrder[firsts[g]].key,
          sum |-> SumOver(LAMBDA i : inOrder[i].sum, firsts[g], end(g))]]

\* Every sum is weighted with the number of its row.
Checksum(view) ==
  SumOver(LAMBDA i : (i * view[i].sum) % measbound, 1, Len(view))
=============================================================================
