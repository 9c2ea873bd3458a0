----------------------------- MODULE Aggregates -----------------------------
(* The two ways of making a view that the optimized build of DC (adc.h,     *)
(* OPTIMIZATION) adds: a view whose attributes are the first ones of its    *)
(* parent is read off it, and one that shares the first attribute with its  *)
(* parent is sorted in parts, one for every value of that attribute.  Both  *)
(* rely on the order of the parent's rows.                                  *)
EXTENDS Views

\* The places of rows where F has another value than in the row before.
Beginnings(rows, F(_)) ==
  SelectSeq([i \in 1 .. Len(rows) |-> i], LAMBDA i : i = 1 \/ F(rows[i]) # F(rows[i - 1]))

EndOf(rows, begins, g) == IF g = Len(begins) THEN Len(rows) ELSE begins[g + 1] - 1

\* The sequences F(first), ..., F(last), one after the other; in halves, like
\* SumOver.
Joined(F(_), first, last) ==
  LET join[lo \in Int, hi \in Int] ==
        IF lo > hi THEN <<>>
        ELSE IF lo = hi THEN F(lo)
        ELSE LET mid == (lo + hi) \div 2 IN join[lo, mid] \o join[mid + 1, hi]
  IN  join[first, last]

-----------------------------------------------------------------------------
\* PrefixedAggregate(): a row with another key than the one before it begins a
\* row of the view; one with a smaller key ends the program.  The weights of
\* the checksum start again with every buffer of rows that is written.
PrefixedAggregate(rows, nOutBufRecs) ==
  LET begins == Beginnings(rows, LAMBDA r : r.key)
      made == [g \in 1 .. Len(begins) |->
                 [key |-> rows[begins[g]].key,
                  sum |-> SumOver(LAMBDA i : rows[i].sum, begins[g], EndOf(rows, begins, g))]]
      nOut(g) == ((g - 1) % nOutBufRecs) + 1
      wrongOrder == \E i \in 2 .. Len(rows) : KeyComp(rows[i].key, rows[i - 1].key) = -1
  IN  IF wrongOrder THEN [view |-> <<>>, checksum |-> 0]
      ELSE [view |-> made,
            checksum |-> SumOver(LAMBDA g : (nOut(g) * made[g].sum) % measbound, 1, Len(made))]

-----------------------------------------------------------------------------
\* How many rows SharedSortAggregate() reads: nsgs segments, of nreg rows each
\* but the last, which has nlst.
RowsRead(nRowsToRead, nib) ==
  LET full == nRowsToRead \div nib
      rest == nRowsToRead % nib
      nreg == IF full = 0 THEN nRowsToRead ELSE nib
      nsgs == IF full = 0 THEN 1 ELSE IF rest # 0 THEN full + 1 ELSE full
      nlst == IF full = 0 \/ rest = 0 THEN nreg ELSE rest
  IN  (nsgs - 1) * nreg + nlst

\* mutant: the last row of a part is taken for the first of the next.
PartsEndEarly(rows, nib, nNodesLimit) ==
  LET read == [i \in 1 .. RowsRead(Len(rows), nib) |-> rows[i]]
      begins == Beginnings(read, LAMBDA r : r.key[1])
      part(g) == GroupBy(SubSeq(read, Max({1, begins[g] - 1}),
                                IF g = Len(begins) THEN Len(read) ELSE EndOf(read, begins, g) - 1))
      made == Joined(part, 1, Len(begins))
  IN  [view |-> made, checksum |-> Checksum(made)]

\* SharedSortAggregate(): every part goes through a tree and is written behind
\* the one before.  Nothing is said of a part that fills the tree: it is merged
\* from chunks, and the job then records the rows of the last part alone, so
\* that later views are read from the middle of others.
SharedSortAggregate(rows, nib, nNodesLimit) ==
  LET read == [i \in 1 .. RowsRead(Len(rows), nib) |-> rows[i]]
      begins == Beginnings(read, LAMBDA r : r.key[1])
      part(g) == GroupBy(SubSeq(read, begins[g], EndOf(read, begins, g)))
      made == Joined(part, 1, Len(begins))
  IN  CASE \A g \in 1 .. Len(begins) : Len(part(g)) < nNodesLimit ->
             [view |-> made, checksum |-> Checksum(made)]
=============================================================================
