-------------------------------- MODULE Adc --------------------------------
(* The data set of the DC benchmark (NPB3.4-OMP/DC/adc.c): the tuples, of   *)
(* which attribute i runs through powers of a generator modulo a prime, and *)
(* the sizes of the views, computed from the periods of the attributes      *)
(* without looking at the tuples.                                           *)
(* A view is the set of its attributes, which are numbered from 1.          *)
EXTENDS Views, Heaps

\* The first fifteen primes of the code and their generators; the attributes
\* of classes W and A have other exponents, those of class B need all twenty.
adcprime == <<421, 601, 631, 701, 883, 419, 443, 647, 21737, 31769,
              1427, 18353, 22817, 34337, 98717>>
adcgen == <<2, 7, 3, 2, 2, 2, 2, 5, 31, 7, 2, 3, 3, 3, 2>>
adcexp == <<11, 13, 17, 19, 23, 23, 29, 31, 37, 41, 41, 43, 47, 53, 59>>
adcexpS == <<11, 13, 17, 19, 23>>
adcexpW == <<4, 40, 6, 20, 42, 23, 29, 31, 4, 152>>
Exponents(clss) == CASE clss = "S" -> adcexpS [] clss = "W" -> adcexpW [] OTHER -> adcexp

maxprmfctr == 59
\* 0x4FFFFFFFFFFFFFFF in the code.
LARGE_NUM == 2 ^ 30

-----------------------------------------------------------------------------
\* ListFirstPrimes()
listed[n \in Nat] ==
  IF n < 8 THEN n \in {2, 3, 5, 7}
  ELSE \A p \in 2 .. n - 1 : (p * p <= n /\ listed[p]) => n % p # 0

\* The places for factors: one for every bit of the number.
Bits(n) == CHOOSE b \in 0 .. 20 : 2 ^ b > n /\ (b = 0 \/ 2 ^ (b - 1) <= n)

Factor(m, x) == [mlt |-> m, exp |-> x]
Padded(factors, len) == factors \o [i \in 1 .. len - Len(factors) |-> Factor(1, 0)]

\* mutant: a divisor that is there already is not counted again.
ExponentsStay(nmb, firstdiv, divfct) ==
  LET others == SelectSeq(divfct, LAMBDA f : f.mlt # 1 /\ f.mlt # firstdiv)
  IN  Padded(<<Factor(firstdiv, 1)>> \o others, Bits(nmb))

\* ExtendFactors(): the factors of a number from those of its quotient by its
\* first divisor.
ExtendFactors(nmb, firstdiv, divfct) ==
  LET smaller == SelectSeq(divfct, LAMBDA f : f.mlt # 1 /\ f.mlt < firstdiv)
      same == SelectSeq(divfct, LAMBDA f : f.mlt = firstdiv)
      larger == SelectSeq(divfct, LAMBDA f : f.mlt > firstdiv)
      extended == Factor(firstdiv, IF same = <<>> THEN 1 ELSE same[1].exp + 1)
  IN  Padded(smaller \o <<extended>> \o larger, Bits(nmb))

\* GetFactorization(): the entry of n in the list.
fctlist[n \in Nat] ==
  LET divisors == {p \in 2 .. n : p * p <= n /\ n % p = 0 /\ listed[p]}
      firstdiv == Min(divisors)
  IN  IF divisors = {} THEN Padded(<<Factor(n, 1)>>, Bits(n))
      ELSE IF firstdiv * firstdiv = n THEN Padded(<<Factor(firstdiv, 2)>>, Bits(n))
      ELSE ExtendFactors(n, firstdiv, fctlist[n \div firstdiv])

ExponentIn(n, f) ==
  LET of == SelectSeq(fctlist[n], LAMBDA g : g.mlt = f) IN IF of = <<>> THEN 0 ELSE of[1].exp

\* expons[f] of GetLCM(): attribute i has the period of the prime, without the
\* factors it shares with the exponent of its generator.
Expons(view, f, adcexpons) ==
  Max({0} \cup {ExponentIn(adcprime[i] - 1, f) - ExponentIn(adcexpons[i], f) : i \in view})

\* GetLCM(): the product, cut off before it can overflow.
GetLCM(view, adcexpons) ==
  LET limit == LARGE_NUM \div maxprmfctr
      times[l \in Nat, f \in Nat, e \in Nat] == IF e = 0 \/ l > limit THEN l ELSE times[l * f, f, e - 1]
      from[l \in Nat, f \in Nat] ==
        IF f > maxprmfctr THEN l ELSE from[times[l, f, Expons(view, f, adcexpons)], f + 1]
  IN  from[1, 2]

\* The attributes of view number idx.
AttributesOf(idx, dim) == {j \in 1 .. dim : (idx \div Bit[j - 1]) % 2 = 1}

\* Only one view of vinc is computed.
ViewStep(clss) == CASE clss = "U" -> 8 [] clss = "A" -> 64 [] clss = "B" -> 16384 [] OTHER -> 1

\* CalculateVeiwSizes(): the views to compute and their sizes, the smaller
\* ones first, and of those of a size the one with the lower number; entry 0 of
\* dcview is no view.  In this order no two are equal: any sort gives what
\* qsort() gives.
CalculateVeiwSizes(par) ==
  LET size(idx) == Min({GetLCM(AttributesOf(idx, par.dim), Exponents(par.clss)), par.tuplenum})
      view(idx, vsize) == [vsize |-> vsize, vidx |-> idx, order |-> vsize * Bit[par.dim] + idx]
      views == [idx \in 1 .. Bit[par.dim] - 1 |-> view(idx, size(idx))]
      dcview == HeapSort(SubSeq(views, 1, Len(views)), "order")
      step == ViewStep(par.clss)
  IN  [n \in 1 .. (Bit[par.dim] - 2) \div step + 1 |->
         LET v == dcview[(n - 1) * step + 1]
         IN  [sel |-> AttributesOf(v.vidx, par.dim), size |-> v.vsize]]

-----------------------------------------------------------------------------
\* adcgen[i] raised to its exponent, by the first call of GetNextTuple().
Generator(i, clss) ==
  LET power[k \in Nat] ==
        IF k = 1 THEN adcgen[i] ELSE (power[k - 1] * adcgen[i]) % adcprime[i]
  IN  power[Exponents(clss)[i]]

Generators(par) == [i \in 1 .. par.dim |-> Generator(i, par.clss)]

FirstSeed(par) == [i \in 1 .. par.dim |-> (adcprime[i] + 1) \div 2]

\* GetNextTuple(): the next seeds, which are the attributes.
NextSeed(seed, gen) == [i \in 1 .. Len(seed) |-> (seed[i] * gen[i]) % adcprime[i]]

\* A tuple with its one measure.
Tuple(seed) ==
  [key |-> seed, sum |-> (seed[1] * Max({seed[i] : i \in 1 .. Len(seed)})) % measbound]
=============================================================================
