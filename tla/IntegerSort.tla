---------------------------- MODULE IntegerSort ----------------------------
(* What the two versions of the IS benchmark share (NPB3.4-OMP/IS/is.c and  *)
(* NPB3.4-MPI/IS/is.c): the random numbers, the keys made of them, and what *)
(* the ranks of the keys are.  The real sizes come with the class; the      *)
(* numbers have 46 bits and are multiplied in halves of 23.                 *)
EXTENDS Integers, Sequences, FiniteSets, FiniteSetsExt, SequencesExt

CONSTANTS TOTAL_KEYS_LOG_2, MAX_KEY_LOG_2, NUM_BUCKETS_LOG_2, MAX_ITERATIONS,
          HalfBits,         \* 23 in the code
          multiplier,       \* 1220703125 in the code
          test_index_array  \* where the keys are whose ranks are verified

\* 1 << n
Power2[n \in Nat] == IF n = 0 THEN 1 ELSE 2 * Power2[n - 1]

NUM_KEYS == Power2[TOTAL_KEYS_LOG_2]
MAX_KEY == Power2[MAX_KEY_LOG_2]
NUM_BUCKETS == Power2[NUM_BUCKETS_LOG_2]
KeyRange == 0 .. MAX_KEY - 1
Buckets == 0 .. NUM_BUCKETS - 1
num_bucket_keys == Power2[MAX_KEY_LOG_2 - NUM_BUCKETS_LOG_2]
Half == Power2[HalfBits]

ASSUME SizesAssumption ==
  /\ TOTAL_KEYS_LOG_2 \in Nat /\ HalfBits \in Nat /\ MAX_ITERATIONS \in Nat \ {0}
  /\ MAX_KEY_LOG_2 \in Nat /\ MAX_KEY_LOG_2 >= 2 /\ NUM_BUCKETS_LOG_2 \in 0 .. MAX_KEY_LOG_2
  /\ NUM_KEYS > 2 * MAX_ITERATIONS /\ MAX_KEY > MAX_ITERATIONS
  /\ multiplier \in 0 .. Half * Half - 1
  /\ test_index_array \in Seq(0 .. NUM_KEYS - 1)

\* The bucket of a key: key >> shift.
BucketOf(key) == key \div num_bucket_keys
KeysOf(b) == b * num_bucket_keys .. (b + 1) * num_bucket_keys - 1

-----------------------------------------------------------------------------
\* mutant: the carry of the middle product is kept.
CarryKept(x, a) ==
  LET T == Half
  IN  ((a \div T) * (x % T) + (a % T) * (x \div T) + (a % T) * (x % T)) % (T * T)

\* randlc(): the product of two numbers, modulo 2^46, in halves that doubles
\* can multiply.
randlc(x, a) ==
  LET T == Half
      Z == ((a \div T) * (x % T) + (a % T) * (x \div T)) % T
  IN  (T * Z + (a % T) * (x % T)) % (T * T)

\* n keys, each MAX_KEY / 4 times the sum of four numbers (of 0 to 1), where
\* `after' tells the number after a number.
KeysFrom(after(_), seed, n) ==
  LET numbers[i \in 0 .. n] ==
        IF i = 0 THEN <<seed, seed, seed, seed>>
        ELSE LET a == after(numbers[i - 1][4])  b == after(a)  c == after(b) IN <<a, b, c, after(c)>>
      key(x) == ((MAX_KEY \div 4) * (x[1] + x[2] + x[3] + x[4])) \div (Half * Half)
  IN  [i \in 0 .. n - 1 |-> key(numbers[i + 1])]

create_seq(seed, n) == KeysFrom(LAMBDA x : randlc(x, multiplier), seed, n)

\* What the keys are to be, whoever makes them.
TheKeys(seed) == KeysFrom(LAMBDA x : (x * multiplier) % (Half * Half), seed, NUM_KEYS)

\* find_my_seed() of the OpenMP version: the seed of thread kn of np, by
\* squaring; the quarter of nn is rounded up for each of them.
OmpSeed(kn, np, nn, s) ==
  LET mq == (nn \div 4 + np - 1) \div np
      jump[at \in [kk : Nat, t1 : Nat, t2 : Nat]] ==
        IF at.kk <= 1 THEN randlc(at.t1, at.t2)
        ELSE IF at.kk % 2 = 0
          THEN jump[[kk |-> at.kk \div 2, t1 |-> at.t1, t2 |-> randlc(at.t2, at.t2)]]
        ELSE jump[[kk |-> at.kk - 1, t1 |-> randlc(at.t1, at.t2), t2 |-> at.t2]]
  IN  IF kn = 0 THEN s ELSE jump[[kk |-> mq * 4 * kn, t1 |-> s, t2 |-> multiplier]]

\* find_my_seed() of the MPI version: the multiplier is squared until it skips
\* a process, as many times as 2 goes into nn / np.
MpiSeed(kn, np, nn, s) ==
  LET log2[nq \in Nat] == IF nq > 1 THEN 1 + log2[nq \div 2] ELSE 0
      squared[i \in Nat] == IF i = 0 THEN multiplier ELSE randlc(squared[i - 1], squared[i - 1])
      jump[at \in [kk : Nat, t1 : Nat, t2 : Nat]] ==
        LET t == IF at.kk % 2 = 1 THEN randlc(at.t1, at.t2) ELSE at.t1
        IN  IF at.kk \div 2 = 0 THEN t ELSE jump[[kk |-> at.kk \div 2, t1 |-> t, t2 |-> randlc(at.t2, at.t2)]]
  IN  jump[[kk |-> kn, t1 |-> s, t2 |-> squared[log2[nn \div np]]]]

-----------------------------------------------------------------------------
\* The first n entries of an array that begins with f[0], added up in a loop.
SumTo(f, n) == LET sum[i \in 0 .. n] == IF i = 0 THEN 0 ELSE sum[i - 1] + f[i - 1] IN sum[n]

\* How many of the keys (a function) are at most v: the rank of v + 1.
RankOf(keys, v) == Cardinality({i \in DOMAIN keys : keys[i] <= v})

CountIn(keys, v) == Cardinality({i \in DOMAIN keys : keys[i] = v})

\* The keys that rank() changes in every iteration.
Altered(keys, iteration) ==
  [keys EXCEPT ![iteration] = iteration, ![iteration + MAX_ITERATIONS] = MAX_KEY - iteration]

\* The keys in call `round' of rank(): call 0 is for iteration 1 too.
KeysAt(seed, round) ==
  LET keys[r \in Nat] == IF r = 0 THEN Altered(TheKeys(seed), 1) ELSE Altered(keys[r - 1], r)
  IN  keys[round]

\* test_rank_array and its shift: the rank that test key i is to have.
TableRank(seed, round, i) ==
  LET keys == KeysAt(seed, round) IN RankOf(keys, keys[test_index_array[i]] - 1)
=============================================================================
