------------------------------ MODULE OmpSort ------------------------------
(* The OpenMP version of the IS benchmark (NPB3.4-OMP/IS/is.c): the threads *)
(* of a parallel region count their share of the keys, put them into        *)
(* buckets and rank the keys of one bucket after the other; or, built       *)
(* without USE_BUCKETS, add up what each of them has counted.  Loops over   *)
(* what only one thread uses are one step; an element that is moved to an   *)
(* array of all the threads is a step of its own.  A barrier is a condition *)
(* on the places of the others.                                             *)
EXTENDS IntegerSort

CONSTANTS OmpSeeds,  \* 314159265 in the code
          Teams      \* sizes of the team, the same in all the regions of a run

ASSUME OmpAssumption == OmpSeeds \subseteq 0 .. Half * Half - 1 /\ Teams \subseteq Nat \ {0}

VARIABLES
  seed, team, useBuckets,
  phase,     \* of main(): the region it is in, or what comes before it
  round,     \* calls of rank(); the first one is not verified
  key_array, key_buff1, key_buff2,
  work,      \* bucket_size, or key_buff1_aptr: what every thread has counted
  bucket_ptrs,
  pc, idx,   \* of the threads: where, and the elements it has moved
  next,      \* the bucket that the schedule hands out next
  partial_verify_vals, passed_verification

ovars == <<seed, team, useBuckets, phase, round, key_array, key_buff1, key_buff2, work, bucket_ptrs,
           pc, idx, next, partial_verify_vals, passed_verification>>

input == <<seed, team, useBuckets>>
verifying == <<round, partial_verify_vals, passed_verification>>

Threads == 0 .. team - 1
iteration == IF round = 0 THEN 1 ELSE round

\* All the threads are at one of these places: they have passed the barrier before.
AllAt(places) == \A t \in Threads : pc[t] \in places

\* schedule(static): one piece for every thread, the first ones one longer.
StaticChunk(t, n) ==
  LET q == n \div team
      r == n % team
      first == q * t + Min({t, r})
  IN  first .. first + q - 1 + IF t < r THEN 1 ELSE 0

\* Put one after the other in a work array of the threads.
Zeros(range) == [v \in range |-> 0]

OmpInit ==
  /\ seed \in OmpSeeds /\ team \in Teams /\ useBuckets \in BOOLEAN
  /\ phase = "create" /\ round = 0
  /\ key_array = Zeros(0 .. NUM_KEYS - 1) /\ key_buff2 = Zeros(0 .. NUM_KEYS - 1)
  /\ key_buff1 = Zeros(KeyRange)
  /\ work = [t \in Threads |-> Zeros(IF useBuckets THEN Buckets ELSE KeyRange)]
  /\ bucket_ptrs = [t \in Threads |-> Zeros(Buckets)]
  /\ pc = [t \in Threads |-> "create"] /\ idx = [t \in Threads |-> 0] /\ next = 0
  /\ partial_verify_vals = <<>> /\ passed_verification = 0

-----------------------------------------------------------------------------
\* create_seq(): every thread makes its part of the keys from its own seed.
CreateSeq(t) ==
  /\ phase = "create" /\ pc[t] = "create"
  /\ LET mq == (NUM_KEYS + team - 1) \div team
         mine == mq * t .. Min({mq * (t + 1), NUM_KEYS}) - 1
         keys == create_seq(OmpSeed(t, team, 4 * NUM_KEYS, seed), mq)
     IN  key_array' = [i \in DOMAIN key_array |-> IF i \in mine THEN keys[i - mq * t] ELSE key_array[i]]
  /\ pc' = [pc EXCEPT ![t] = "done"]
  /\ UNCHANGED <<input, phase, verifying, key_buff1, key_buff2, work, bucket_ptrs, idx, next>>

\* rank() up to its parallel region.
StartRank ==
  /\ phase \in {"create", "verified"} /\ AllAt({"done"})
  /\ phase = "verified" => round < MAX_ITERATIONS
  /\ round' = IF phase = "create" THEN 0 ELSE round + 1
  /\ passed_verification' = IF round' = 1 THEN 0 ELSE passed_verification
  /\ key_array' = Altered(key_array, IF round' = 0 THEN 1 ELSE round')
  /\ partial_verify_vals' = [i \in DOMAIN test_index_array |-> key_array'[test_index_array[i]]]
  /\ phase' = "rank" /\ pc' = [t \in Threads |-> "count"] /\ next' = 0
  /\ UNCHANGED <<input, key_buff1, key_buff2, work, bucket_ptrs, idx>>

\* Each thread counts its share of the keys: by buckets, or by their values,
\* and then accumulates.  The first thread then counts in key_buff1.
Count(t) ==
  /\ phase = "rank" /\ pc[t] = "count"
  /\ LET mine == StaticChunk(t, NUM_KEYS)
         inBucket == [b \in Buckets |-> Cardinality({i \in mine : BucketOf(key_array[i]) = b})]
         atMost == [v \in KeyRange |-> Cardinality({i \in mine : key_array[i] <= v})]
     IN  IF useBuckets THEN work' = [work EXCEPT ![t] = inBucket] /\ UNCHANGED key_buff1
         ELSE IF t = 0 THEN key_buff1' = atMost /\ UNCHANGED work
         ELSE work' = [work EXCEPT ![t] = atMost] /\ UNCHANGED key_buff1
  /\ pc' = [pc EXCEPT ![t] = IF useBuckets THEN "ptrs" ELSE "add"]
  /\ UNCHANGED <<input, phase, verifying, key_array, key_buff2, bucket_ptrs, idx, next>>

\* mutant: no barrier before the counts of the others are used.
AddTooEarly(t) ==
  /\ phase = "rank" /\ pc[t] = "add"
  /\ key_buff1' = [v \in KeyRange |->
       IF v \in StaticChunk(t, MAX_KEY)
       THEN key_buff1[v] + SumTo([k \in 0 .. team - 2 |-> work[k + 1][v]], team - 1) ELSE key_buff1[v]]
  /\ pc' = [pc EXCEPT ![t] = "done"]
  /\ UNCHANGED <<input, phase, verifying, key_array, key_buff2, work, bucket_ptrs, idx, next>>

\* Without buckets: after the barrier each thread adds up the counts of all the
\* threads, for its share of the values.
AddUp(t) ==
  /\ phase = "rank" /\ pc[t] = "add" /\ AllAt({"add", "done"})
  /\ key_buff1' = [v \in KeyRange |->
       IF v \in StaticChunk(t, MAX_KEY)
       THEN key_buff1[v] + SumTo([k \in 0 .. team - 2 |-> work[k + 1][v]], team - 1) ELSE key_buff1[v]]
  /\ pc' = [pc EXCEPT ![t] = "done"]
  /\ UNCHANGED <<input, phase, verifying, key_array, key_buff2, work, bucket_ptrs, idx, next>>

\* Keys of smaller buckets, and those of the bucket that earlier threads have.
FirstSlot(t, b) ==
  SumTo([k \in Threads |-> SumTo(work[k], b)], team) + SumTo([k \in Threads |-> work[k][b]], t)

\* After the barrier: where the keys of this thread go.
Pointers(t) ==
  /\ phase = "rank" /\ pc[t] = "ptrs" /\ AllAt({"ptrs", "scatter", "final"})
  /\ bucket_ptrs' = [bucket_ptrs EXCEPT ![t] = [b \in Buckets |-> FirstSlot(t, b)]]
  /\ pc' = [pc EXCEPT ![t] = "scatter"] /\ idx' = [idx EXCEPT ![t] = 0]
  /\ UNCHANGED <<input, phase, verifying, key_array, key_buff1, key_buff2, work, next>>

\* mutant: the keys are dealt in turns, not as they were counted.
SharedInTurns(t) == {i \in 0 .. NUM_KEYS - 1 : i % team = t}

\* The keys a thread moves: the schedule gives it those it has counted.
ToMove(t) == StaticChunk(t, NUM_KEYS)

\* The next key of a thread goes to the next place in its bucket.
Scatter(t) ==
  /\ phase = "rank" /\ pc[t] = "scatter"
  /\ IF idx[t] < Cardinality(ToMove(t))
     THEN LET i == CHOOSE i \in ToMove(t) : Cardinality({j \in ToMove(t) : j < i}) = idx[t]
              b == BucketOf(key_array[i])
          IN  /\ key_buff2' = [key_buff2 EXCEPT ![bucket_ptrs[t][b]] = key_array[i]]
              /\ bucket_ptrs' = [bucket_ptrs EXCEPT ![t][b] = @ + 1]
              /\ idx' = [idx EXCEPT ![t] = @ + 1] /\ pc' = pc
     ELSE pc' = [pc EXCEPT ![t] = "final"] /\ UNCHANGED <<key_buff2, bucket_ptrs, idx>>
  /\ UNCHANGED <<input, phase, verifying, key_array, key_buff1, work, next>>

\* After the barrier: the pointers of every thread get to the ends of the buckets.
FinalSizes(t) ==
  /\ phase = "rank" /\ pc[t] = "final" /\ AllAt({"final", "rank", "done"})
  /\ bucket_ptrs' = [bucket_ptrs EXCEPT ![t] = [b \in Buckets |->
       bucket_ptrs[t][b] + SumTo([k \in 0 .. team - 2 - t |-> work[t + 1 + k][b]], team - 1 - t)]]
  /\ pc' = [pc EXCEPT ![t] = "rank"]
  /\ UNCHANGED <<input, phase, verifying, key_array, key_buff1, key_buff2, work, idx, next>>

\* The places of a bucket in key_buff2.
Slots(t, b) == (IF b = 0 THEN 0 ELSE bucket_ptrs[t][b - 1]) .. bucket_ptrs[t][b] - 1

\* The schedule hands out the buckets to the threads that ask: the keys of a
\* bucket are counted, and the keys of lesser buckets added.
RankBucket(t) ==
  /\ phase = "rank" /\ pc[t] = "rank"
  /\ IF next = NUM_BUCKETS THEN pc' = [pc EXCEPT ![t] = "done"] /\ UNCHANGED <<key_buff1, next>>
     ELSE LET slots == Slots(t, next)
              before == IF next = 0 THEN 0 ELSE bucket_ptrs[t][next - 1]
          IN  /\ key_buff1' = [v \in KeyRange |->
                   IF v \in KeysOf(next)
                   THEN before + Cardinality({k \in slots : key_buff2[k] <= v}) ELSE key_buff1[v]]
              /\ next' = next + 1 /\ pc' = pc
  /\ UNCHANGED <<input, phase, verifying, key_array, key_buff2, work, bucket_ptrs, idx>>

-----------------------------------------------------------------------------
\* The partial verification, after the region.
PartialVerify ==
  /\ phase = "rank" /\ AllAt({"done"})
  /\ LET right == {i \in DOMAIN partial_verify_vals :
                     LET k == partial_verify_vals[i] IN
                     0 < k /\ k <= NUM_KEYS - 1 /\ key_buff1[k - 1] = TableRank(seed, round, i)}
     IN  passed_verification' = passed_verification + Cardinality(right)
  /\ phase' = "verified"
  /\ UNCHANGED <<input, round, key_array, key_buff1, key_buff2, work, bucket_ptrs, pc, idx, next,
                 partial_verify_vals>>

\* full_verify() begins when all the iterations are done.
StartSort ==
  /\ phase = "verified" /\ round = MAX_ITERATIONS
  /\ phase' = "sort" /\ pc' = [t \in Threads |-> IF useBuckets THEN "sort" ELSE "copy"] /\ next' = 0
  /\ UNCHANGED <<input, verifying, key_array, key_buff1, key_buff2, work, bucket_ptrs, idx>>

\* Keys at some places of key_buff2 go to the places their ranks tell, which
\* count down: keys of one value take the places below its rank.
Sorted(slots) ==
  LET many(v) == Cardinality({i \in slots : key_buff2[i] = v})
      places(v) == key_buff1[v] - many(v) .. key_buff1[v] - 1
  IN  [ranks |-> [v \in KeyRange |-> key_buff1[v] - many(v)],
       keys |-> [k \in DOMAIN key_array |-> IF \E v \in KeyRange : k \in places(v)
                                           THEN CHOOSE v \in KeyRange : k \in places(v)
                                           ELSE key_array[k]]]

\* A bucket is sorted by the pointers the thread has kept from the region before.
SortBucket(t) ==
  /\ phase = "sort" /\ useBuckets /\ pc[t] = "sort"
  /\ IF next = NUM_BUCKETS THEN pc' = [pc EXCEPT ![t] = "done"] /\ UNCHANGED <<key_array, key_buff1, next>>
     ELSE /\ key_array' = Sorted(Slots(t, next)).keys
          /\ key_buff1' = Sorted(Slots(t, next)).ranks
          /\ next' = next + 1 /\ pc' = pc
  /\ UNCHANGED <<input, phase, verifying, key_buff2, work, bucket_ptrs, idx>>

\* Without buckets: the threads copy their shares of the keys.
CopyKeys(t) ==
  /\ phase = "sort" /\ pc[t] = "copy"
  /\ key_buff2' = [i \in DOMAIN key_buff2 |->
       IF i \in StaticChunk(t, NUM_KEYS) THEN key_array[i] ELSE key_buff2[i]]
  /\ pc' = [pc EXCEPT ![t] = "sort"]
  /\ UNCHANGED <<input, phase, verifying, key_array, key_buff1, work, bucket_ptrs, idx, next>>

\* After the barrier: each thread sorts the keys of its part of the values.
SortValues(t) ==
  /\ phase = "sort" /\ ~useBuckets /\ pc[t] = "sort" /\ AllAt({"sort", "done"})
  /\ LET share == (MAX_KEY + team - 1) \div team
         slots == {i \in DOMAIN key_buff2 : key_buff2[i] \in share * t .. share * (t + 1) - 1}
     IN  key_array' = Sorted(slots).keys /\ key_buff1' = Sorted(slots).ranks
  /\ pc' = [pc EXCEPT ![t] = "done"]
  /\ UNCHANGED <<input, phase, verifying, key_buff2, work, bucket_ptrs, idx, next>>

\* The keys out of sort are counted, and main() prints the result.
ReportSorted ==
  /\ phase = "sort" /\ AllAt({"done"})
  /\ LET ordered == \A i \in 1 .. NUM_KEYS - 1 : key_array[i - 1] <= key_array[i]
         passed == passed_verification + IF ordered THEN 1 ELSE 0
         all == Len(test_index_array) * MAX_ITERATIONS + 1
     IN  passed_verification' = IF passed = all THEN passed ELSE 0
  /\ phase' = "end"
  /\ UNCHANGED <<input, round, key_array, key_buff1, key_buff2, work, bucket_ptrs, pc, idx, next,
                 partial_verify_vals>>

OmpExit == phase = "end" /\ UNCHANGED ovars

OmpNext ==
  \/ \E t \in Threads :
       \/ CreateSeq(t) \/ Count(t) \/ AddUp(t) \/ Pointers(t) \/ Scatter(t) \/ FinalSizes(t)
       \/ RankBucket(t) \/ SortBucket(t) \/ CopyKeys(t) \/ SortValues(t)
  \/ StartRank \/ PartialVerify \/ StartSort \/ ReportSorted \/ OmpExit

OmpSpec == OmpInit /\ [][OmpNext]_ovars

-----------------------------------------------------------------------------
\* While threads move keys into the buckets, no place is for keys of two
\* threads, and none is outside the bucket.
SlotsAreOwn ==
  LET left(t) == {i \in ToMove(t) : Cardinality({j \in ToMove(t) : j < i}) >= idx[t]}
      moving == {t \in Threads : pc[t] = "scatter"}
      places(t) == UNION {LET n == Cardinality({i \in left(t) : BucketOf(key_array[i]) = b})
                          IN  bucket_ptrs[t][b] .. bucket_ptrs[t][b] + n - 1 : b \in Buckets}
  IN  phase = "rank" =>
        /\ \A t \in moving : places(t) \subseteq DOMAIN key_buff2
        /\ Cardinality(UNION {places(t) : t \in moving}) = Cardinality(UNION {left(t) : t \in moving})

\* After every call of rank(), in either version and by any team, the entry of
\* a value is the number of keys that are not above it.
RanksAreCounts ==
  phase = "verified" => \A v \in KeyRange : key_buff1[v] = RankOf(key_array, v)

\* No two threads share a place, every call of rank() counts right, and the
\* result is the keys of the last iteration, whatever the team, sorted, none
\* lost or doubled; and the run verifies exactly if every test key was in the
\* range that is tested.
SortsTheKeys ==
  /\ SlotsAreOwn
  /\ RanksAreCounts
  /\ phase = "end" =>
       /\ \A i \in 1 .. NUM_KEYS - 1 : key_array[i - 1] <= key_array[i]
       /\ \A v \in KeyRange : CountIn(key_array, v) = CountIn(KeysAt(seed, MAX_ITERATIONS), v)
       /\ passed_verification # 0 <=>
            \A r \in 1 .. MAX_ITERATIONS, i \in DOMAIN test_index_array :
              KeysAt(seed, r)[test_index_array[i]] \in 1 .. NUM_KEYS - 1
=============================================================================
