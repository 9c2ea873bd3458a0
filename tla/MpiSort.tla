------------------------------ MODULE MpiSort ------------------------------
(* The MPI version of the IS benchmark (NPB3.4-MPI/IS/is.c): each process   *)
(* has a part of the keys, the buckets of all of them are divided among the *)
(* processes, and each ranks the keys of its buckets.  What a process does  *)
(* between two collective operations is one step of it; a collective        *)
(* operation is one step of them all, taken when each has come to it.       *)
EXTENDS IntegerSort

CONSTANTS MpiSeeds,  \* 314159265 in the code
          Started    \* numbers of processes the program is started with

ASSUME MpiAssumption ==
  /\ MpiSeeds \subseteq 0 .. Half * Half - 1
  /\ \A n \in Started : n \in Nat \ {0} /\ 2 * MAX_ITERATIONS * n < NUM_KEYS

VARIABLES
  first_number,        \* the seed all the keys come from
  comm_size,           \* processes that take part
  stage, iterations,   \* of every process: where it is, calls of rank()
  key_arrays, send_buff, recv_buff, ranks,   \* key_array, key_buff1, key_buff2, key_buff1 again
  bucket_sizes,        \* of every process: keys in every bucket and, above, the test keys it has
  bucket_size_totals,
  last_keys,           \* messages of full_verify(), by their receivers
  passed, verified     \* passed_verification, and what the first process prints

mvars == <<first_number, comm_size, stage, iterations, key_arrays, send_buff, recv_buff, ranks,
           bucket_sizes, bucket_size_totals, last_keys, passed, verified>>

world == <<first_number, comm_size>>
result == <<passed, verified>>

Processes == 0 .. comm_size - 1
num_keys == NUM_KEYS \div comm_size

\* mutant: room for the average only.
NoSlack == num_keys

size_of_buffers ==
  CASE comm_size < 256 -> (3 * num_keys) \div 2
    [] comm_size \in 256 .. 511 -> (5 * num_keys) \div 2
    [] comm_size \in 512 .. 1023 -> 4 * num_keys
    [] OTHER -> (13 * num_keys) \div 2

Tests == NUM_BUCKETS .. NUM_BUCKETS + Len(test_index_array) - 1
TestPlace(t) == test_index_array[t - NUM_BUCKETS + 1]

Everyone(place) == \A p \in Processes : stage[p] = place

LargestPower(n) == CHOOSE c \in {Power2[k] : k \in 0 .. n} : c <= n /\ n < 2 * c

\* main(): a number of processes that is no power of two is an error under
\* NPB_NPROCS_STRICT; else the processes in excess leave at once.
MpiInit ==
  /\ first_number \in MpiSeeds
  /\ \E np_total \in Started, strict \in BOOLEAN :
       /\ comm_size = LargestPower(np_total)
       /\ stage = [p \in 0 .. np_total - 1 |->
            IF comm_size # np_total /\ strict THEN "aborted"
            ELSE IF p >= comm_size THEN "exited" ELSE "create"]
  /\ iterations = [p \in Processes |-> 0]
  /\ key_arrays = [p \in Processes |-> <<>>] /\ send_buff = [p \in Processes |-> <<>>]
  /\ recv_buff = [p \in Processes |-> <<>>] /\ ranks = [p \in Processes |-> <<>>]
  /\ bucket_sizes = [p \in Processes |-> <<>>] /\ bucket_size_totals = <<>> /\ last_keys = <<>>
  /\ passed = [p \in Processes |-> 0] /\ verified = "unknown"

-----------------------------------------------------------------------------
\* create_seq(), from the seed of the process.
MakeKeys(p) ==
  /\ stage[p] = "create"
  /\ key_arrays' = [key_arrays EXCEPT ![p] =
       create_seq(MpiSeed(p, comm_size, 4 * NUM_KEYS, first_number), num_keys)]
  /\ stage' = [stage EXCEPT ![p] = "rank"]
  /\ UNCHANGED <<world, iterations, send_buff, recv_buff, ranks, bucket_sizes, bucket_size_totals, last_keys, result>>

\* Where key i goes: what bucket_ptrs has for its bucket when it is moved.
SlotOf(keys, i) ==
  Cardinality({j \in DOMAIN keys : \/ BucketOf(keys[j]) < BucketOf(keys[i])
                                   \/ BucketOf(keys[j]) = BucketOf(keys[i]) /\ j < i})

ByBucket(keys) == [k \in DOMAIN keys |-> keys[CHOOSE i \in DOMAIN keys : SlotOf(keys, i) = k]]

\* rank() up to the sum of the bucket sizes: only the first process changes its keys.
FillBuckets(p) ==
  /\ stage[p] = "rank"
  /\ LET r == iterations[p]
         keys == IF p = 0 THEN Altered(key_arrays[p], IF r = 0 THEN 1 ELSE r) ELSE key_arrays[p]
     IN  /\ key_arrays' = [key_arrays EXCEPT ![p] = keys]
         /\ send_buff' = [send_buff EXCEPT ![p] = ByBucket(keys)]
         /\ bucket_sizes' = [bucket_sizes EXCEPT ![p] = [b \in Buckets \cup Tests |->
              IF b \in Buckets THEN Cardinality({k \in DOMAIN keys : BucketOf(keys[k]) = b})
              ELSE IF TestPlace(b) \div num_keys = p THEN keys[TestPlace(b) % num_keys] ELSE 0]]
         /\ passed' = [passed EXCEPT ![p] = IF r = 1 THEN 0 ELSE @]
  /\ stage' = [stage EXCEPT ![p] = "reduce"]
  /\ UNCHANGED <<world, iterations, recv_buff, ranks, bucket_size_totals, last_keys, verified>>

\* MPI_Allreduce.
SumSizes ==
  /\ Everyone("reduce")
  /\ bucket_size_totals' = [b \in Buckets \cup Tests |-> SumTo([p \in Processes |-> bucket_sizes[p][b]], comm_size)]
  /\ stage' = [p \in DOMAIN stage |-> IF p \in Processes THEN "divide" ELSE stage[p]]
  /\ UNCHANGED <<world, iterations, key_arrays, send_buff, recv_buff, ranks, bucket_sizes, last_keys, result>>

\* mutant: a process has enough only when its keys are more than its share.
MoreThanShare ==
  LET j[b \in 0 .. NUM_BUCKETS] ==
        IF b = 0 THEN 0
        ELSE LET had == j[b - 1]
             IN  IF SumTo(bucket_size_totals, b) > (had + 1) * num_keys THEN had + 1 ELSE had
  IN  j

\* How many processes have their buckets when so many buckets are looked at: the
\* next one has them when the sum reaches its share and that of the ones before.
Served ==
  LET j[b \in 0 .. NUM_BUCKETS] ==
        IF b = 0 THEN 0
        ELSE LET had == j[b - 1]
             IN  IF SumTo(bucket_size_totals, b) >= (had + 1) * num_keys THEN had + 1 ELSE had
  IN  j

\* process_bucket_distrib_ptr1 and 2: the last processes may get no buckets, and
\* the last buckets no process.
Distribution ==
  LET j == Served IN [p \in Processes |-> {b \in Buckets : j[b] = p /\ p < j[NUM_BUCKETS]}]

\* The values in the buckets of a process: min_key_val to max_key_val.
Interval(p) == LET mine == Distribution[p] IN {v \in KeyRange : BucketOf(v) \in mine}

\* Keys in some of the buckets.
KeysIn(sizes, buckets) == SumTo([b \in Buckets |-> IF b \in buckets THEN sizes[b] ELSE 0], NUM_BUCKETS)

\* Keys from p to q, and where they are in the buffers of both.
send_count(p, q) == KeysIn(bucket_sizes[p], Distribution[q])
send_displ(p, q) == SumTo([r \in Processes |-> send_count(p, r)], q)
recv_displ(q, p) == SumTo([r \in Processes |-> send_count(r, q)], p)

Received(q) ==
  [k \in 0 .. recv_displ(q, comm_size) - 1 |->
     LET p == CHOOSE r \in Processes : recv_displ(q, r) <= k /\ k < recv_displ(q, r + 1)
     IN  send_buff[p][send_displ(p, q) + k - recv_displ(q, p)]]

\* Neither the keys of a process nor the entries of its values may be more than
\* its buffers have room for; behind them, anything may happen.
Fits(p) == recv_displ(p, comm_size) <= size_of_buffers /\ Cardinality(Interval(p)) <= size_of_buffers

\* MPI_Alltoall and MPI_Alltoallv.
Exchange ==
  /\ Everyone("divide")
  /\ recv_buff' = [p \in Processes |-> Received(p)]
  /\ stage' = [p \in DOMAIN stage |->
       IF p \notin Processes THEN stage[p] ELSE IF \E q \in Processes : ~Fits(q) THEN "undefined" ELSE "exchanged"]
  /\ UNCHANGED <<world, iterations, key_arrays, send_buff, ranks, bucket_sizes, bucket_size_totals, last_keys, result>>

\* j at the end of rank(), and full_verify().
total_local_keys(p) == KeysIn(bucket_size_totals, Distribution[p])

\* mutant: a process's own keys are counted as lesser ones.
LesserAndOwn(p) == SumTo([q \in Processes |-> total_local_keys(q)], p + 1)

\* Keys of the processes before: m.
Lesser(p) == SumTo([q \in Processes |-> total_local_keys(q)], p)

\* The rest of rank(): the keys that came are counted, m apart, and the test
\* keys in the interval are verified.  The entry below the first one is not of
\* the array: what is found for a test key there may be right or wrong.
RankKeys(p) ==
  /\ stage[p] = "exchanged"
  /\ LET local == 0 .. total_local_keys(p) - 1
         entries == [v \in Interval(p) |-> Cardinality({i \in local : recv_buff[p][i] <= v})]
         round == iterations[p]
         mine == {t \in Tests : bucket_size_totals[t] \in Interval(p)}
         lowest == {t \in mine : bucket_size_totals[t] = Min(Interval(p))}
         right == {t \in mine \ lowest : entries[bucket_size_totals[t] - 1] + Lesser(p)
                                        = TableRank(first_number, round, t - NUM_BUCKETS + 1)}
     IN  /\ ranks' = [ranks EXCEPT ![p] = entries]
         /\ \E lucky \in SUBSET lowest : passed' = [passed EXCEPT ![p] = @ + Cardinality(right \cup lucky)]
         /\ stage' = [stage EXCEPT ![p] = IF round < MAX_ITERATIONS THEN "rank" ELSE "sort"]
         /\ iterations' = [iterations EXCEPT ![p] = IF round < MAX_ITERATIONS THEN round + 1 ELSE round]
  /\ UNCHANGED <<world, key_arrays, send_buff, recv_buff, bucket_sizes, bucket_size_totals, last_keys, verified>>

-----------------------------------------------------------------------------
\* full_verify() up to the message: the keys go to the places their ranks tell;
\* a process without keys sends the one its array began with.
SortAndSend(p) ==
  /\ stage[p] = "sort"
  /\ LET n == total_local_keys(p)
         many(v) == Cardinality({i \in 0 .. n - 1 : recv_buff[p][i] = v})
         places(v) == ranks[p][v] - many(v) .. ranks[p][v] - 1
         sorted == [i \in DOMAIN key_arrays[p] \cup 0 .. n - 1 |->
                      IF \E v \in Interval(p) : i \in places(v) THEN CHOOSE v \in Interval(p) : i \in places(v)
                      ELSE key_arrays[p][i]]
     IN  /\ key_arrays' = [key_arrays EXCEPT ![p] = sorted]
         /\ last_keys' = IF p = comm_size - 1 THEN last_keys
                         ELSE [q \in DOMAIN last_keys \cup {p + 1} |->
                                IF q = p + 1 THEN sorted[IF n = 0 THEN 0 ELSE n - 1] ELSE last_keys[q]]
  /\ stage' = [stage EXCEPT ![p] = "wait"]
  /\ UNCHANGED <<world, iterations, send_buff, recv_buff, ranks, bucket_sizes, bucket_size_totals, result>>

\* After MPI_Wait: the keys out of sort are counted.
CheckOrder(p) ==
  /\ stage[p] = "wait" /\ (p > 0 => p \in DOMAIN last_keys)
  /\ LET n == total_local_keys(p)
         keys == key_arrays[p]
         wrong == (p > 0 /\ n > 0 /\ last_keys[p] > keys[0]) \/ \E i \in 1 .. n - 1 : keys[i - 1] > keys[i]
     IN  passed' = [passed EXCEPT ![p] = IF wrong THEN @ ELSE @ + 1]
  /\ stage' = [stage EXCEPT ![p] = "checked"]
  /\ UNCHANGED <<world, iterations, key_arrays, send_buff, recv_buff, ranks, bucket_sizes, bucket_size_totals,
                 last_keys, verified>>

\* MPI_Reduce, and the result that the first process prints.
PrintResult ==
  /\ Everyone("checked")
  /\ verified' = IF SumTo(passed, comm_size) = Len(test_index_array) * MAX_ITERATIONS + comm_size THEN "yes" ELSE "no"
  /\ stage' = [p \in DOMAIN stage |-> "exited"]
  /\ UNCHANGED <<world, iterations, key_arrays, send_buff, recv_buff, ranks, bucket_sizes, bucket_size_totals,
                 last_keys, passed>>

MpiExit ==
  /\ \A p \in DOMAIN stage : stage[p] \in {"exited", "aborted", "undefined"}
  /\ UNCHANGED mvars

MpiNext ==
  \/ \E p \in Processes : MakeKeys(p) \/ FillBuckets(p) \/ RankKeys(p) \/ SortAndSend(p) \/ CheckOrder(p)
  \/ SumSizes \/ Exchange \/ PrintResult \/ MpiExit

MpiSpec == MpiInit /\ [][MpiNext]_mvars

-----------------------------------------------------------------------------
\* What a process has and what the ones before have is, together, the number of
\* keys of all processes that are not above a value: each value has one process,
\* and each key arrives there.
RanksCountAll ==
  \A p \in Processes : stage[p] \in {"rank", "sort"} /\ iterations[p] > 0 =>
    LET m == Lesser(p)
        keys == KeysAt(first_number, IF stage[p] = "sort" THEN MAX_ITERATIONS ELSE iterations[p] - 1)
    IN  \A v \in DOMAIN ranks[p] : ranks[p][v] + m = RankOf(keys, v)

\* When no bucket has more than half of a process's share of the keys, what a
\* process receives has room in its buffer.
BuffersSuffice ==
  Everyone("divide") /\ (\A b \in Buckets : 2 * bucket_size_totals[b] <= num_keys) =>
    \A p \in Processes : recv_displ(p, comm_size) <= size_of_buffers

\* A test key is the first of a bucket, maybe of an interval: then its
\* verification says nothing.
LowestTested ==
  \E r \in 1 .. MAX_ITERATIONS, t \in DOMAIN test_index_array :
    KeysAt(first_number, r)[test_index_array[t]] % num_bucket_keys = 0

\* A process without keys is before one that has some, and sends it any key.
IdleBetween == \E p, q \in Processes : p < q /\ total_local_keys(p) = 0 /\ total_local_keys(q) > 0

\* Every process counts the keys right and has room for them; in the end the
\* processes' keys one after the other are all the keys of the last iteration,
\* sorted, whatever the number of processes; and the run verifies when no test
\* key can be the first of an interval and no process between is without keys.
SortsEverywhere ==
  /\ RanksCountAll
  /\ BuffersSuffice
  /\ verified # "unknown" =>
       /\ \A p, q \in Processes : \A i \in 0 .. total_local_keys(p) - 1, j \in 0 .. total_local_keys(q) - 1 :
            p < q \/ (p = q /\ i <= j) => key_arrays[p][i] <= key_arrays[q][j]
       /\ \A v \in KeyRange :
            SumTo([p \in Processes |-> Cardinality({i \in 0 .. total_local_keys(p) - 1 : key_arrays[p][i] = v})], comm_size)
              = CountIn(KeysAt(first_number, MAX_ITERATIONS), v)
       /\ ~LowestTested /\ ~IdleBetween => verified = "yes"
=============================================================================
