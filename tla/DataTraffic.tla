---------------------------- MODULE DataTraffic ----------------------------
(* The DT benchmark (NPB3.4-MPI/DT/dt.c): each process works for one node   *)
(* of a communication graph.  Sources make features, comparators combine    *)
(* those that come in with a filter, sinks reduce them to a number, and the *)
(* first process adds up the numbers of the sinks.  Of a feature only its   *)
(* length is kept, and what it was made of.                                 *)
EXTENDS DGraph, ClassSizes

CONSTANT Traffics  \* what may be run: [graph, class, eager, enough]

VARIABLES
  run,       \* graph and class, the sends that do not wait for the receiver, and
             \* whether there are processes for all nodes
  dg,        \* the graph that was built
  started,   \* every process: "runs", or "refused" when there are too few
  received,  \* messages that a process has received for its node
  sent,      \* messages that it has sent
  feat,      \* the feature of its node, or for a sink what it has reduced so far
  length,    \* the length announced for the next feature
  wire,      \* messages on their way
  reports    \* what the first process has received, from the sinks that have sent it

tvars == <<run, dg, started, received, sent, feat, length, wire, reports>>

setting == <<run, dg, started>>

NUM_SAMPLES == write_dt_info[run.class].num_samples
STD_DEVIATION == write_dt_info[run.class].deviation
fielddim == 4

Procs == 0 .. Len(dg.node) - 1
NodeOf(p) == dg.node[p + 1]     \* address = number of the node
KindOf(p) == NodeOf(p)[1]

-----------------------------------------------------------------------------
\* The product of two 32-bit integers, which wraps round: byte by byte.
Times32(x, y) ==
  LET byte(n, i) == (n \div 256 ^ i) % 256
      column[i \in 0 .. 3] == FoldLeft(LAMBDA t, j : t + byte(x, j) * byte(y, i - j), 0, [j \in 1 .. i + 1 |-> j - 1])
      sum[i \in 0 .. 3] == column[i] + IF i = 0 THEN 0 ELSE sum[i - 1] \div 256
      digit(i) == sum[i] % 256
  IN  digit(0) + 256 * digit(1) + 65536 * digit(2) + 16777216 * (IF digit(3) >= 128 THEN digit(3) - 256 ELSE digit(3))

\* The remainder of C: it has the sign of x.
Rem(x, md) == IF x >= 0 THEN x % md ELSE -((-x) % md)

\* mutant: what is left of the exponent is squared too.
SquaresOnly(a, n, md) ==
  LET power[k \in Nat, q \in Int, r \in Int] ==
        IF k <= 1 THEN Rem(Times32(r, q), md) ELSE power[k \div 2, Rem(Times32(q, q), md), r]
  IN  IF n = 0 THEN 1 ELSE power[n, a, 1]

\* a to the power of n, modulo md; products that are too large wrap round.
ipowMod(a, n, md) ==
  LET power[k \in Nat, q \in Int, r \in Int] ==
        IF k <= 1 THEN Rem(Times32(r, q), md)
        ELSE IF k % 2 = 0 THEN power[k \div 2, Rem(Times32(q, q), md), r]
        ELSE power[k - 1, q, Rem(Times32(r, q), md)]
  IN  IF n = 0 THEN 1 ELSE power[n, a, 1]

\* mutant: the remainder keeps its sign.
SignKept(class, id) ==
  LET size == write_dt_info[class]
  IN  size.num_samples - size.deviation + ipowMod((223990 \div (2 * id + 1)) * 83, 2 * id + 1, 2 * size.deviation)

\* The samples of source id: randlc() makes a number of 314159265 * (2 * id + 1)
\* for it, 2^46 divided by which is rounded down to 223990 / (2 * id + 1), and
\* 'S' is 83.
GetFeatureNum(class, id) ==
  LET size == write_dt_info[class]
      rtfs == ipowMod((223990 \div (2 * id + 1)) * 83, 2 * id + 1, 2 * size.deviation)
  IN  size.num_samples - size.deviation + IF rtfs < 0 THEN -rtfs ELSE rtfs

RandomFeatures(class, id) == [len |-> GetFeatureNum(class, id) * fielddim, of |-> <<"random", id>>]

\* The shorter of the two is stretched to the length of the other.
WindowFilter(a, b, w) == [len |-> IF a.len < b.len THEN b.len ELSE a.len, of |-> <<"filter", w, a.of, b.of>>]

\* The array a comparator starts with is not initialised.
newArr(len) == [len |-> len, of |-> <<"unset">>]

\* What a process has for its node before anything has come in.
AtFirst(p) ==
  CASE KindOf(p) = "Source" -> RandomFeatures(run.class, p)
    [] KindOf(p) = "Sink" -> [len |-> 0, of |-> <<"reduce">>]
    [] OTHER -> newArr(NUM_SAMPLES * fielddim)

\* A feature that comes in is reduced by a sink and filtered by a comparator.
Taken(p, has, len, of) ==
  IF KindOf(p) = "Sink" THEN [has EXCEPT !.of = Append(@, <<len, of>>)]
  ELSE WindowFilter(has, [len |-> len, of |-> of], p)

-----------------------------------------------------------------------------
\* The messages of an arc: the length, and then that many numbers.
Parts(arcs, peer(_)) ==
  [k \in 1 .. 2 * Len(arcs) |->
    LET a == arcs[(k + 1) \div 2] IN [peer |-> peer(a), tag |-> a - 1, part |-> IF k % 2 = 1 THEN "len" ELSE "val"]]

\* mutant: the last arc first.
LastFirst(p) == Parts(Reverse(inArc(dg, NodeOf(p))), LAMBDA a : IdOf(dg, dg.arc[a].tail))

\* What CombineStreams() and ReduceStreams() receive, in order.
ToReceive(p) == Parts(inArc(dg, NodeOf(p)), LAMBDA a : IdOf(dg, dg.arc[a].tail))

SumTag(p) == Len(dg.arc) + p

\* What SendResults() sends, or a sink to the first process.
ToSend(p) ==
  IF KindOf(p) = "Sink" THEN <<[peer |-> 0, tag |-> SumTag(p), part |-> "sum"]>>
  ELSE Parts(outArc(dg, NodeOf(p)), LAMBDA a : IdOf(dg, dg.arc[a].head))

Sinks == {p \in Procs : KindOf(p) = "Sink"}

Ready(p) == received[p] = Len(ToReceive(p))

\* A message is known by its sender and its place among what that sends.
Message(m) == ToSend(m[1])[m[2]]

\* A send that is not eager ends when its message is received: until then the
\* message is on the wire.
Blocked(p) == \E m \in wire : m[1] = p /\ Message(m).part \notin run.eager

\* mutant: the sums are waited for before the process's own node is done.
ReportFirst == Ready(0)

\* The first process waits for the sums when its node is done.
AtReport == Ready(0) /\ sent[0] = Len(ToSend(0)) /\ ~Blocked(0)

\* The sinks are waited for in the order of the nodes.
NextSink ==
  LET left == Sinks \ DOMAIN reports IN {s \in left : \A other \in left : s <= other}

\* The next message that a process waits for, if it does.
Awaited(p) ==
  IF ~Ready(p) THEN {ToReceive(p)[received[p] + 1]}
  ELSE IF p = 0 /\ AtReport THEN {[peer |-> s, tag |-> SumTag(s), part |-> "sum"] : s \in NextSink}
  ELSE {}

\* The first message from the sender and with the tag that is on its way to p:
\* two of the same sender and tag arrive in order.
Matching(p, want) ==
  LET match == {m \in wire : m[1] = want.peer /\ Message(m).peer = p /\ Message(m).tag = want.tag}
  IN  {m \in match : \A other \in match : m[2] <= other[2]}

-----------------------------------------------------------------------------
\* main() up to ProcessNodes(): the graph has a name, and a process a node.
TrafficInit ==
  /\ run \in Traffics
  /\ dg = build(run.graph, write_dt_info[run.class].num_sources)
  /\ started = IF run.enough THEN "runs" ELSE "refused"
  /\ received = [p \in Procs |-> 0] /\ sent = [p \in Procs |-> 0] /\ length = [p \in Procs |-> 0]
  /\ feat = [p \in Procs |-> AtFirst(p)]
  /\ wire = {} /\ reports = <<>>

\* MPI_Send of SendResults() and of a sink.  What is sent does not change any
\* more: it is read where it is received.
Send(p) ==
  /\ started = "runs" /\ Ready(p) /\ ~Blocked(p) /\ sent[p] < Len(ToSend(p))
  /\ p = 0 => DOMAIN reports = {}
  /\ sent' = [sent EXCEPT ![p] = @ + 1]
  /\ wire' = wire \cup {<<p, sent[p] + 1>>}
  /\ UNCHANGED <<setting, received, feat, length, reports>>

\* MPI_Recv for a node: a length, or a feature of that length, which a
\* comparator filters and a sink reduces.
Receive(p) ==
  /\ started = "runs" /\ ~Ready(p)
  /\ LET want == ToReceive(p)[received[p] + 1]
     IN  \E m \in Matching(p, want) :
           /\ wire' = wire \ {m}
           /\ LET of == IF Message(m).part = want.part THEN feat[m[1]].of ELSE <<"garbled">>
              IN  IF want.part = "len" THEN length' = [length EXCEPT ![p] = feat[m[1]].len] /\ UNCHANGED feat
                  ELSE feat' = [feat EXCEPT ![p] = Taken(p, @, length[p], of)] /\ UNCHANGED length
  /\ received' = [received EXCEPT ![p] = @ + 1]
  /\ UNCHANGED <<setting, sent, reports>>

\* MPI_Recv of the first process, from each sink in the order of the nodes.
Report ==
  /\ started = "runs" /\ AtReport
  /\ \E want \in Awaited(0) : \E m \in Matching(0, want) :
       /\ wire' = wire \ {m}
       /\ reports' = [s \in DOMAIN reports \cup {m[1]} |-> IF s = m[1] THEN feat[s].of ELSE reports[s]]
  /\ UNCHANGED <<setting, received, sent, feat, length>>

AllEnded ==
  \/ started = "refused"
  \/ DOMAIN reports = Sinks /\ \A p \in Procs : Ready(p) /\ sent[p] = Len(ToSend(p))

TrafficEnd == AllEnded /\ UNCHANGED tvars

TrafficNext == (\E p \in Procs : Send(p) \/ Receive(p)) \/ Report \/ TrafficEnd

TrafficSpec == TrafficInit /\ [][TrafficNext]_tvars

-----------------------------------------------------------------------------
Ended(p) == Ready(p) /\ sent[p] = Len(ToSend(p)) /\ ~Blocked(p) /\ (p = 0 => DOMAIN reports = Sinks)

\* Whom a process waits for: the receiver of what it sends, the sender of what
\* it is to receive, or nobody but itself.
WaitsFor(p) ==
  IF Blocked(p)
  THEN (CHOOSE q \in Procs : \E m \in wire : m[1] = p /\ Message(m).part \notin run.eager /\ Message(m).peer = q)
  ELSE IF \E want \in Awaited(p) : Matching(p, want) = {} THEN (CHOOSE want \in Awaited(p) : TRUE).peer
  ELSE p

\* Nobody waits in vain, whichever sends wait for their receivers: among any of
\* those who wait for others is one who waits for somebody else, who has not
\* ended.  So nobody waits for himself through others, or for one who is gone.
WaitsLeadToWork ==
  started = "runs" =>
    LET waits == {<<p, WaitsFor(p)>> : p \in {p \in Procs : WaitsFor(p) # p}}
        ended == {p \in Procs : Ended(p)}
    IN  \A them \in SUBSET {w[1] : w \in waits} :
          them # {} => \E w \in waits : w[1] \in them /\ w[2] \notin them \cup ended

\* What a node is to have when the first of its arcs have been followed: what
\* flows along them, which is all that their tails are to have.
Followed == UNION {{nm} \X (0 .. Len(inArc(dg, nm))) : nm \in Names(dg)}
Flow ==
  LET flow[at \in Followed] ==
        IF at[2] = 0 THEN AtFirst(IdOf(dg, at[1]))
        ELSE LET tail == dg.arc[inArc(dg, at[1])[at[2]]].tail
                 in == flow[<<tail, Len(inArc(dg, tail))>>]
             IN  Taken(IdOf(dg, at[1]), flow[<<at[1], at[2] - 1>>], in.len, in.of)
  IN  flow

\* Powers are what they are to be where no product is too large; where one is,
\* a source's number of samples is still at most the deviation from the mean;
\* and length times number fits an integer, but for the largest class.
LengthsFit ==
  /\ \A a \in 1 .. 5, n \in 0 .. 9, md \in 1 .. 9 : ipowMod(a, n, md) = IF n = 0 THEN 1 ELSE a ^ n % md
  /\ \A class \in DOMAIN write_dt_info :
       LET size == write_dt_info[class]
       IN  \A id \in 0 .. size.num_sources - 1 :
             LET len == GetFeatureNum(class, id)
             IN  /\ size.num_samples - size.deviation <= len /\ len < size.num_samples + size.deviation
                 /\ class # "D" => len * fielddim <= 2147483647 \div (id + 1)

NodesOfTable ==
  [S |-> [BH |-> 5, WH |-> 5, SH |-> 12], W |-> [BH |-> 11, WH |-> 11, SH |-> 32],
   A |-> [BH |-> 21, WH |-> 21, SH |-> 80], B |-> [BH |-> 43, WH |-> 43, SH |-> 192]]

\* A graph has the number of nodes that the README's table tells, it is in the
\* order that the processes rely on (the numbers in topological order, without
\* which there may be deadlock), and every sink depends on every source; and the
\* lengths are as above.
GraphsAreRight ==
  dg.node # <<>> /\ wire = {} /\ (\A p \in Procs : sent[p] = 0) =>
    LET sources == {nm \in Names(dg) : nm[1] = "Source"}
        reach[nm \in Names(dg)] ==
          (sources \cap {nm}) \cup UNION {reach[dg.arc[a].tail] : a \in Range(inArc(dg, nm))}
    IN  /\ Len(dg.node) = NodesOfTable[run.class][run.graph]
        /\ WellOrdered(dg)
        /\ \A nm \in Names(dg) : nm[1] = "Sink" => reach[nm] = sources
        /\ LengthsFit

\* The graph is right, and over it the first process gets from every sink what
\* flows to it along the arcs, each feature with its length, whatever order the
\* messages were sent and received in.
SinksGetFlow ==
  DOMAIN reports = Sinks => \A s \in Sinks : reports[s] = Flow[<<NodeOf(s), Len(inArc(dg, NodeOf(s)))>>].of

ResultsAreFlow == GraphsAreRight /\ SinksGetFlow
=============================================================================
