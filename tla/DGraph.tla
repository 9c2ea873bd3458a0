------------------------------- MODULE DGraph -------------------------------
(* The communication graphs of the DT benchmark (NPB3.4-MPI/DT/DGraph.c and *)
(* the build functions of dt.c).  A node is known by its name, as arcs know *)
(* it by its address; its number is its place in the sequence of nodes, and *)
(* an arc's number its place in the sequence of arcs.                       *)
EXTENDS Integers, Sequences, FiniteSets, SequencesExt

newArc(tl, hd) == [tail |-> tl, head |-> hd]

Names(dg) == Range(dg.node)
IdOf(dg, nm) == (CHOOSE i \in DOMAIN dg.node : dg.node[i] = nm) - 1

\* The numbers of the arcs of a node, in the order they were attached.
inArc(dg, nm) == dg.inArc[nm]
outArc(dg, nm) == dg.outArc[nm]

\* What there is after all of a sequence were attached in turn, where one that
\* is there already is not attached again.
Attached(all) ==
  LET new == SelectSeq([i \in DOMAIN all |-> i], LAMBDA i : \A j \in 1 .. i - 1 : all[j] # all[i])
  IN  [k \in DOMAIN new |-> all[new[k]]]

\* AttachNode(): a node whose name is known is not new; it has no arcs to merge
\* yet.
AttachNode(names) == Attached(names)

\* AttachArc(): of parallel arcs only the first is kept, when their lengths are
\* equal; no length is ever set, and no graph below has parallel arcs.
AttachArc(arcs) == Attached(arcs)

\* The graph of nodes and arcs; an arc is given by the numbers of its nodes.
Graph(names, ends) ==
  LET nodes == AttachNode(names)
      arcs == AttachArc([k \in DOMAIN ends |-> newArc(nodes[ends[k][1] + 1], nodes[ends[k][2] + 1])])
      Of(end) == [nm \in Range(nodes) |-> SelectSeq([a \in DOMAIN arcs |-> a], LAMBDA a : arcs[a][end] = nm)]
  IN  [node |-> nodes, arc |-> arcs, inArc |-> Of("head"), outArc |-> Of("tail")]

\* What the processes rely on: no node has two numbers; arcs go up in the order
\* of the numbers; a node has its arcs once, those into it in the order of their
\* tails; sinks, of which the first node is none, have no arcs out.
WellOrdered(dg) ==
  LET tailOf(a) == IdOf(dg, dg.arc[a].tail)
      headOf(a) == IdOf(dg, dg.arc[a].head)
  IN  /\ dg.node \in Seq(Names(dg)) /\ dg.node # <<>>
      /\ dg.arc \in Seq([tail : Names(dg), head : Names(dg)])
      /\ IsInjective(dg.node)
      /\ \A a \in DOMAIN dg.arc : tailOf(a) < headOf(a)
      /\ \A nm \in Names(dg) :
           /\ inArc(dg, nm) \in Seq(DOMAIN dg.arc) /\ outArc(dg, nm) \in Seq(DOMAIN dg.arc)
           /\ Range(inArc(dg, nm)) = {a \in DOMAIN dg.arc : dg.arc[a].head = nm}
           /\ Range(outArc(dg, nm)) = {a \in DOMAIN dg.arc : dg.arc[a].tail = nm}
           /\ IsInjective(outArc(dg, nm))
           /\ \A j \in DOMAIN inArc(dg, nm) : \A i \in 1 .. j - 1 :
                tailOf(inArc(dg, nm)[i]) < tailOf(inArc(dg, nm)[j])
           /\ nm[1] = "Sink" => outArc(dg, nm) = <<>>
      /\ dg.node[1][1] # "Sink"

Several(kind, n) == [i \in 1 .. n |-> <<kind, i - 1>>]

-----------------------------------------------------------------------------
\* mutant: two layers less than there are doublings.
TwoLayersLess(n) == LET log2[m \in Nat] == IF m > 1 THEN 1 + log2[m \div 2] ELSE 0 IN log2[n \div 4]

\* Layers of comparators of the shuffle.
numOfLayers(n) == LET log2[m \in Nat] == IF m > 1 THEN 1 + log2[m \div 2] ELSE 0 IN log2[n \div 2]

\* The shuffle: node i of a layer takes from the nodes of the layer before whose
\* numbers differ from i in the bit of the layer, if at all.
buildSH(n) ==
  LET layers == numOfLayers(n)
      comparator(k) == LET j == k \div n  i == k % n IN <<"Comparator", i + j * (j * n)>>
      ends(k) ==
        LET j == k \div (2 * n)
            i == (k % (2 * n)) \div 2
            off == (IF (i \div 2 ^ j) % 2 = 1 THEN i - 2 ^ j ELSE i) + IF k % 2 = 1 THEN 2 ^ j ELSE 0
        IN  <<j * n + off, (j + 1) * n + i>>
  IN  Graph(Several("Source", n) \o [k \in 1 .. layers * n |-> comparator(k - 1)] \o Several("Sink", n),
               [k \in 1 .. 2 * n * (layers + 1) |-> ends(k - 1)])

maxInDeg == 4

\* mutant: a width that four divides gets a node too many.
OneTooMany(n) ==
  LET Span(first, width) == [k \in 1 .. width |-> first + k - 1]
      tree[first \in Nat, width \in Nat] ==
        IF width <= maxInDeg THEN <<Span(first, width)>>
        ELSE LET up == width \div maxInDeg + 1
             IN  [i \in 1 .. up |-> Span(first + (i - 1) * maxInDeg,
                    IF i * maxInDeg <= width THEN maxInDeg ELSE width - (i - 1) * maxInDeg)]
                 \o tree[first + width, up]
  IN  tree[0, n]

\* The nodes that each node of the tree over n leaves is joined with, layer by
\* layer: groups of four, and at the root what remains.
Groups(n) ==
  LET Span(first, width) == [k \in 1 .. width |-> first + k - 1]
      tree[first \in Nat, width \in Nat] ==
        IF width <= maxInDeg THEN <<Span(first, width)>>
        ELSE LET up == (width + maxInDeg - 1) \div maxInDeg
             IN  [i \in 1 .. up |-> Span(first + (i - 1) * maxInDeg,
                    IF i * maxInDeg <= width THEN maxInDeg ELSE width - (i - 1) * maxInDeg)]
                 \o tree[first + width, up]
  IN  tree[0, n]

\* The nodes above the leaves, of which the last is the root, and the arcs: for
\* each of them those to its group, in order.
Above(n, root) == LET k == Len(Groups(n)) IN Append(Several("Comparator", k - 1), <<root>>)
Joins(n, ends(_, _)) ==
  LET join[k \in 0 .. Len(Groups(n))] ==
        IF k = 0 THEN <<>>
        ELSE join[k - 1] \o [i \in DOMAIN Groups(n)[k] |-> ends(Groups(n)[k][i], n + k - 1)]
  IN  join[Len(Groups(n))]

\* The black hole: a tree into its root, the only sink.
buildBH(n) == Graph(Several("Source", n) \o Above(n, "Sink"), Joins(n, LAMBDA leaf, up : <<leaf, up>>))

\* mutant: the nodes stay in the order they were made in.
NotSorted(n) == Graph(Several("Sink", n) \o Above(n, "Source"), Joins(n, LAMBDA leaf, up : <<up, leaf>>))

\* The white hole: a tree out of its root, the only source, made from the sinks
\* and then turned round so that the numbers are in topological order.
buildWH(n) ==
  LET made == Graph(Several("Sink", n) \o Above(n, "Source"), Joins(n, LAMBDA leaf, up : <<up, leaf>>))
  IN  [made EXCEPT !.node = Reverse(@)]

build(graph, n) == CASE graph = "BH" -> buildBH(n) [] graph = "WH" -> buildWH(n) [] graph = "SH" -> buildSH(n)
=============================================================================
