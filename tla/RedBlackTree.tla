--------------------------- MODULE RedBlackTree ---------------------------
(* The red-black tree in which the DC benchmark aggregates the rows of a    *)
(* view (NPB3.4-OMP/DC/rbt.c, rbt.h).  Nodes are taken one after the other  *)
(* from a memory pool: a node is its number in that order.                  *)
EXTENDS Integers, Sequences, FiniteSetsExt, Views

Nil == 0
BLACK == 0
RED == 1

\* Directions of a descent, drcts[] of the code.
Left == 1
Right == 2
Opposite(d) == 3 - d

\* A tree without nodes and with room for limit of them.
InitializeTree(limit) ==
  [root |-> Nil, node |-> <<>>, freeNodeCounter |-> limit, memoryIsFull |-> FALSE]

\* nNodesLimit nodes fit in memoryLimit bytes.
CreateEmptyTree(memory) == InitializeTree(memory.nodes)

Count(t) == Len(t.node)

\* The macro NEW_TREE_NODE and the filling of the node.
NewTreeNode(t, row, colour) ==
  [t EXCEPT !.node = Append(@, [child |-> <<Nil, Nil>>, clr |-> colour,
                                key |-> row.key, sum |-> row.sum]),
            !.freeNodeCounter = @ - 1,
            !.memoryIsFull = @ \/ t.freeNodeCounter = 1]

\* nodes[] and drcts[]: the nodes met on the way to the key, each with the
\* direction taken from it, 0 at the node that has the key.
Path(t, key) ==
  LET from[x \in 1 .. Count(t)] ==
        LET compared == KeyComp(key, t.node[x].key)
            d == IF compared < 0 THEN Left ELSE Right
        IN  IF compared = 0 THEN <<[node |-> x, drct |-> 0]>>
            ELSE <<[node |-> x, drct |-> d]>>
                 \o (IF t.node[x].child[d] = Nil THEN <<>> ELSE from[t.node[x].child[d]])
  IN  from[t.root]

IsRed(t, x) == x # Nil /\ t.node[x].clr = RED

Uncle(t, path, j) == t.node[path[j - 1].node].child[Opposite(path[j - 1].drct)]

\* Father j of the path is red and so is his brother.
Recolours(t, path, j) ==
  j >= 2 /\ IsRed(t, path[j].node) /\ IsRed(t, Uncle(t, path, j))

\* A turn of the loop in which both become black, the grandfather red, and the
\* loop goes on from the grandfather, two levels up.
Recoloured(at, path) ==
  IF ~Recolours(at.t, path, at.j) THEN at
  ELSE [t |-> [at.t EXCEPT !.node = [@ EXCEPT ![path[at.j].node].clr = BLACK,
                                              ![Uncle(at.t, path, at.j)].clr = BLACK,
                                              ![path[at.j - 1].node].clr = RED]],
        j |-> at.j - 2]

SetChild(nodes, x, d, y) == [nodes EXCEPT ![x].child = [@ EXCEPT ![d] = y]]

\* y takes the place of the grandfather, who becomes its son.
Turned(t, nodes, path, j, y) ==
  LET g == path[j - 1].node
      d == path[j - 1].drct
      coloured == [nodes EXCEPT ![g].clr = RED, ![y].clr = BLACK]
      turned == SetChild(SetChild(coloured, g, d, nodes[y].child[Opposite(d)]), y, Opposite(d), g)
  IN  IF j = 2 THEN [t EXCEPT !.node = turned, !.root = y]
      ELSE [t EXCEPT !.node = SetChild(turned, path[j - 2].node, path[j - 2].drct, y)]

\* mutant: the son between father and grandfather is not brought outside first.
RotatedOnce(t, path, j) == Turned(t, t.node, path, j, path[j].node)

\* Father j is red and his brother is not: y, the father, or the son between
\* father and grandfather, takes the place of the grandfather.
Rotated(t, path, j) ==
  LET d == path[j - 1].drct
      x == path[j].node
      y == t.node[x].child[Opposite(d)]
  IN  IF path[j].drct = d THEN Turned(t, t.node, path, j, x)
      ELSE Turned(t, SetChild(SetChild(t.node, x, Opposite(d), t.node[y].child[d]), y, d, x),
                  path, j, y)

\* The loop after an insertion below the last node of the path: it recolours as
\* long as it can, then rotates if there is need to.
Rebalanced(t, path) ==
  LET turns[k \in 0 .. Len(path)] ==
        IF k = 0 THEN [t |-> t, j |-> Len(path)] ELSE Recoloured(turns[k - 1], path)
      at == turns[Len(path)]
      turned == IF at.j >= 2 /\ IsRed(at.t, path[at.j].node) THEN Rotated(at.t, path, at.j) ELSE at.t
  IN  [turned EXCEPT !.node[turned.root].clr = BLACK]

\* TreeInsert(): a row of a known key is added to its node.
TreeInsert(t, row) ==
  IF t.root = Nil THEN [NewTreeNode(t, row, BLACK) EXCEPT !.root = 1]
  ELSE LET path == Path(t, row.key)
           at == path[Len(path)]
           grown == NewTreeNode(t, row, RED)
       IN  IF at.drct = 0 THEN [t EXCEPT !.node[at.node].sum = @ + row.sum]
           ELSE Rebalanced([grown EXCEPT !.node = SetChild(@, at.node, at.drct, Count(grown))], path)

\* The rows in the order in which WriteViewToDisk(), computeChecksum() and
\* WriteChunkToDisk() visit them.
InOrder(t) ==
  LET below[x \in 0 .. Count(t)] ==
        IF x = Nil THEN <<>>
        ELSE below[t.node[x].child[Left]] \o <<[key |-> t.node[x].key, sum |-> t.node[x].sum]>>
             \o below[t.node[x].child[Right]]
  IN  below[t.root]

-----------------------------------------------------------------------------
\* The nodes on the longest way down, and the black ones on every way down
\* (-1 if the ways differ).
Height(t) ==
  LET of[x \in 0 .. Count(t)] ==
        IF x = Nil THEN 0
        ELSE LET l == of[t.node[x].child[Left]]
                 r == of[t.node[x].child[Right]]
             IN  1 + (IF l < r THEN r ELSE l)
  IN  of[t.root]

BlackHeight(t) ==
  LET of[x \in 0 .. Count(t)] ==
        IF x = Nil THEN 0
        ELSE LET l == of[t.node[x].child[Left]]
                 r == of[t.node[x].child[Right]]
             IN  IF l = -1 \/ l # r THEN -1 ELSE l + (IF t.node[x].clr = BLACK THEN 1 ELSE 0)
  IN  of[t.root]

Balanced(t) ==
  /\ ~IsRed(t, t.root)
  /\ \A x \in 1 .. Count(t) : IsRed(t, x) => \A d \in {Left, Right} : ~IsRed(t, t.node[x].child[d])
  /\ BlackHeight(t) # -1
=============================================================================
