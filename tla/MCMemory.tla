------------------------------ MODULE MCMemory ------------------------------
(* Instances of Memory: one process with two threads, on CPUs of the two    *)
(* nodes, that has one or two regions on three pages of two addresses.      *)
EXTENDS Memory

Region(first, last) == [begin |-> first * PageSize, end |-> last * PageSize]
Option(s, p, f) == [strategy |-> s, portion |-> p, fake_thp_size |-> f]

MCNodeOf == [t \in Tids |-> t - 1]
MCProcOf == [t \in Tids |-> 1]
MCLayouts == {{Region(1, 2), Region(2, 4)}, {Region(1, 3)}}
MCPlacements == {[p \in Pages |-> IF p = PageSize THEN 1 ELSE 0]}

\* page 1 is accessed at its start, pages 2 and 3 also or only inside
MCSamples == {[tid |-> t, addr |-> a, lat |-> 1] : t \in Tids, a \in {2, 7}}
             \cup {[tid |-> t, addr |-> 4, lat |-> 2 * t - 1] : t \in Tids}

TmmaOnly == {Option("TMMA", 100, 0)}

MCOptions == {Option("TMMA", 100, 0), Option("TMMA", 60, 2), Option("LMMA", 100, 0),
              Option("LMMA", 60, 0), Option("RMMA", 100, 0), Option("RMMA", 60, 2)}
=============================================================================
