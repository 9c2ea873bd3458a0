------------------------- MODULE MCThreadPlacement -------------------------
(* Small machines and programs for ThreadPlacement.                        *)
EXTENDS ThreadPlacement

\* Two nodes, one with two CPUs.
ThreeCpus == 0 .. 2
ThreeCpusNode == [c \in ThreeCpus |-> IF c < 2 THEN 0 ELSE 1]

\* Two nodes of one CPU.
TwoCpus == 0 .. 1
TwoCpusNode == [c \in TwoCpus |-> c]

\* numa_distance() of two nodes.
TwoNodes == [m \in 0 .. 1 |-> [n \in 0 .. 1 |-> IF m = n THEN 10 ELSE 21]]
=============================================================================
