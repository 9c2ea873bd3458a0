------------------------------- MODULE MCNpb -------------------------------
(* The IS and DT benchmarks on small instances, and the building of the     *)
(* benchmarks: which of them is looked at is chosen at the start.  Numbers  *)
(* of IS have 10 bits.                                                      *)
EXTENDS OmpSort, MpiSort, DataTraffic, SetParams

TestPlaces == <<3, 9, 18, 31>>
FewSeeds == {5, 55}
SomeSeeds == {1, 5, 9, 55}

EagerOnes == {{}, {"len"}, {"len", "val", "sum"}}

\* The graphs of class S; those of the larger classes are built only.
SomeTraffics ==
  {[graph |-> g, class |-> "S", eager |-> e, enough |-> TRUE] : g \in {"BH", "WH"}, e \in EagerOnes}
  \cup {[graph |-> "SH", class |-> "S", eager |-> {}, enough |-> TRUE]}
  \cup {[graph |-> g, class |-> c, eager |-> {}, enough |-> FALSE] : g \in {"BH", "WH", "SH"}, c \in {"S", "W", "A", "B"}}

SomeClasses == {"S", "A", "F", "U"}

-----------------------------------------------------------------------------
NoOmpSort ==
  /\ seed = 0 /\ team = 0 /\ useBuckets = FALSE /\ phase = "none" /\ round = 0 /\ key_array = <<>>
  /\ key_buff1 = <<>> /\ key_buff2 = <<>> /\ work = <<>> /\ bucket_ptrs = <<>> /\ pc = <<>> /\ idx = <<>>
  /\ next = 0 /\ partial_verify_vals = <<>> /\ passed_verification = 0

NoMpiSort ==
  /\ first_number = 0 /\ comm_size = 1 /\ stage = [p \in {0} |-> "absent"] /\ iterations = <<>> /\ key_arrays = <<>>
  /\ send_buff = <<>> /\ recv_buff = <<>> /\ ranks = <<>> /\ bucket_sizes = <<>> /\ bucket_size_totals = <<>>
  /\ last_keys = <<>> /\ passed = <<>> /\ verified = "unknown"

NoTraffic ==
  /\ run = [graph |-> "BH", class |-> "S", eager |-> {}, enough |-> FALSE]
  /\ dg = Graph(<<>>, <<>>) /\ started = "refused" /\ received = <<>> /\ sent = <<>>
  /\ feat = <<>> /\ length = <<>> /\ wire = {} /\ reports = <<>>

NoMake ==
  /\ version = "none" /\ type = "none" /\ makeDef = 0 /\ header = NoHeader /\ objects = NoObjects
  /\ program = NoProgram /\ make = Idle

MCInit ==
  \/ OmpInit /\ NoMpiSort /\ NoTraffic /\ NoMake
  \/ MpiInit /\ NoOmpSort /\ NoTraffic /\ NoMake
  \/ TrafficInit /\ NoOmpSort /\ NoMpiSort /\ NoMake
  \/ MakeInit /\ NoOmpSort /\ NoMpiSort /\ NoTraffic

MCNext ==
  \/ team > 0 /\ OmpNext /\ UNCHANGED <<mvars, tvars, svars>>
  \/ MpiNext /\ UNCHANGED <<ovars, tvars, svars>>
  \/ dg.node # <<>> /\ TrafficNext /\ UNCHANGED <<ovars, mvars, svars>>
  \/ version # "none" /\ MakeNext /\ UNCHANGED <<ovars, mvars, tvars>>

MCSpec == MCInit /\ [][MCNext]_<<ovars, mvars, tvars, svars>>
=============================================================================
