----------------------------- MODULE MCDataCube -----------------------------
(* The DC benchmark on small instances: the making of one view, row by row  *)
(* (ViewSort), or a whole run (DataCube); which is chosen at the start.     *)
(* Of one view every row has a measure of its own bit: a sum tells which    *)
(* rows are in it.  The runs are those of class S as it is, by one task and *)
(* with a thread less than tasks, and smaller ones of class U, with the     *)
(* parameters of a file, whose tasks interleave; some of both with the      *)
(* optimized build.                                                         *)
EXTENDS ViewSort, DataCube

Row(k, i) == [key |-> <<k \div 4, k % 4>>, sum |-> 2 ^ i]

RowsOf(keys) == [i \in 1 .. Len(keys) |-> Row(keys[i], i - 1)]

\* All the sequences of up to six rows of three keys.
ShortInputs == {RowsOf(keys) : keys \in UNION {[1 .. n -> {1, 3, 4}] : n \in {0, 1, 3, 6}}}

\* Insertions that recolour and rotate at every level of larger trees.
LongInputs == {RowsOf([i \in 1 .. 9 |-> (a * i) % 13]) : a \in 1 .. 12}
              \cup {RowsOf(keys) : keys \in {<<0, 8, 4, 2, 6, 5, 7, 1, 3>>, <<8, 1, 7, 2, 6, 3, 5, 4, 0>>}}

SomeInputs == ShortInputs \cup LongInputs

SomeMemories == {[nodes |-> 1, records |-> 4], [nodes |-> 2, records |-> 2],
                 [nodes |-> 2, records |-> 4], [nodes |-> 3, records |-> 5],
                 [nodes |-> 4, records |-> 9], [nodes |-> 10, records |-> 12]}

\* A file of chunks that is new, and one that a larger view has used.
SomeStaleChunks == {<<>>, [i \in 1 .. 12 |-> [key |-> <<0, 2>>, sum |-> 4096]]}

-----------------------------------------------------------------------------
Line(keyword, value, number) == [keyword |-> keyword, value |-> value, number |-> number]

\* A file like DC/ADC.par.
AdcPar(dim, n) ==
  <<Line("attrNum", dim, TRUE), Line("measuresNum", 1, TRUE), Line("tuplesNum", n, TRUE),
    Line("class", "U", FALSE), Line("INVERSE_ENDIAN", 0, TRUE), Line("fileName", "ADC", FALSE)>>

ClassS(argv, optimized, n) ==
  [CLASS |-> "S", argv |-> argv, OPTIMIZATION |-> optimized, threads |-> n, team |-> 1]
ClassU(dim, n, bytes, optimized, threads, team) ==
  [CLASS |-> "U", argv |-> <<bytes, AdcPar(dim, n)>>, OPTIMIZATION |-> optimized,
   threads |-> threads, team |-> team]

SomeRuns ==
  {ClassS(<<>>, FALSE, n) : n \in 1 .. 2}
  \cup {ClassS(<<0, AdcPar(4, 10)>>, TRUE, 1)}
  \cup {ClassU(5, 4, 0, FALSE, 3, n) : n \in 1 .. 3}
  \cup {ClassU(6, 4, 0, FALSE, 2, 2)}
  \cup {ClassU(5, 8, 140, TRUE, 2, n) : n \in 1 .. 2}

-----------------------------------------------------------------------------
NoRun == ClassU(5, 4, 0, FALSE, 1, 0)

ViewOnly ==
  /\ ViewInit
  /\ run = NoRun /\ par = initADCpar /\ phase = "none" /\ seed = <<>> /\ tuples = <<>> /\ viewSizes = <<>> /\ adccntl = <<>>
  /\ critical = NoTask /\ pvst = NoTotals /\ verified = 0

RunOnly ==
  /\ CubeInit
  /\ rows = <<>> /\ memory = [nodes |-> 1, records |-> 1] /\ inCore = FALSE /\ pc = "none" /\ iRec = 0
  /\ tree = <<>> /\ fileOfChunks = <<>> /\ filePos = 0 /\ chunksParams = <<>> /\ memPool = <<>>
  /\ outputBuffer = NoRow /\ view = <<>> /\ nViewRows = 0 /\ mSums = 0 /\ checksums = 0

MCInit == ViewOnly \/ RunOnly

MCNext ==
  \/ pc # "none" /\ ViewNext /\ UNCHANGED cubeVars
  \/ phase # "none" /\ CubeNext /\ UNCHANGED viewVars

MCSpec == MCInit /\ [][MCNext]_<<viewVars, cubeVars>>
=============================================================================
