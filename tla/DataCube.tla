------------------------------ MODULE DataCube ------------------------------
(* A run of the DC benchmark (NPB3.4-OMP/DC): the tuples are generated, the *)
(* sizes of the views are predicted, and the threads of a parallel region   *)
(* deal the views among them, make each of theirs from the input or from a  *)
(* view they have made, compare the sizes and add up their totals, which    *)
(* are verified after the region (built with and without OPTIMIZATION, and  *)
(* without IN_CORE).  How one view is made of its rows is ViewSort; here it *)
(* is the GroupBy that ViewSort implements, or a failure.  A view is the    *)
(* set of its attributes, for which the code has words of bits, attribute 1 *)
(* first.                                                                   *)
EXTENDS Adc, Aggregates, SequencesExt

CONSTANTS Runs,                 \* build (CLASS, OPTIMIZATION), arguments, threads
                                \* (omp_get_max_threads) and team, the threads given
          MAX_NUMBER_OF_TASKS,  \* 256 in the code
          SSA_BUFFER_SIZE       \* 1024 * 1024 in the code

VARIABLES
  run,       \* which run it is
  par,       \* its parameters
  phase,     \* of main() and DC()
  seed,      \* seeds of GetNextTuple()
  tuples,    \* the input file
  viewSizes, \* the file of predicted sizes
  adccntl,   \* ADC_VIEW_CNTL of every task
  critical,  \* who is in the critical section: a task or none
  pvst,      \* totals of the tasks (PAR_VIEW_ST)
  verified

cubeVars == <<run, par, phase, seed, tuples, viewSizes, adccntl, critical, pvst, verified>>

nTasks == Min({run.threads, MAX_NUMBER_OF_TASKS})
Team == 0 .. run.team - 1
NoTask == -1

-----------------------------------------------------------------------------
\* initADCpar()
initADCpar == [dim |-> 5, mnum |-> 1, tuplenum |-> 100, inverse_endian |-> 0, filename |-> "ADC", clss |-> "U"]

\* What is compiled into npbparams.h (write_dc_info() of setparams), and what
\* ParseParFile() sets for a class whatever the file says.
ClassSizeOf(clss) ==
  CASE clss = "S" -> [dim |-> 5, tuplenum |-> 1000]
    [] clss = "W" -> [dim |-> 10, tuplenum |-> 100000]
    [] clss = "A" -> [dim |-> 15, tuplenum |-> 1000000]
    [] clss = "B" -> [dim |-> 20, tuplenum |-> 10000000]

\* The parameters the cases of ParseParFile() set, by their number, and the
\* keywords, by theirs: there is none for case 3, so from INVERSE_ENDIAN on a
\* line sets the parameter before its own, and no line sets the class.
Cases == <<"dim", "mnum", "tuplenum", "none", "inverse_endian", "filename", "clss">>
adcKeyword == <<"attrNum", "measuresNum", "tuplesNum", "INVERSE_ENDIAN", "fileName", "class">>

\* One line of the file: a keyword and its value, comments left out.
SetByLine(p, line) ==
  LET i == CHOOSE n \in DOMAIN adcKeyword : adcKeyword[n] = line.keyword
  IN  IF Cases[i] = "none" \/ (Cases[i] = "inverse_endian" /\ ~line.number) THEN p
      ELSE [p EXCEPT ![Cases[i]] = line.value]

\* mutant: the class does not overwrite what the file says.
AsTheFileSays(file, p) == FoldLeft(SetByLine, p, file)

\* ParseParFile()
ParseParFile(file, p) ==
  LET read == FoldLeft(SetByLine, p, file)
  IN  IF read.clss = "U" THEN read
      ELSE [read EXCEPT !.dim = ClassSizeOf(read.clss).dim, !.mnum = 1,
                        !.tuplenum = ClassSizeOf(read.clss).tuplenum]

\* main(): the arguments are the amount of memory and a file of parameters, or
\* the amount alone, or none.
Parameters(r) ==
  LET init == [initADCpar EXCEPT !.clss = r.CLASS]
      read == IF Len(r.argv) = 2 THEN ParseParFile(r.argv[2], init)
              ELSE [init EXCEPT !.dim = ClassSizeOf(r.CLASS).dim,
                                !.tuplenum = ClassSizeOf(r.CLASS).tuplenum]
      given == IF r.argv = <<>> THEN 0 ELSE r.argv[1]
      estimated == read.tuplenum * (50 + 5 * read.dim)
  IN  read @@ [memoryLimit |-> IF given <= 0 THEN estimated ELSE given]

-----------------------------------------------------------------------------
\* NumOfCombsFromNbyK()
NumOfCombsFromNbyK(n, k) ==
  IF k > n THEN 0 ELSE FoldLeft(LAMBDA combs, l : (combs * (n - l + 1)) \div l, 1, [l \in 1 .. k |-> l])

\* The first place in the job pool of the views with so many attributes.
layerIndex(level) == 1 + SumOver(LAMBDA i : NumOfCombsFromNbyK(par.dim, i), 1, level - 1)

\* A run has attributes, and a thread to ask for.
ASSUME RunsAssumption ==
  /\ \A r \in Runs : Parameters(r).dim \in Nat \ {0} /\ r.threads \in Nat \ {0} /\ r.team \in Nat
  /\ MAX_NUMBER_OF_TASKS \in Nat \ {0}

NoJob == [grpb |-> {}, nRows |-> 0, viewOffset |-> 0]

\* NewAdcViewCntl(): the control block of a task.
NewAdcViewCntl ==
  [pc |-> "new", groupbyFile |-> <<>>,
   lpp |-> [level \in 1 .. par.dim |-> 0],  \* layerCurrentPopulation
   jpp |-> [k \in 1 .. Bit[par.dim] - 1 |-> NoJob],
   viewFile |-> [offset \in {} |-> <<>>], endOfFile |-> 0, accViewFileOffset |-> 0,
   viewSizesFile |-> <<>>,
   numberOfMadeViews |-> 0, totalViewFileSize |-> 0, totalOfViewRows |-> 0, totchs |-> 0,
   verificationFailed |-> 0, totals |-> <<>>]

NoTotals == [verificationFailed |-> 0, totalNumberOfMadeViews |-> 0, totalViewSizesInBytes |-> 0,
             totalViewTuples |-> 0, checksum |-> 0]

CubeInit ==
  /\ run \in Runs /\ par = Parameters(run) /\ phase = "generate"
  /\ seed = FirstSeed(par) /\ tuples = <<>> /\ viewSizes = <<>>
  /\ adccntl = [t \in Team |-> NewAdcViewCntl]
  /\ critical = NoTask /\ pvst = NoTotals /\ verified = 0

-----------------------------------------------------------------------------
\* A turn of the loop of GenerateADC().
NextTuple ==
  /\ phase = "generate" /\ Len(tuples) < par.tuplenum
  /\ seed' = NextSeed(seed, Generators(par))
  /\ tuples' = Append(tuples, Tuple(seed'))
  /\ UNCHANGED <<run, par, phase, viewSizes, adccntl, critical, pvst, verified>>

\* GenerateADC() after its loop.
PredictSizes ==
  /\ phase = "generate" /\ Len(tuples) = par.tuplenum
  /\ viewSizes' = CalculateVeiwSizes(par)
  /\ phase' = "parallel"
  /\ UNCHANGED <<run, par, seed, tuples, adccntl, critical, pvst, verified>>

-----------------------------------------------------------------------------
\* mutant: the turn goes on with the first task only when it has passed the last.
TurnPastLast(turn) ==
  IF turn.pn = nTasks THEN [turn EXCEPT !.pn = 0] ELSE [turn EXCEPT !.pn = @ + 1]

\* Whose turn it is after a view is dealt: to and fro, with two turns at the ends.
NextTurn(turn) ==
  LET atLast == turn.direction = 0 /\ turn.pn = nTasks - 1
      direction == IF atLast THEN 1 ELSE turn.direction
      atFirst == direction = 1 /\ turn.pn = 0
  IN  IF atFirst THEN [turn EXCEPT !.direction = 0]
      ELSE IF atLast THEN [turn EXCEPT !.direction = 1]
      ELSE [turn EXCEPT !.pn = IF direction = 1 THEN @ - 1 ELSE @ + 1]

\* Views are dealt to the tasks, the last of the list first: gbuf of task t.
Dealt(list, t) ==
  LET view(n) == list[Len(list) + 1 - n].tuple
      given(at, n) ==
        [turn |-> NextTurn(at.turn),
         gbuf |-> IF at.turn.pn = t THEN Append(at.gbuf, [tuple |-> view(n), nOnes |-> Cardinality(view(n))])
                  ELSE at.gbuf]
      deal[n \in 0 .. Len(list)] ==
        IF n = 0 THEN [turn |-> [pn |-> 0, direction |-> 0], gbuf |-> <<>>] ELSE given(deal[n - 1], n)
  IN  deal[Len(list)].gbuf

\* MultiFileProcJobs(): the larger views are dealt first; those of a task are
\* made in falling order of their attributes.
MultiFileProcJobs(tuplesAndSizes, t) == Reverse(HeapSort(Dealt(tuplesAndSizes, t), "nOnes"))

\* PartitionCube()
PartitionCube(t) ==
  /\ phase = "parallel" /\ adccntl[t].pc = "new"
  /\ LET tuplesAndSizes == [n \in 1 .. Len(viewSizes) |->
             [tuple |-> viewSizes[n].sel, viewsize |-> Min({viewSizes[n].size, par.tuplenum})]]
     IN  adccntl' = [adccntl EXCEPT ![t].pc = "views",
           ![t].groupbyFile = MultiFileProcJobs(HeapSort(tuplesAndSizes, "viewsize"), t)]
  /\ UNCHANGED <<run, par, phase, seed, tuples, viewSizes, critical, pvst, verified>>

-----------------------------------------------------------------------------
JobsOf(av, level) == layerIndex(level) .. layerIndex(level) + av.lpp[level] - 1

\* Parents that begin with the attributes of the view.
Prefixed(av, jobs, view) == {k \in jobs : av.jpp[k].grpb \cap 1 .. Max(view) = view}

\* Parents with the same first attribute.
SharedSort(av, jobs, view) == {k \in jobs : Min(av.jpp[k].grpb) = Min(view)}

NoParent == [kind |-> "none", job |-> NoJob]

\* GetParent(): in the first level with a view to make this one from, the
\* smallest of the best kind there is.
GetParent(av, view) ==
  LET supersets(level) == {k \in JobsOf(av, level) : view \subseteq av.jpp[k].grpb}
      levels == {level \in Cardinality(view) .. par.dim : supersets(level) # {}}
      all == supersets(Min(levels))
      found == IF Prefixed(av, all, view) # {} THEN [kind |-> "prefixed", of |-> Prefixed(av, all, view)]
               ELSE IF SharedSort(av, all, view) # {}
               THEN [kind |-> "sharedSort", of |-> SharedSort(av, all, view)]
               ELSE [kind |-> "smallest", of |-> all]
      fewest == Min({av.jpp[k].nRows : k \in found.of})
  IN  IF levels = {} THEN NoParent
      ELSE [kind |-> found.kind, job |-> av.jpp[Min({k \in found.of : av.jpp[k].nRows = fewest})]]

\* GetRegTupleFromBin64()
Attributes(view) == SortSeq(SetToSeq(view), LAMBDA a, b : a < b)

\* mutant: the parent is taken to begin with the attributes of the view.
PrefixTaken(view, parent) == [i \in 1 .. Cardinality(view) |-> i]

\* GetRegTupleFromParent(): where the attributes of a view are in its parent.
GetRegTupleFromParent(view, parent) ==
  LET attributes == Attributes(view)
  IN  [i \in 1 .. Len(attributes) |-> Cardinality({a \in parent : a <= attributes[i]})]

\* GetRecSize()
RecSize(nv) == 4 * nv + 8 * par.mnum

\* InitializeTree(): how many nodes the memory holds, on a machine of 64 bits.
nNodesLimit(nv) ==
  LET unpadded == 32 + 4 * (nv - 1) + 8 * par.mnum
  IN  par.memoryLimit \div (unpadded + IF unpadded % 8 = 0 THEN 0 ELSE 4)

\* InitAdcViewCntl(): the rows to read, with the selection made from each.
RowsToRead(av, view, parent) ==
  LET fromInput == parent = NoParent
      rows == IF fromInput THEN tuples
              ELSE SubSeq(av.viewFile[parent.job.viewOffset], 1, parent.job.nRows)
      selection == IF fromInput THEN Attributes(view) ELSE GetRegTupleFromParent(view, parent.job.grpb)
  IN  [i \in 1 .. Len(rows) |-> SelectToView(rows[i], selection)]

\* What ComputeGivenGroupbys() makes of a kind of parent.
Method(parent) ==
  IF run.OPTIMIZATION /\ parent.kind \in {"prefixed", "sharedSort"} THEN parent.kind ELSE "runFormation"

\* How it makes a view.
Computed(av, view) ==
  LET parent == GetParent(av, view)
      rows == RowsToRead(av, view, parent)
      made == GroupBy(rows)
  IN  CASE Method(parent) = "prefixed" ->
             PrefixedAggregate(rows, par.memoryLimit \div RecSize(Cardinality(view)))
        [] Method(parent) = "sharedSort" ->
             SharedSortAggregate(rows, SSA_BUFFER_SIZE \div RecSize(Cardinality(parent.job.grpb)),
                                 nNodesLimit(Cardinality(view)))
        [] OTHER -> [view |-> made, checksum |-> Checksum(made)]

\* JobPoolUpdate(), and what the loop of ComputeGivenGroupbys() does with a view;
\* the view was written at the end of the file.
ViewMade(av, view, computed) ==
  LET nv == Cardinality(view)
      made == computed.view
      k == layerIndex(nv) + av.lpp[nv]
      job == [grpb |-> view, nRows |-> Len(made), viewOffset |-> av.accViewFileOffset]
  IN  [av EXCEPT !.groupbyFile = Tail(@),
                 !.viewFile = (av.endOfFile :> made) @@ @,
                 !.endOfFile = @ + Len(made) * RecSize(nv),
                 !.jpp[k] = job, !.lpp[nv] = @ + 1,
                 !.accViewFileOffset = @ + Len(made) * RecSize(nv),
                 !.totchs = @ + computed.checksum,
                 !.viewSizesFile = Append(@, [view |-> view, rows |-> Len(made)]),
                 !.totalOfViewRows = @ + Len(made),
                 !.totalViewFileSize = @ + RecSize(nv) * Len(made)]

\* A turn of the loop of ComputeGivenGroupbys().
MakeView(t) ==
  /\ adccntl[t].pc = "views" /\ adccntl[t].groupbyFile # <<>>
  /\ LET view == Head(adccntl[t].groupbyFile).tuple
     IN  adccntl' = [adccntl EXCEPT ![t] = ViewMade(@, view, Computed(@, view))]
  /\ UNCHANGED <<run, par, phase, seed, tuples, viewSizes, critical, pvst, verified>>

\* The view cannot be made and ComputeGivenGroupbys() returns; when it is the
\* writing after RunFormation() that failed its rows have been counted.  DC()
\* reports it, and goes on.
FailView(t) ==
  /\ adccntl[t].pc = "views" /\ adccntl[t].groupbyFile # <<>>
  /\ LET view == Head(adccntl[t].groupbyFile).tuple
         counts == Method(GetParent(adccntl[t], view)) = "runFormation"
     IN  \E counted \in {0} \cup (IF counts THEN {Len(Computed(adccntl[t], view).view)} ELSE {}) :
           adccntl' = [adccntl EXCEPT ![t].totalOfViewRows = @ + counted, ![t].pc = "add"]
  /\ UNCHANGED <<run, par, phase, seed, tuples, viewSizes, critical, pvst, verified>>

\* A view whose size is neither the predicted one nor that of the input.
WrongSize(made, predicted) ==
  /\ made.view = predicted.sel
  /\ made.rows \notin {predicted.size, par.tuplenum}

\* ViewSizesVerification(): the last view in the list decides, unless one is wrong.
ViewSizesVerification(t) ==
  /\ adccntl[t].pc = "views" /\ adccntl[t].groupbyFile = <<>>
  /\ LET made == adccntl[t].viewSizesFile
         wrong == \E i \in DOMAIN made, j \in DOMAIN viewSizes : WrongSize(made[i], viewSizes[j])
     IN  adccntl' = [adccntl EXCEPT ![t].pc = "add", ![t].numberOfMadeViews = Len(made),
                       ![t].verificationFailed = IF made = <<>> \/ wrong THEN 1 ELSE 0]
  /\ UNCHANGED <<run, par, phase, seed, tuples, viewSizes, critical, pvst, verified>>

\* mutant: the critical section is entered by any number of tasks.
EnterTogether(t) ==
  /\ adccntl[t].pc = "add"
  /\ critical' = t
  /\ adccntl' = [adccntl EXCEPT ![t].pc = "added", ![t].totals = pvst]
  /\ UNCHANGED <<run, par, phase, seed, tuples, viewSizes, pvst, verified>>

\* The critical section of DC() is entered and the totals are read.
EnterCritical(t) ==
  /\ adccntl[t].pc = "add" /\ critical = NoTask
  /\ critical' = t
  /\ adccntl' = [adccntl EXCEPT ![t].pc = "added", ![t].totals = pvst]
  /\ UNCHANGED <<run, par, phase, seed, tuples, viewSizes, pvst, verified>>

\* What a task adds to the totals.
Added(totals, av) ==
  [verificationFailed |-> totals.verificationFailed + av.verificationFailed,
   totalNumberOfMadeViews |-> totals.totalNumberOfMadeViews
                              + IF av.verificationFailed = 0 THEN av.numberOfMadeViews ELSE 0,
   totalViewSizesInBytes |-> totals.totalViewSizesInBytes
                             + IF av.verificationFailed = 0 THEN av.totalViewFileSize ELSE 0,
   totalViewTuples |-> totals.totalViewTuples
                       + IF av.verificationFailed = 0 THEN av.totalOfViewRows ELSE 0,
   checksum |-> totals.checksum + IF av.verificationFailed = 0 THEN av.totchs ELSE 0]

\* The totals are written and the critical section is left.  CloseAdcView()
\* follows; nobody looks at what it changes.
LeaveCritical(t) ==
  /\ adccntl[t].pc = "added"
  /\ pvst' = Added(adccntl[t].totals, adccntl[t])
  /\ critical' = NoTask
  /\ adccntl' = [adccntl EXCEPT ![t].pc = "closed"]
  /\ UNCHANGED <<run, par, phase, seed, tuples, viewSizes, verified>>

-----------------------------------------------------------------------------
checksumS == 464620213

\* mutant: it is the failures of the tasks that count.
CountFailures(totals) == IF totals.verificationFailed = 0 THEN 0 ELSE 1

\* Verify(), for the classes that the runs have.
Verify(totals) ==
  CASE par.clss = "S" -> IF totals.checksum = checksumS THEN 0 ELSE 1
    [] OTHER -> -1

\* DC() after the parallel region.
Report ==
  /\ phase = "parallel" /\ \A t \in Team : adccntl[t].pc = "closed"
  /\ pvst' = [pvst EXCEPT !.verificationFailed = Verify(pvst)]
  /\ verified' = CASE Verify(pvst) = -1 -> -1 [] Verify(pvst) = 0 -> 1 [] OTHER -> 0
  /\ phase' = "reported"
  /\ UNCHANGED <<run, par, seed, tuples, viewSizes, adccntl, critical>>

CubeReturn == phase = "reported" /\ UNCHANGED cubeVars

CubeNext ==
  \/ NextTuple \/ PredictSizes
  \/ \E t \in Team : \/ PartitionCube(t) \/ MakeView(t) \/ FailView(t) \/ ViewSizesVerification(t)
                     \/ EnterCritical(t) \/ LeaveCritical(t)
  \/ Report \/ CubeReturn

CubeSpec == CubeInit /\ [][CubeNext]_cubeVars

-----------------------------------------------------------------------------
MadeBy(t) == {adccntl[t].viewSizesFile[i].view : i \in DOMAIN adccntl[t].viewSizesFile}
ToMakeBy(t) == {adccntl[t].groupbyFile[i].tuple : i \in DOMAIN adccntl[t].groupbyFile}
Started == {t \in Team : adccntl[t].pc # "new"}
Asked == {viewSizes[n].sel : n \in DOMAIN viewSizes}

\* The tasks, each of which deals all the views by itself and keeps its own,
\* agree: when the threads asked for are there every view is the job of one
\* task, and no task has two more than another.
EachViewOnce ==
  LET jobs(t) == MadeBy(t) \cup ToMakeBy(t) IN
  /\ \A t, u \in Started : t # u => jobs(t) \cap jobs(u) = {}
  /\ Started = Team /\ run.team >= nTasks =>
       /\ UNION {jobs(t) : t \in Team} = Asked
       /\ \A t, u \in 0 .. nTasks - 1 : Cardinality(jobs(t)) - Cardinality(jobs(u)) \in -1 .. 1

\* Whichever parent a view was made from, and wherever that parent was in the
\* file, its rows are the group-by of the tuples.
LastViewIsGroupBy ==
  \A t \in Team :
    adccntl[t].pc = "views" /\ adccntl[t].viewSizesFile # <<>> =>
      LET view == Last(adccntl[t].viewSizesFile).view
          offsets == DOMAIN adccntl[t].viewFile
      IN  adccntl[t].viewFile[Max(offsets)] =
            GroupBy([i \in DOMAIN tuples |-> SelectToView(tuples[i], Attributes(view))])

\* The sizes computed from the periods of the attributes, without the tuples,
\* are those the views come out with: no task reports a wrong size.
SizesAsPredicted ==
  \A t \in Team : \A i \in DOMAIN adccntl[t].viewSizesFile :
    \A n \in DOMAIN viewSizes : ~WrongSize(adccntl[t].viewSizesFile[i], viewSizes[n])

\* When the results are printed the totals are those of all the tasks that
\* verified their sizes, in whatever order and however close they added them.
TotalsAdd ==
  phase = "reported" =>
    LET sum(field) == MapThenSumSet(LAMBDA t : IF adccntl[t].verificationFailed = 0
                                               THEN adccntl[t][field] ELSE 0, Team)
    IN  /\ pvst.totalNumberOfMadeViews = sum("numberOfMadeViews")
        /\ pvst.totalViewSizesInBytes = sum("totalViewFileSize")
        /\ pvst.totalViewTuples = sum("totalOfViewRows")
        /\ pvst.checksum = sum("totchs")

\* The verification can be relied on: sizes and totals are as above, and though
\* a task that fails in the middle reports no failure and adds what it has, a
\* run of class S verifies just when all of its views have been made.
VerifiedWhenComplete ==
  /\ SizesAsPredicted
  /\ TotalsAdd
  /\ phase = "reported" /\ par.clss = "S" =>
       (verified = 1 <=> UNION {MadeBy(t) : t \in Team} = Asked)
=============================================================================
