--------------------------- MODULE ThreadMigration ---------------------------
(***************************************************************************)
(* A round of thread migrations, migrate() of the seven strategies in      *)
(* thread_strats/: choose threads and where they go, move them one by one, *)
(* and take everything back when one move fails.  It runs between two      *)
(* calls of the main loop (ThreadPlacement), so that nothing but the       *)
(* kernel acts while `phase' is not "idle":                                *)
(*   "search"   RM3D and annealing mutate the schedule `target';           *)
(*   "spin"     the loop that draws another node draws for ever;           *)
(*   "plan"     threads get a cell, a migration or an interchange;         *)
(*   "perform"  the cells of `plan' are performed, half by half;           *)
(*   "undo"     those of `done' are taken back;                            *)
(*   "review"   the same, at the start of a round of IMAR2, for those that *)
(*              have made their threads slower.                            *)
(*                                                                         *)
(* Performances, tickets and their sums are left out: what is compared     *)
(* with them may turn out either way.                                      *)
(***************************************************************************)
EXTENDS ThreadPlacement, Sequences

CONSTANTS
  Strategy,       \* the strategies that may be in use
  MaxMigrations   \* max_thread_migrations

NodeStrategy == {"NIMAR", "RM3D", "ANNEALING"}
CpuStrategy == {"CIMAR", "IMAR2", "LBMA", "RANDOM"}

ASSUME MigrationAssumption ==
  /\ Strategy \subseteq IF MigrateToNodes THEN NodeStrategy ELSE CpuStrategy
  /\ MaxMigrations \in Nat \ {0}
  /\ Node = 0 .. Cardinality(Node) - 1

VARIABLES
  strategy,   \* the strategy in use
  phase,      \* see above
  target,     \* dst_node of the threads of the schedule in hand
  moved,      \* migrated_pids_, the threads that are in a cell
  plan,       \* the cells to perform
  done,       \* last_migrations
  cur, half,  \* the next cell and half of it to perform or to undo
  ok,         \* have the halves tried of this cell succeeded?
  perf,       \* has last_performance a value?
  level,      \* current_time_value
  orphans     \* records retrieve() made of threads that had ended

choice == <<target, moved, plan>>
progress == <<cur, half, ok>>
history == <<done, perf, level, orphans>>
round == <<strategy, phase, choice, progress, history>>
mvars == <<vars, round>>

Half == [tid : Tid, dest : Place, prev : Place]

\* migration_cell::tids_involved()
TidsOf(cell) == {cell[i].tid : i \in 1 .. Len(cell)}

Simple(t, dst) == <<[tid |-> t, dest |-> dst, prev |-> PinnedPlace(t)]>>

\* The halves of an interchange: each thread goes where the other one is.
Interchange(t, s, dst) ==
  <<[tid |-> t, dest |-> dst, prev |-> PinnedPlace(t)],
    [tid |-> s, dest |-> PinnedPlace(t), prev |-> dst]>>

-----------------------------------------------------------------------------
(* The cells a thread may be given: get_migration() of each strategy.  Which  *)
(* one has most tickets is open, and whether it has more than staying put.    *)

\* best_pid_for_swap_node / _cpu: whoever has most tickets.
SwapWithAnyone(dst) == NotIdle(TidsAt(dst))   \* mutant: in a cell or not
SwapsAt(dst) == NotIdle(TidsAt(dst)) \ moved

MovesAndSwaps(t, free, dsts) ==
  {Simple(t, p) : p \in free \cap dsts}
    \cup UNION {{Interchange(t, s, p) : s \in SwapsAt(p)} : p \in dsts}

\* To another node, alone if that has fewer threads than CPUs.
NimarCells(t) ==
  LET free == {n \in Node : Cardinality(nodeTids[n]) < Cardinality(CpusOf(n))}
  IN MovesAndSwaps(t, free, Node \ {PinnedPlace(t)})

FreeCpus == {c \in Cpu : cpuTids[c] = {}}

CpusElsewhere(t) == {c \in Cpu : NodeOf[c] # NodeOf[PinnedPlace(t)]}

\* To a CPU of another node, alone if that is free.  These two take what has
\* most tickets, CIMAR only what has more than there are now.
Imar2Cells(t) == MovesAndSwaps(t, FreeCpus, CpusElsewhere(t))
LbmaCells(t) == MovesAndSwaps(t, FreeCpus, CpusElsewhere(t))
CimarCells(t) == MovesAndSwaps(t, FreeCpus, CpusElsewhere(t))

MaxNode == CHOOSE n \in Node : \A m \in Node : m <= n

\* rnd(0, max_node()): a node below the last.
DrawnNodes == {n \in Node : n < MaxNode} \cup {n \in Node : n = 0}

\* To a CPU drawn from those, the thread's own maybe; the thread to swap with
\* is drawn from all that are there, the thread itself maybe.
RandomCells(t) ==
  LET drawn == {c \in Cpu : NodeOf[c] \in DrawnNodes}
  IN {Simple(t, c) : c \in drawn \cap FreeCpus}
       \cup UNION {{Interchange(t, s, c) : s \in cpuTids[c] \ moved} : c \in drawn}

-----------------------------------------------------------------------------
(* The schedules of RM3D and annealing: schedule_t.                        *)

SourceNode(t) == NodeOf[proc[t].pinned_processor]

\* node_tid_map_[n]; the map has an entry for a node that has had a thread.
Scheduled(n) == {t \in NotIdle(Children) : target[t] = n}

HasEntry(n) == \E t \in NotIdle(Children) : SourceNode(t) = n

\* One step of the search, neighbour() and its acceptance, for a thread that
\* is drawn.  No node is left to draw for a thread of the only one below the
\* last; at() throws for one without an entry, and migrate() with it.
DrawForThread(t) == DrawnNodes \ {target[t]}

Neighbour(t) ==
  /\ phase = "search"
  /\ t \in NotIdle(Children)
  /\ IF DrawForThread(t) = {}
     THEN phase' = "spin" /\ UNCHANGED target
     ELSE \E n \in DrawForThread(t) :
            IF ~HasEntry(n) THEN phase' = "idle" /\ target' = [u \in Tid |-> 0]
            ELSE /\ UNCHANGED phase
                 /\ IF Cardinality(Scheduled(n)) < Cardinality(CpusOf(n))
                    THEN target' = [target EXCEPT ![t] = n]
                    ELSE \E s \in Scheduled(n) :
                           target' = [target EXCEPT ![t] = n, ![s] = target[t]]
  /\ UNCHANGED <<vars, strategy, moved, plan, progress, history>>

\* The same node is drawn again, and again.
Spin == phase = "spin" /\ UNCHANGED mvars

\* The best schedule of all that were accepted is the result: one of them.
EndSearch ==
  /\ phase = "search"
  /\ phase' = "plan"
  /\ UNCHANGED <<vars, strategy, choice, progress, history>>

\* schedule_t::migrations() for a thread that is to change node.
ScheduleCells(t) ==
  LET dst == target[t]
  IN IF dst = SourceNode(t) THEN {}
     ELSE IF Cardinality(Scheduled(dst)) < Cardinality(Cpu) \div Cardinality(Node)
     THEN {<<[tid |-> t, dest |-> dst, prev |-> SourceNode(t)]>>}
     ELSE {<<[tid |-> t, dest |-> dst, prev |-> SourceNode(t)],
             [tid |-> s, dest |-> SourceNode(t), prev |-> dst]>> :
             s \in {u \in SwapsAt(dst) : \E v \in Children : target[v] = SourceNode(t)}}
-----------------------------------------------------------------------------
(* The start of a round: migrate() up to perform_migration_algorithm().    *)

\* With no performance to speak of there is no round, and last_migrations is
\* kept; otherwise it is cleared and goes `on'.
Begin(s, on) ==
  /\ phase = "idle" /\ pc = "loop"
  /\ strategy = s
  /\ \/ perf' = FALSE /\ UNCHANGED <<phase, done>>
     \/ perf' = TRUE /\ phase' = on /\ done' = <<>>
  /\ UNCHANGED <<vars, strategy, moved, plan, progress, level, orphans>>

BeginNimar == Begin("NIMAR", "plan") /\ UNCHANGED target
BeginCimar == Begin("CIMAR", "plan") /\ UNCHANGED target
BeginLbma == Begin("LBMA", "plan") /\ UNCHANGED target
BeginRandom == Begin("RANDOM", "plan") /\ UNCHANGED target

\* A schedule starts with the threads where they are.
FirstSchedule == target' = [t \in Tid |-> SourceNode(t)]
SearchIfNodes == IF Cardinality(Node) = 1 THEN "idle" ELSE "search"

BeginAnnealing == Begin("ANNEALING", SearchIfNodes) /\ FirstSchedule
BeginRm3d == Begin("RM3D", SearchIfNodes) /\ FirstSchedule

\* compare_last_migrations() asks for the performance of every thread of the
\* last migrations, and so for its record, which retrieve() inserts if need
\* be: with its ancestors, or, when the thread has ended, below nothing.
RecallLast ==
  LET tids == UNION {TidsOf(done[i]) : i \in 1 .. Len(done)}
      found == {t \in alive \ known : Below(kparent, t) \cap tids \cap alive # {}}
  IN /\ orphans' = orphans \cup (tids \ (known \cup alive))
     /\ known' = known \cup found
     /\ parent' = [t \in Tid |-> IF t \in found THEN kparent[t] ELSE parent[t]]
     /\ \E sleeping \in SUBSET found, cpu \in [found -> Cpu] :
          /\ \A t \in found : cpu[t] \in RanOn(t)
          /\ proc' = [t \in Tid |-> IF t \in found THEN ReadStat(t, cpu[t], t \in sleeping)
                                    ELSE proc[t]]
     /\ UNCHANGED <<kernel, cpuTids, nodeTids, control>>

TimeGoUp == level' = IF level < 2 THEN level + 1 ELSE 2
TimeGoDown == level' = IF level > 0 THEN level - 1 ELSE 0

\* IMAR2 looks at what the last round has brought.
BeginImar2 ==
  /\ phase = "idle" /\ pc = "loop"
  /\ strategy = "IMAR2"
  /\ RecallLast
  /\ \/ perf' = FALSE /\ UNCHANGED <<phase, done, level>>           \* no performance
     \/ ~perf /\ perf' = TRUE /\ UNCHANGED <<phase, done, level>>   \* nothing to compare with
     \/ /\ perf /\ done # <<>>
        /\ phase' = "review" /\ TimeGoUp
        /\ UNCHANGED <<perf, done>>
     \/ /\ perf
        /\ phase' = "plan" /\ done' = <<>>
        /\ TimeGoUp \/ TimeGoDown
        /\ UNCHANGED perf
  /\ UNCHANGED <<strategy, choice, progress>>

-----------------------------------------------------------------------------
(* The choice of threads: perform_migration_algorithm().                   *)

AddCell(t, cells) ==
  /\ \E cell \in cells :
       /\ plan' = Append(plan, cell)
       /\ moved' = moved \cup TidsOf(cell)
  /\ UNCHANGED <<vars, strategy, phase, target, progress, history>>

PlanFor(s) == phase = "plan" /\ strategy = s

Room == Len(plan) < MaxMigrations

\* NIMAR, CIMAR and IMAR2 go through the threads that run worst.
PlanNimar == PlanFor("NIMAR") /\ Room /\ \E t \in Children \ moved : AddCell(t, NimarCells(t))
PlanCimar == PlanFor("CIMAR") /\ Room /\ \E t \in Children \ moved : AddCell(t, CimarCells(t))
PlanImar2 == PlanFor("IMAR2") /\ Room /\ \E t \in Children \ moved : AddCell(t, Imar2Cells(t))

\* LBMA and random draw the threads.
PlanLbma == PlanFor("LBMA") /\ Room /\ \E t \in Children \ moved : AddCell(t, LbmaCells(t))
PlanRandom == PlanFor("RANDOM") /\ Room /\ \E t \in Children \ moved : AddCell(t, RandomCells(t))

\* RM3D and annealing go through all threads of the schedule.
PlanSchedule ==
  /\ PlanFor("RM3D") \/ PlanFor("ANNEALING")
  /\ \E t \in Children \ moved : AddCell(t, ScheduleCells(t))

\* The schedule may not be worth its migrations.
EndPlan ==
  /\ phase = "plan"
  /\ IF strategy \in {"RM3D", "ANNEALING"}
     THEN /\ \A t \in Children \ moved : ScheduleCells(t) = {}
          /\ plan' \in {plan, <<>>}
     ELSE UNCHANGED plan
  /\ phase' = "perform"
  /\ UNCHANGED <<vars, strategy, target, moved, progress, history>>

-----------------------------------------------------------------------------
(* The migrations: the rest of migrate().                                  *)

\* simple_migration_cell::migrate(), which may find that the thread has ended.
RecordMoved(t, place) ==                    \* mutant: the record is moved first
  \/ MoveThread(t, place) /\ ok' = ok
  \/ /\ ~CanPin(t, place) /\ ok' = FALSE
     /\ proc' = [proc EXCEPT ![t] = PinnedAt(t, place)]
     /\ UNCHANGED <<affinity, cpuTids, nodeTids>>
MoveHalf(t, place) ==
  \/ MoveThread(t, place) /\ ok' = ok
  \/ ~CanPin(t, place) /\ ok' = FALSE /\ UNCHANGED <<affinity, proc, cpuTids, nodeTids>>

\* The second half of an interchange is tried whatever became of the first.
PerformHalf ==
  /\ phase = "perform" /\ cur <= Len(plan)
  /\ half <= Len(plan[cur])
  /\ MoveHalf(plan[cur][half].tid, plan[cur][half].dest)
  /\ half' = half + 1
  /\ UNCHANGED <<alive, kparent, known, parent, control, strategy, phase, choice, cur, history>>

\* After a cell that has failed no other is performed.
RetryCell ==                                \* mutant: it is performed again
  /\ phase = "perform" /\ cur <= Len(plan)
  /\ half > Len(plan[cur])
  /\ IF ok THEN cur' = cur + 1 /\ done' = Append(done, plan[cur]) ELSE UNCHANGED <<cur, done>>
  /\ half' = 1 /\ ok' = TRUE
  /\ UNCHANGED <<vars, strategy, phase, choice, perf, level, orphans>>
EndCell ==
  /\ phase = "perform" /\ cur <= Len(plan)
  /\ half > Len(plan[cur])
  /\ IF ok THEN cur' = cur + 1 /\ done' = Append(done, plan[cur]) /\ UNCHANGED phase
     ELSE phase' = "undo" /\ cur' = 1 /\ UNCHANGED done
  /\ half' = 1 /\ ok' = TRUE
  /\ UNCHANGED <<vars, strategy, choice, perf, level, orphans>>

\* undo_last_migrations(): every half goes back to prev(); whether it does is
\* only counted.
RedoHalf ==                                 \* mutant: the halves are not swapped
  /\ phase \in {"undo", "review"} /\ cur <= Len(done)
  /\ half <= Len(done[cur])
  /\ MoveHalf(done[cur][half].tid, done[cur][half].dest)
  /\ half' = half + 1
  /\ UNCHANGED <<alive, kparent, known, parent, control, strategy, phase, choice, cur, history>>
UndoHalf ==
  /\ phase \in {"undo", "review"} /\ cur <= Len(done)
  /\ half <= Len(done[cur])
  /\ MoveHalf(done[cur][half].tid, done[cur][half].prev)
  /\ half' = half + 1
  /\ UNCHANGED <<alive, kparent, known, parent, control, strategy, phase, choice, cur, history>>

\* Cells with a good balance are left alone in a review.
NextUndo ==
  /\ phase \in {"undo", "review"} /\ cur <= Len(done)
  /\ half > Len(done[cur]) \/ (phase = "review" /\ half = 1)
  /\ cur' = cur + 1 /\ half' = 1 /\ ok' = TRUE
  /\ UNCHANGED <<vars, strategy, phase, choice, history>>

\* What has been undone is cleared; the strategy object goes with its sets.
EndRound ==
  /\ \/ phase = "perform" /\ cur > Len(plan)
     \/ phase \in {"undo", "review"} /\ cur > Len(done)
  /\ phase' = "idle"
  /\ done' = IF phase = "perform" THEN done ELSE <<>>
  /\ moved' = {} /\ plan' = <<>> /\ target' = [t \in Tid |-> 0]
  /\ cur' = 1 /\ half' = 1 /\ ok' = TRUE
  /\ UNCHANGED <<vars, strategy, perf, level, orphans>>

-----------------------------------------------------------------------------
InitRound ==
  /\ strategy \in Strategy
  /\ phase = "idle"
  /\ target = [t \in Tid |-> 0]
  /\ moved = {} /\ plan = <<>> /\ done = <<>>
  /\ cur = 1 /\ half = 1 /\ ok = TRUE
  /\ perf = FALSE /\ level = 0 /\ orphans = {}

MInit == Init /\ InitRound

\* Identifiers come back only when no record has them (see Spawn).
KernelStep == Kernel /\ alive' \cap orphans = {} /\ UNCHANGED round

\* The other calls of the main loop; an update erases what cannot be read.
MainLoop ==
  /\ phase = "idle"
  /\ \/ Update /\ orphans' = {}
     \/ (ScanAborted \/ PinPass \/ SpreadMove \/ EndSpread) /\ UNCHANGED orphans
  /\ UNCHANGED <<strategy, phase, choice, progress, done, perf, level>>

BeginRound ==
  \/ BeginNimar \/ BeginCimar \/ BeginLbma \/ BeginRandom
  \/ BeginAnnealing \/ BeginRm3d \/ BeginImar2

Search == Spin \/ \E t \in Tid : Neighbour(t)

Plan ==
  \/ PlanNimar \/ PlanCimar \/ PlanImar2 \/ PlanLbma \/ PlanRandom \/ PlanSchedule
  \/ EndPlan

Perform == PerformHalf \/ EndCell \/ UndoHalf \/ NextUndo \/ EndRound

MNext == KernelStep \/ MainLoop \/ BeginRound \/ Search \/ EndSearch \/ Plan \/ Perform

MSpec == MInit /\ [][MNext]_mvars

\* migrate() runs to its end; the search makes MAX_ITER steps at most.
MFairSpec == MSpec /\ WF_mvars(Plan \/ Perform) /\ WF_mvars(EndSearch)

-----------------------------------------------------------------------------
(* Properties.                                                             *)

MTypeOK ==
  /\ TypeOK
  /\ strategy \in Strategy
  /\ phase \in {"idle", "search", "spin", "plan", "perform", "undo", "review"}
  /\ target \in [Tid -> Nat]
  /\ moved \subseteq Tid
  /\ plan \in Seq(Seq(Half)) /\ done \in Seq(Seq(Half))
  /\ cur \in Nat \ {0} /\ half \in 1 .. 3 /\ ok \in BOOLEAN
  /\ perf \in BOOLEAN /\ level \in 0 .. 2
  /\ orphans \subseteq Tid

\* No thread is in two of the cells of a round: each is where its cell takes
\* it for when it is moved, and taking the cells back in the order they were
\* made (and not the other way round) brings everyone home.
EachThreadOnce ==
  \A i, j \in 1 .. Len(plan) : i # j => TidsOf(plan[i]) \cap TidsOf(plan[j]) = {}

\* An interchange is of two threads, which are where it says: the maps the
\* second thread was taken from agree with the records.  (A thread that the
\* random strategy draws may be swapped with itself.)
SwapsAreReal ==
  phase = "plan" =>
    \A i \in 1 .. Len(plan) :
      LET cell == plan[i]
      IN /\ strategy # "RANDOM" => Cardinality(TidsOf(cell)) = Len(cell)
         /\ \A k \in 1 .. Len(cell) : cell[k].tid \in Children /\ PinnedPlace(cell[k].tid) = cell[k].prev

\* A round ends with every thread of its cells that is still alive where the
\* cell says, and a round that fails ends with those of the cells it had
\* performed where they were before, whatever the kernel did meanwhile.
PlaceRecorded(h) == IF phase = "perform" THEN h.dest ELSE h.prev

RoundEndsAsRecorded ==
  [][phase' = "idle" /\ phase \in {"perform", "undo"} =>
       \A i \in 1 .. Len(done) : \A k \in 1 .. Len(done[i]) :
         done[i][k].tid \in alive => PinnedPlace(done[i][k].tid) = PlaceRecorded(done[i][k])]_mvars

\* Whatever a strategy decides, a round does nothing to the tables and to the
\* threads that is not an update, a pinning pass, a balance or the move of a
\* listed thread by one system call: what holds of those in every order
\* (ThreadPlacement) holds in the middle of every round and undo.
StepsOfPlacement == [][Next]_vars

\* Every round ends: MAX_ITER bounds the search (annealing.hpp:56).
RoundEnds == phase # "idle" ~> phase = "idle"
=============================================================================
