# Verification of THANOS and of the benchmarks it runs

THANOS (`src/src`) starts a program on a NUMA machine, samples what its threads do with
hardware counters, and moves threads between CPUs or nodes and pages between nodes. It is
one process with one thread; what makes it hard is that everything it looks at changes
while it looks: tasks of the program start and end, are reparented and rescheduled between
any two system calls, memory is mapped and unmapped, signals interrupt it anywhere, and
counters fill buffers while they are read.

The repository also holds the programs that THANOS is tried on, the NAS Parallel Benchmarks
(`src/NPB3.4.2`). Three of them, DC, IS and DT, are C programs whose result is exact and
whose threads or processes interact; they, and the way all of them are built, are modelled
as well.

This directory holds TLA+ modules, the configurations that check them with TLC, and proofs
checked by TLAPS. Paths are relative to `src/src` for the tool and to `src/NPB3.4.2` for the
benchmarks.

## The system and its parts

| Part | State | Operations | Called by |
|---|---|---|---|
| life cycle, main loop (`main.cpp`) | `child_process`, times of the last update, balance, sampling | `run_program`, `main_loop`, `clean_end` (signal handler), options | the user, the kernel |
| process tree (`processes/process.hpp`, `process_tree.hpp`) | one record per task: parent, children, last CPU, pinned CPU and node, CPU use | `retrieve`, `insert`, `update`, `erase`, `pin`, `pin_node`, `unpin` | `system_info` |
| placement (`system_info/system_info.hpp`, `.cpp`) | `cpu_tid_map`, `node_tid_map`, topology | `update`, `scan_dir`, `set_tid_cpu`, `set_tid_node`, `pin_non_idle_threads[_node]`, `remove_invalid_data` | main loop, strategies |
| balance (`migration/strategies/thread_strategy.hpp`) | none of its own | `balance`, `balance_nodes`, `balance_CPUs` | main loop |
| thread strategies (`strategies/thread_strats/*`) | `last_migrations`, `last_performance` | `migrate`: choose, perform, undo | `migration::migrate` |
| tickets (`migration/tickets.*`) | weights | read, write, add | strategies, start, end |
| performance tables (`migration/performance/*`) | a row per thread, a row per page | `add_data`, `add_tids`, `remove_entry`, `clear_it`, `update` | samples, strategies, main loop |
| sampling (`samples/perf_event/*`) | descriptors and ring buffer per group and CPU, last values, enabled group, `PIDs_to_filter` | `init`, `rotate_enabled_counters`, `read_samples`, `emergency_reboot`, `end` | main loop, `clean_end` |
| memory regions (`system_info/memory_info.*`, `memory/*`) | regions and fake THPs by address | `update_memory_regions`, `region_from_address`, `move_pages` | main loop, memory strategies |
| memory strategies (`strategies/memory_strategy.hpp`, `memory_strats/*`) | none of their own | choose pages, prefetch, group by process, move | `migration::migrate` |
| benchmark DC (`NPB3.4-OMP/DC`) | tuples, a tree per task, files of chunks and views, totals | generate, sort, aggregate, merge, verify | its `main` |
| benchmark IS (`*/IS/is.c`) | keys, buckets, ranks | `create_seq`, `rank`, `full_verify` | its `main` |
| benchmark DT (`NPB3.4-MPI/DT`) | the graph, features and messages | `buildBH`, `buildWH`, `buildSH`, `ProcessNodes`, `verify` | its `main` |
| build (`*/sys`, makefiles) | `npbparams.h`, objects, `make.def` | `setparams`, the recipes of `make.common` | make |

The main loop calls, in each turn and when their time has come: `system_info::update` (and
a balance at once when threads are gone), the update of tables and of `PIDs_to_filter`,
rotation of counters, reading and processing of samples, a periodic balance, the thread
strategy and the memory strategy. Handlers share all of this state with it, without masks.

### What is hard, and what makes each part correct

- *Process tree*: tasks end in any order and are reparented, records keep the parent of
  their first scan, the recursive `erase` drops what is below a dead record. Correct: the
  records are exactly the tree below the root's, and ended tasks go.
- *Placement*: the two maps, the records and the kernel's masks are four copies of one
  fact, changed by functions with different rules, any of which can fail for a task that
  has just ended. Correct: a thread is counted in one place, where its record says, and is
  confined there.
- *Balance*: works on maps that its own moves change. Correct: it ends, and spreads threads.
- *Life cycle*: SIGCHLD is not queued and is shared with the `ps` commands; handlers nest.
  Correct: the tool ends with its program and not before it.
- *Main loop*: seven tasks with periods that options, charts and migrations adjust, served by
  one loop whose turns may throw. Correct: nothing that is needed is late by more than a turn.
- *Strategies*: several migrations chosen on one picture of the machine, then performed one
  by one. Correct: all done or all undone, nobody moved twice, and it ends.
- *Tables*: rows must be of threads that exist, what is kept for a node of that node.
- *Sampling*: rotation must reach each group; no sample is lost, read twice or taken from the
  middle of another; no growth of a counter is counted twice.
- *Memory*: a lookup by address finds the region that holds it, as it was read; chunks that cover each region once; no page
  moved on old samples.
- *DC*: a sort within bounded memory must give the group-by whatever the memory; views dealt to
  threads must be made once each, and the total must not depend on the threads.
- *IS*: ranks computed in shared arrays or by messages must sort the keys.
- *DT*: blocking sends and receives along a graph must not wait in a circle, and what reaches a
  sink must be what the graph says.
- *Build*: the program must be compiled from the header of its class, after interruptions and edits.

`PROJECT.json` lists the hazards at their lines, with the properties that would show them.

## Modules

| Module | Models |
|---|---|
| `ThreadPlacement` | process tree, placement and balance, next to a kernel with tasks and masks |
| `ThreadMigration` | a round of each of the seven thread strategies, on top of `ThreadPlacement` |
| `Lifecycle` | start and end of the program, signal handlers, helper commands, buffers freed by `end()` |
| `MainLoop` | options, the periods they leave, and the timing of the main loop |
| `SampleQueue` | abstract: samples come out in order, none twice |
| `SampleBuffer` | the ring buffer and `process_sample_buf()`; implements `SampleQueue` |
| `Sampling` | rotation of groups, failures and the emergency reboot, around a `SampleBuffer` |
| `PerfTable` | rows of the table of threads, against the process tree and late samples |
| `Memory`, `MemoryUsers` | regions, chunks, table of pages, the memory strategies; with a history of users |
| `Views`, `GroupBy`, `Aggregates` | what a view is; abstract: a view is made at once; views from smaller views |
| `RedBlackTree`, `ViewSort` | the tree of DC and the making of a view in bounded memory; implements `GroupBy` |
| `Heaps`, `Adc`, `DataCube` | the heap sort of DC; its generator; a whole run of it |
| `IntegerSort`, `OmpSort`, `MpiSort` | IS: what both versions share, threads, processes |
| `DGraph`, `DataTraffic` | DT: building the graph; the messages along it |
| `ClassSizes`, `SetParams` | what setparams writes for a class; the steps of make around it |
| `MC*` | small instances; `MCLifecycle`, `MCDataCube` and `MCNpb` also choose at the start which of several components, that do not interact, is run |
| `*_proofs` | theorems |

Three refinements are checked: `ThreadMigration` implements `ThreadPlacement` (`StepsOfPlacement`:
a round does nothing that is not a step of it), `SampleBuffer` implements `SampleQueue`
(`QueueOfSamples`), `ViewSort` implements `GroupBy` (`IsGroupBy`). The first two are proved too.

### ThreadPlacement

`alive`, `kparent` and `affinity` are the kernel's; `known`, `parent` and `proc` the process
tree (`processes_`, `parent_`, and the members of a record that something depends on);
`cpuTids` and `nodeTids` the two maps; `pc`, `left` and `share` where a balance is. A strategy
migrates to nodes or to CPUs (`MigrateToNodes`): one module covers both, since they share
the records and maps and differ in one call.

| Action | Code |
|---|---|
| `Spawn`, `Exit` | the program and the kernel |
| `Update` | `system_info::update`: scan, read, erase, clean the maps; a balance follows when threads are gone (`main.cpp:333-350`) |
| `ScanAborted` | the same cut short by an exception of `scan_dir`, caught in `main_loop` |
| `PinPass` | `balance` up to `balance_nodes` / `balance_CPUs` |
| `SpreadMove`, `EndSpread` | the loops of `balance_*` and `move_to_less_busy_*`, a move at a time |
| `StrategyMove` | `simple_migration_cell::migrate` called by any strategy |

Decisions a reader should know:

- *Atomicity.* `Update` and `PinPass` make many system calls. Each one touches one task, and
  commutes with what the kernel does to the others between the calls; what it does to the
  same task has happened before or after the call, and both orders are behaviours of the
  model as an `Exit` before or after the step. The moves of a balance are chosen from the
  maps that the previous one left, and a task may end between them: each is a step.
- *CPU use* is one bit, chosen freely in each update: idle or not.
- *Where a task last ran* is any CPU of its mask, or where it was seen before: the kernel
  moves a task some time after its mask changed (`process.hpp:100`).
- *`processor_` in node mode.* A strategy that migrates to nodes does not read it once a
  record is pinned; it is then kept equal to `pinned_processor_`, which removes states that
  differ in nothing else.
- *Task identifiers* are not used again while the tool has a record for them. Processes of
  a process that has ended leave the program (they go to `init`): a task is taken to end
  before the process that is its parent. The end of the root is the end of the tool,
  modelled in `Lifecycle`.
- A strategy may move any thread to any other place whenever the main loop is between two
  calls: what holds here holds for every strategy, those that undo included.

### ThreadMigration

A round runs between two calls of the main loop, so that nothing but the kernel acts while
`phase` is not `idle`. Each strategy has its own way of planning (`PlanNimar`, `PlanCimar`,
`PlanImar2`, `PlanLbma`, `PlanRandom`, `PlanSchedule` for RM3D and annealing after their
`Search`), which makes the `plan`, a sequence of cells of one migration or of the two of an
interchange; performing goes half by half (`PerformHalf`, `EndCell`), and a failure leads to
`UndoHalf` and `NextUndo` over `done`. `review` is IMAR2's look back. Performances, sums of
tickets and the temperature are left out: a comparison of them may turn out either way, so
what holds here holds for every weight. `orphans` are records that `retrieve()` makes of threads that
have ended.

### Lifecycle and MainLoop

In `Lifecycle`, `child` and `helper` are processes; `pending` has for each signal who sent the one that is
pending; `frames` is the stack of handlers; `main` is where the main program is, as finely as
the handler can tell: after `fork()` but before its result is stored, stored but not listed,
in `ps`, between clearing and filling `PIDs_to_filter`, inside an emergency reboot. `fds` says
of each sampling buffer whether `all_fds` has nothing, an entry that is listed, attached or open,
or one already freed. `Enter`, `EndFrees` and `EndExits` are `clean_end()`.

In `MainLoop`, the options come first (an action for each kind), `StartLoop` is what `main()`
and `main_loop()` derive from them, and each task of a turn is an action that takes some time
and may throw. Time is counted in ticks from the start of a turn; `age[t]` is how long before that
start task t was last begun.

### Sampling

Positions of `SampleBuffer` are bytes, as `data_head` and `data_tail` are. The header of a
record and its body are read in two calls between which the kernel writes on; bodies of
records that the reader does not read are taken for headers, which the model does too. `got` and
the last values say what came out. `Sampling` gives the groups their turns and starts sampling anew
after too many failures. A failing `ioctl` ends the tool and is in `Lifecycle`. What a sample
measures is a count that only grows. `NUM_AVAILABLE_COUNTERS` grows with each reboot but is only
used as a minimum with the number of hardware counters. The order in which the processor makes
`data` and `data_head` visible is outside.

### PerfTable and Memory

`PerfTable` has the steps of the main loop that touch rows (`phase`), the process tree as the
set `known`, and the buffers as the kinds of sample that wait in them. Amounts, decay and averages
are left out; `since` and `measured` are histories of what samples a performance may rest on.

`Memory` reads `maps` and `numa_maps` one after the other while the program maps and unmaps,
looks addresses up as `lower_bound()` and what follows it do, cuts regions into chunks, counts
samples by page or chunk, lets one of three strategies choose pages (`Choose`, `PassOver`,
`Draw`) and moves them process by process (`Perform`). A process that has gone has no
regions; `move_pages` fails as a whole or leaves any page. Statistics are left out. `shown` is a history of what each
process had mapped when its `maps` was last read, `since` and `seen` of the samples of each page since it last led a cell.

### DC, IS, DT and the build

`ViewSort` makes one view: rows go into the tree of `RedBlackTree` (nodes, colours and the recorded path
of `TreeInsert`, whose loop of recolourings is a function of its turns), a full tree is written as a sorted chunk, chunks are merged through parts of the
memory. `DataCube` deals views to threads, with each view one step that is the `GroupBy` or a
failure, `Aggregates` being what the optimized build does instead (undefined for a part of a shared-sort view that fills the
tree, so that TLC would stop at one: see Observations); the model computes the class
S checksum of the code. `OmpSort` has a step for each element that is moved to a shared array, a barrier is
a condition on the places of the others. `MpiSort` has a step for what a process does between two
collective operations; how many processes have their buckets when so many were looked at (`Served`) is a function of the running sum. `DGraph` builds the graphs node by node as the code does; `DataTraffic`
runs them with sends that wait or not. `SetParams` has the recipes of make as steps that may be
interrupted, with files as what they were made of; `ClassSizes` the numbers.

In `DataTraffic`, `wire` holds the messages that were sent and not received, `received` and `sent` count those a process has done with
(each feature is a message of its length and one of its values), `reports` is what the first process has heard of each sink;
an eager send leaves its message on the wire and goes on, any other blocks its sender (`Blocked`). `WaitsFor` is whom a
process waits for, and `WaitsLeadToWork` that among any set of those who wait is one who waits for somebody outside the set who has not
ended. `Flow` is what the graph says a node is to have when the first of its arcs have been followed.

## Runs

| Run | Shows | Size |
|---|---|---|
| `placement_node` | node strategies: tree, maps, records and masks agree | 3 tasks, 2 nodes of 1 CPU; 88 thousand states |
| `placement_live` | balances end, threads get pinned, dead records go | 2 tasks, 3 CPUs on 2 nodes |
| `migration_node` | NIMAR, RM3D, annealing: nobody in two cells, rounds end as recorded, each step is one of placement | 3 tasks, 3 CPUs on 2 nodes |
| `migration_cpu` | CIMAR, IMAR2, LBMA, random: map of CPUs, interchanges of two real threads, rounds end | 2 tasks, 2 CPUs |
| `lifecycle` | the tool ends for the right signals only, and for every SIGCHLD of its program that stays pending; no task of the loop is late; rows have records, and performances are of their thread and node | 2 signals from outside, 2 buffers; 1 option; 2 threads, 2 nodes; 901 thousand states |
| `lifecycle_hang` | **violated**: the program ends and the tool does not | 2 buffers |
| `sampling` | samples in order and once, growth counted once, reads end, groups take turns | 1 task, 3 groups, a buffer little longer than a sample |
| `memory` | what a lookup finds holds the address and is as it was read; chunks; moves paid by new samples, sent where seen | 1 process, 2 threads, 4 pages; 3.1 million states |
| `memory_lookup` | **violated**: the row of a page that is mapped is dropped as non-valid | TMMA, 2 samples |
| `memory_favourite` | **violated**: a page does not go to the node that uses it most | the same |
| `data_cube` | one view is the group-by in any memory; runs make every view once and verify | below; 154 thousand states |
| `npb` | IS sorts, DT does not deadlock and computes what its graph says, programs are of their class | below |

### Bounds

*Placement and migration.* Three tasks give a child, a grandchild and a reparented task, a node with more than
its share and a second one with less; the root is always one of them. Two nodes are enough
for every disagreement of two sets and a record. Two CPUs on one node tell a change of CPU
from a change of node. `migration_node` starts after the first update and pass of pinning
(`Settled`), and a program that starts no further threads and stays as busy as it was found
(`SteadyProgram`); `migration_cpu` lifts this for IMAR2, which looks back on earlier rounds. The
theorems have none of these bounds.

*Lifecycle.* One process of each
kind is enough, since the tool waits for each `ps` before the next; two signals from outside
of different numbers nest in each other and in SIGCHLD; two buffers make `end()` interruptible
in the middle. `MaxUserSignals` is the only counter that is bounded.

*MainLoop.* Ticks keep the order of the default periods (0.1, 0.5, 1 s), not their ratio. Options ask
for 0 or 2 ticks, shorter and between the defaults; TLC takes one option, the proof any number. `MaxDelay` ticks
of work and late wake-ups in all, `MaxThrows` exceptions; ages above `MaxAge`, more than any
sum of the rest, are not told apart.

*Sampling.* A buffer of 136 bytes is one sample and a lost record: it wraps inside headers and
bodies. The kernel writes up to `MaxHead` bytes, nearly twice round. `BodySizes = {0}` are the first 2^48 ns
(78 hours) after a boot and threads with numbers below 2^16, for which no body looks like a header with a size; the words of other
bodies might be taken for a sample, and `QueueOfSamples` says nothing of them. Three groups of which one counts at a time take turns.

*PerfTable.* Only one thread has samples (`Busy`), two kinds wait at most; one grade of performance.

*Memory.* A page has two addresses; `SAMPLES_ENOUGH_INFO` is scaled to 1; batches of 2 samples,
4 in all, the program changes its layout once. One process: regions of several share one map by address.

*DC.* Views of up to six rows of three keys, and of nine keys in orders that rotate and recolour at every level, in six memories
from one node up to all rows, with `MAX_NUM_OF_CHUNKS = 5`. Class S is as it is, 1000 tuples and 31 views,
by one task, with a team of one thread for two tasks, and optimized with a parameter file. Smaller runs of class U (other
parameters; make builds none) have up to three threads with `MAX_NUMBER_OF_TASKS = 2`; the
list of primes and `SSA_BUFFER_SIZE` are cut. One measure.

*IS.* 32 keys of 16 values in 8 buckets, numbers of 10 bits for the generator's 46, two iterations; teams of 1 to 3, 1 to 4
processes; several seeds, of which some overflow the buffers of a process ("undefined", where it stops).
The test ranks of the partial verification are computed from the reference keys.

*DT.* BH and WH of class S with three choices of sends that do not wait, SH with all that wait; the graphs of larger
classes are built and compared. A node a process. Features are terms: their length and what they were made of. Products wrap at 32 bits.

*Build.* Make is asked for classes S, A, F (unknown) and U, `make.def` edited once, subtypes of BT none, FULL and EPIO. Times of
files are one bit each, newer or not. Lines of the header are in pieces of `MAXL = 4`.

### Fairness

`placement_live` assumes WF of the steps of a balance (they do not block), SF of
`Update` and of `PinPass`: the main loop compares the time gone by in every turn, so both come
again and again, but not while a balance runs. SF of `Update` assumes that scans are not
interrupted for ever by tasks that end (`ScanAborted`). Nothing is assumed of the program.
`migration_cpu` assumes WF of the steps of a round, and of the end of a search, which `MAX_ITER`
bounds. `sampling` assumes WF of the tool's own steps; the kernel's are bounded by `MaxHead`.
`lifecycle` assumes that the tool is scheduled, that a pending and unblocked signal is
delivered, and that `ps` ends; the program need not end. That `ViewSort` ends (`LoopsEnd`) is stated by a
variant instead: every step lowers it.

Operators marked `mutant:` stand next to the definitions they are plausible mistakes of; no
specification uses them. Each property of a passing run is violated when one of them
replaces its neighbour (`PROJECT.json`, `mutants`).

### What the violated runs say

- `lifecycle_hang`: SIGCHLD of the program is lost behind that of `ps`, or comes before
  `child_process` is set.
- `memory_lookup`: `lower_bound()` is past the last region for every address inside it, so `region_from_address()` and
  `contains()` find none, and `clear_it()` drops rows of pages that are mapped. The last region that both
  files list for a Linux process is a small one of the kernel (vdso), so few pages are concerned.
- `memory_favourite`: a row counts an access at the node where the page is, not at that of the CPU that
  made it, so the page is sent where it was.

## Proofs

Every theorem holds for all values of the constants that satisfy the named assumptions of the
modules (`*Assumption`): any number of tasks, CPUs and nodes, pages, signals, options, any graph
of DT. What an assumption says beyond types: no node of a machine is without CPUs, TIDs are
positive and a program has a thread (`MachineAssumption`, `TidAssumption`, `MemoryAssumption`); a buffer holds more than a record of each kind and
positions do not wrap (`BufferAssumption`); regions of a process are disjoint, of whole pages, and
each begins below where it ends (`KernelAssumption`); the test keys of IS are keys, both altered keys lie in the arrays and in
range, seeds are below 2^46, and each process of IS has more than two keys an iteration (`SizesAssumption`, `OmpAssumption`, `MpiAssumption`); a run of DC has attributes and is asked to have threads
(`RunsAssumption`); the rows a view is made from have equally many attributes (`InputsAssumption`), and the memory has room for a node
(`MemoriesAssumption`).

| Module | Theorems | Argument |
|---|---|---|
| `ThreadMigration_proofs` | of `ThreadPlacement`: `TypeCorrect`, `TreeStaysConnected`, `OnlyListedAreMapped`, `NodeMapAgrees`, `CountedAreConfined`, `PlaceFollowsMask`, `CpuMapAgrees` | (1) |
| | `RoundTypeCorrect`, `RoundsArePlacement`, `RoundsListThreads`, `RoundsKeepNodeMap`, `RoundsKeepCpuMap`, `ThreadsMoveOnce`, `SwapsAreOfRealThreads`, `NodeRoundsEndAsRecorded` | (2) |
| `Lifecycle_proofs` | `TypeCorrect`, `EndsWithItsProgram`, `OutlivesItsProgram`; of `MainLoop`: `LoopTypeCorrect`, `TasksAreOnTime`; of `PerfTable`: `TableTypeCorrect`, `RowsInTree`, `PerfsMeasured` | (3), (4), (6) |
| `Sampling_proofs` | `TailStaysInRange`, `BufferIsQueue`, `NothingCountedTwice`, `SampledBuffers` | (5) |
| `Memory_proofs` | `TypeCorrect`, `FoundRegions`, `ChunksCoverRegions`, `MovesPaid`, `SentSeen` | (7) |
| `Npb_proofs` | `BinariesAreOfTheirClass`, `NobodyWaitsInVain`, `SinksGetTheFlow` | (8), (9) |
| `IntegerSort_proofs` | `KeysOfThread`, `OmpSorts`, `MpiSorts` | (10), (11) |
| `DataCube_proofs` | `ViewsMadeOnce` | (12) |
| `ViewSort_proofs` | `TreeStaysBalanced` | (13) |

1. *Placement.* The records form a tree below the root's (`RecordTree`) because the kernel's tasks
   do (`KernelTree`) and a scan reads all of what is below a task. "Below" is the least set closed under
   children; most lemmas are about what changes it. The maps hold threads of that tree. A map of nodes
   agrees with the records only together with what a pinned record says
   of itself (`PinnedRecords`), and a live thread that it counts has that node's CPUs in its mask. The theorems about
   nodes are for strategies that migrate to nodes: with CPUs, the node in a record may be wrong (`process.hpp:509`).
2. *Rounds.* Every step of a round is a step of `ThreadPlacement`, so that its invariants hold in the middle
   of a round too. The one that needs an argument is a move: its thread must have a
   record (`RoundRecords`). That a cell names the place its thread is in rests on maps and records agreeing when the plan
   is made (`MapsAgree`, `RealInv`) and on nobody being in two cells (`Once`); that a round ends as recorded on what has been
   performed, or undone, so far (`PerformedSoFar`, `UndoneSoFar`). `NodeRoundsEndAsRecorded` is not stated for strategies that
   migrate to CPUs: there `pin()` refuses nothing for a thread last seen on the CPU asked for and leaves the record (`process.hpp:495`).
3. *Life cycle.* The invariant says of every handler on the stack what was true when it was entered and
   still is (`FramesOK`): nothing changes the list of threads under a handler, and an ended program stays ended.
4. *Main loop.* Options leave periods that are no longer than any user of a task asks for (`SettingsOK`); in a
   turn no task behind the present one is due, and no task's age is more than its period and a turn (`TurnOK`).
5. *Sampling.* The reader stays behind the kernel's head whatever it takes for a header. While bodies show a size of
   zero (`ZeroBodies`), the records in memory are whole, do not overlap, and grow along the buffer
   (`Framed`), from which each read is a step of `SampleQueue` or a stutter. Rotation, failures and reboots do nothing else to a
   buffer (`SampledBuffers`).
6. *Rows.* All threads of the list to accept have records whenever samples are read (`FilterIsKnown`); what a row says it
   has came since the last clearing (`DataIsRecent`).
7. *Memory.* A row may be dropped and begun again while the history of its page goes on; the invariant bounds the row by the
   history (`TableInv`). Regions in the tool's map are those of one reading of `maps`, cut as `numa_maps` has them
   (`RegionsInv`), so they are disjoint, and chunks of disjoint regions are. That chunks cover is for a program of one process (`OneProcess`):
   the map is keyed by address only, and two processes hide each other's regions. That what is found is a region as it was read
   is for any number: between the two files every entry of `maps` is of the process being read, which is still left (`ReadingIsLeft`),
   and every entry of the map is of one read before in this update (`ShownInv`). That every address of a region is found is not so (`memory_lookup`).
8. *Build.* All make has to go by is which files are newer. A header with its first line is complete, a new one is of the present
   `make.def`, new objects are of the header (`FilesOK`), and each step of a recipe knows what the one before left (`StepsOK`).
9. *DT.* The hypothesis, `WellOrdered`, is that arcs lead from lower to higher numbers, that a node lists its incoming arcs in
   the order of the nodes they come from, one from each, and that sinks send nothing on; that the code's graphs are such is what
   `ResultsAreFlow` checks by `GraphsAreRight` in run `npb`, for BH, WH and SH of classes S, W, A and B. A message is known by its place at its sender and by its
   place at its receiver, and what is on its way is what was sent and not received, counted at either end (`WireOK`). Of those who
   wait to receive, the one that waits for the least sender does not wait in vain: that sender would have to wait to
   receive from a lesser one, or to send to a process that waits for a lesser one (`NoCircle`). It holds whichever sends
   wait for their receiver. What a process has got is what flows along the arcs it has received from (`FlowOK`); the flow is defined by
   recursion over nodes and arcs, and that it is defined is shown first (`FlowExists`).
10. *IS with threads.* `OmpSorts` is for every size of the problem, seed, number of threads and order of their steps, built with
   buckets or without. The keys: `randlc` multiplies modulo 2^46 (`RandlcIs`), so squaring and stepping come to the number where a
   thread's part begins (`OmpSeedIs`) and the threads together make the keys of the serial code (`KeysOfThread`); that the stream is defined,
   and that a loop which makes it makes nothing else, is `IterationExists` and `IterationIs`. The places: that of a key is the number of keys before
   it in the order of buckets and indices (`PlaceOf`), so no two keys have the same one (`PlacesAre`), and the keys of a bucket have the places
   between two pointers (`PlacesOfBucket`). The sums over threads and buckets are sizes of sets that are apart (`SumOfSizes`, `SharesAddUp`,
   `BucketsAddUp`). The invariant `OmpInv` says of every thread how much of its share it has made (`Created`), counted (`Counted`), pointed to
   (`Pointed`), moved (`Moved`), ranked (`Ranked`, `Added`) or sorted (`SortedSoFar`); what a thread needs of the others is that a barrier is
   between (`Barriers`). A key that is moved goes where the number of keys before it says, which nobody else's does: that is why no two
   threads meet in `key_buff2`. It needs the bucket pointers as they are *after* the moves so far, not as they were computed.
11. *IS with processes.* `MpiSorts` is for every size, seed and number of processes that leaves each more than two keys an iteration
   (`MpiAssumption`: the alterations are then of the first process's own keys), and rests on the same lemmas about keys. The processes' parts
   are apart and together all the keys (`PartsOfKeys`), so in call `r` of `rank()` all have `KeysAt(first_number, r)`. Every key has a
   place of its own in a buffer (`SlotsOfPart`), and what one process sends another are the keys of the other's buckets. Buckets are given out
   in order and all that have keys are given: a process has all keys of its values, and those before it have all the lesser ones
   (`LesserIs`), so that its ranks and theirs add up and its keys are a range of the places of all. The invariant `MpiInv` says how far the processes are from
   each other (`Lockstep`), that totals, buffers, keys and ranks are those of the call a process has come to (`OfProcess`, `TotalsRight`),
   what it has sent to the next one (`LastSent`), and how many test keys were found right (`Credited`). Two things stand in the way of the
   verification, and are premises in the property: a test key that is the first of an interval, whose entry below is not of the array
   (`LowestTested`; `is.c:845`), and a process without keys before one that has some, which sends any key to it (`IdleBetween`; `is.c:588`,
   against the comment at line 711, "no processors are left idle").
12. *DC.* `ViewsMadeOnce` is for every number of attributes, tuples, tasks and threads, and whatever views fail. Every task sorts all
   views and deals them by itself. The views are different ones: the digits of a number determine it (`AttributesApart`, from
   `Halves`), and the heap sorts, whatever they compare, only make entries change places (`SwapArranges` to `HeapSortArranges`). The recursive
   functions of `HeapSort` and `Dealt` are defined because a function with their steps exists (`StepsExist`, `DealtIs`).
   Whose turn it is does not depend on who deals (`TurnsAgree`), so no view goes to two tasks and each to one (`DealtAreOwn`); on its
   way to or fro the turn passes by every task once (`TurnGoesOn`), so after any number of turns tasks differ by one view at
   most (`DealtEvenly`). The invariant `CubeInv`: from when a task has dealt the views, those it has made and those in its file
   are its share (`SharesAreFair`). It says nothing about a task that has not begun: with fewer threads than tasks, shares are left
   over, which is why the property asks for as many threads as tasks.
13. *The tree of DC.* `TreeStaysBalanced` is for all rows with keys of one length, in every order, and all sizes of memory. A tree is
   linked (`Linked`) when every node has a set of nodes below it, its own and those of its two children, that come before or after it
   as the side says; the sizes of these sets are what an induction from the leaves up (`TreeInduction`) and the
   recursive functions over a tree (`TreeRecursion`) descend by, the recorded path of `TreeInsert` among them (`PathIs`). Hanging a node below the
   end of the path adds it to the sets on the way (`GrownIsTree`), a rotation changes two of them (`RotatedIsTree`), colours change none. As for the colours,
   the invariant of the loop (`LoopIsAt`) is that the ways down have equally many black nodes and that the only red
   node with a red father is the one below the place on the path where the loop is; each turn that recolours takes that place two levels
   up (`RecolouredIs`), and what follows leaves no such node (`RotatedIsRight`, `RebalancedIs`). In between, the
   double rotation is neither a search tree nor one with a root for every node until its last assignment, so it is
   looked at as two rotations one after the other. The height is at most twice the number of black nodes (`HeightIs`), of which `b` need `2^b - 1` nodes
   (`BlacksAreFew`). `TreeInv` needs besides that all rows have keys of one length (`InputsAssumption`), which `KeyComp` compares.

Type invariants are not properties of runs: they are theorems, or parts of the inductive invariants.

Induction over numbers is done without the library's scheme: a property that fails for some number
fails for a least one (`LeastNumber`, `LeastIn`; `Induct` for sets of numbers), from the well-foundedness of strict inclusion or of `<`.

Only model-checked:

- Liveness under fairness (`BalanceEnds`, `ThreadsGetPinned`, `DeadAreForgotten`, `PendingEndIsSeen`, `RoundEnds`, `ReadEnds`,
  `GroupsTakeTurns`): TLAPS has no rules for it here, nor for `ENABLED`.
- DC (`IsGroupBy`, `LoopsEnd`, `LastViewIsGroupBy`, `VerifiedWhenComplete`): that the rows that come out have the sums of those that
  went in is about sums over sequences, defined with operators as parameters, and class S verifies with one computed number.
- `HeaderIsRight`: numbers of fixed classes, computed.

## Observations

What was met while modelling, and is not a property of a run:

- `process.hpp:509`: `pin()` takes the node of `processor_`, not of the CPU it pins to, against the comment at line 102.
- `process.hpp:495`: `pin()` returns true at once for a pinned thread last seen on the CPU asked for; the
  loop of `move_to_less_busy_cpu` (`thread_strategy.hpp:702`) takes this for a move and may never end.
- `system_info.hpp:88,126`: a move erases the thread from the map of its target where one would expect an insert; it is counted
  nowhere until the next pinning, so a balance may fill one node while another is empty (`thread_strategy.hpp:656`).
- `thread_strategy.hpp:462`: `neighbour()` draws a node other than the thread's own with `rnd()`, which leaves
  its upper bound out: with two nodes, annealing never ends.
- `perf_event.cpp:420,694`: SIGCHLD during `emergency_reboot()` frees the buffers again.
- `perf_event.cpp:155,546`: events are listed before they are opened; the comment on enabling says otherwise than the code.
  Repeated reboots start the rotation at the same group and starve the others.
- `cmd.hpp:38`: the last character of an empty output of `ps` is read.
- `main.cpp:130`: tickets are written to the file they were to be read from, so `-I` has no effect; a failure to read does not
  throw. `-w` is accepted by `getopt` and ends the tool as unknown; `--memory-prefetch` without a value passes a null pointer on;
  an unknown option exits successfully.
- `memory_strategy.hpp:146`: candidates are sorted, then all taken. `memory_info.hpp:122`: the status of each page after
  `move_pages` is not looked at. The table of pages is keyed by address only; a page may be in two cells (`tmma.hpp:52`);
  running averages are of integers (`mempages_table.hpp:118`).
- `tid_perf_table.hpp:274,291`: `mean_perf_pid_` accumulates over calls. `rm3d.hpp:140-146`: marks of nodes without enough data stay.
- DC: the keyword list of the parameter file is one off from its cases (`adc.c:426-441`), so the class line sets the file's name and
  `INVERSE_ENDIAN` is ignored, against section 6 of `DC/README`; the checksum of a prefixed view restarts with every buffer
  (`extbuild.c:266,292`); a part of a shared-sort view that fills the tree goes through
  chunks, whose number is not reset after they are merged, while the number of rows is (442): the job then has the rows of the last
  part only, later views are read at wrong offsets, and later chunks may be written elsewhere than they are read (`extbuild.c:147-199`); a memory of less than one node is not refused; offsets are 32 bits (965);
  a failed `NewAdcViewCntl` is used (`dc.c:216-221`) and `tm_max` read before it is set (240).
- IS: a process without keys sends on what its array happens to begin with (`is.c:588` of MPI), which the next one compares with; a pointer below its array (845).
- DT: `verify()` leaves class B unverified though `DT/README:9` lists it (`dt.c:117-127`); `CombineStreams` reads uninitialized
  values (549); `len*(id+1)` overflows for class D (423).
- Build: a parallel make may compile before the header is written; common objects of MPI do not depend on `make.def`
  (`make.common:24-44`); switching VERSION of BT leaves `bt_data.o`.

## Not modelled

Parsing and printing, the arithmetic of averages, tickets and of the annealing temperature (floating
point), tickets' files (their evolution is compiled in but a constant turns it off), the exported CSV files, the third-party table library, `multithread`, the scripts, and
the Fortran benchmarks, numerical kernels in floating point of which only the sizes by class are
here. Memory of the C++ containers while a handler interrupts them is below the level of these models.
