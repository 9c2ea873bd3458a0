--------------------------- MODULE ThreadPlacement ---------------------------
(***************************************************************************)
(* Where the tool believes the threads of its child program are, and where *)
(* the kernel lets them run: the process tree (process.hpp,                *)
(* process_tree.hpp), the two maps cpu_tid_map and node_tid_map            *)
(* (system_info.hpp) and the balance of thread_strategy.hpp, next to a     *)
(* kernel in which tasks are created, exit, are reparented and rescheduled *)
(* between any two system calls of the tool.                               *)
(*                                                                         *)
(* The tool is one thread.  `pc' says what it is doing:                    *)
(*   "loop"     the main loop, between two calls;                          *)
(*   "balance"  update() has lost threads: a balance comes next;           *)
(*   "spread"   balance_nodes / balance_CPUs, over the places in `left'.   *)
(* A place is a node or a CPU, as migrate_to_nodes() of the strategy says. *)
(*                                                                         *)
(* Update and PinPass make many system calls in one step.  Each call reads *)
(* or sets one task, and what the kernel does to other tasks in between    *)
(* commutes with it: a task that exits before its call has exited before   *)
(* the step, one that exits after it exits after the step.  The moves of   *)
(* a balance do not commute with exits: each is a step.                    *)
(***************************************************************************)
EXTENDS Integers, FiniteSets

CONSTANTS
  Tid,             \* identifiers the kernel gives to tasks of the program
  Root,            \* child_process, the program the tool starts
  Cpu, Node,       \* allowed_cpus(), allowed_nodes()
  NodeOf,          \* cpu_node_map
  Distance,        \* numa_distance
  MigrateToNodes   \* migrate_to_nodes() of the strategy in use

CpusOf(n) == {c \in Cpu : NodeOf[c] = n}   \* node_cpu_map

ASSUME TidAssumption ==
  /\ Tid \subseteq Nat \ {0}
  /\ IsFiniteSet(Tid)
  /\ Root \in Tid

\* detect_system() gives up when a node has no CPU.
ASSUME MachineAssumption ==
  /\ Cpu \subseteq Nat /\ IsFiniteSet(Cpu)
  /\ Node \subseteq Nat /\ IsFiniteSet(Node) /\ Node # {}
  /\ NodeOf \in [Cpu -> Node]
  /\ \A n \in Node : CpusOf(n) # {}
  /\ Distance \in [Node -> [Node -> Nat]]
  /\ MigrateToNodes \in BOOLEAN

VARIABLES
  alive,      \* tasks of the program that exist
  kparent,    \* the task under which /proc lists a task
  affinity,   \* the CPUs the kernel lets a task run on
  known,      \* processes_ : the tasks with a record in the tree
  parent,     \* parent_ of a record
  proc,       \* the other members of a record
  cpuTids,    \* cpu_tid_map
  nodeTids,   \* node_tid_map
  pc,         \* see above
  left,       \* places balance_nodes / balance_CPUs has still to visit
  share       \* min_tids_per_node / min_tids_per_cpu

kernel == <<alive, kparent, affinity>>
tables == <<known, parent, proc, cpuTids, nodeTids>>
control == <<pc, left, share>>
vars == <<kernel, tables, control>>

NoParent == 0

Proc == [processor : Cpu, pinned : BOOLEAN, pinned_processor : Cpu,
         pinned_numa_node : Node, idle : BOOLEAN]

Least(S) == CHOOSE x \in S : \A y \in S : x <= y

AnyCpu == Least(Cpu)

\* The value of proc[t] when t has no record.
Blank == [processor |-> AnyCpu, pinned |-> FALSE, pinned_processor |-> AnyCpu,
          pinned_numa_node |-> NodeOf[AnyCpu], idle |-> FALSE]

\* What the parent function `par' puts below r, r included: the least set
\* that holds r and, with a task, those it is the parent of.
Below(par, r) ==
  LET closed == {S \in SUBSET Tid : r \in S /\ \A u \in Tid \ S : par[u] \notin S}
  IN {t \in Tid : \A S \in closed : t \in S}

\* get_children(): the root and all_children() of its record.
Children == Below(parent, Root)

-----------------------------------------------------------------------------
(* The kernel and the program.                                             *)

\* clone() and fork() hand the caller's affinity mask down.  An identifier is
\* used again only once the tool has dropped its record.
Spawn(t, p) ==
  /\ t \notin alive \cup known
  /\ p \in alive
  /\ alive' = alive \cup {t}
  /\ kparent' = [kparent EXCEPT ![t] = p]
  /\ affinity' = [affinity EXCEPT ![t] = affinity[p]]
  /\ UNCHANGED <<tables, control>>

\* The processes forked by a thread that ends go to its thread group: /proc
\* lists every task of `alive' below the root.  (Those of a process that ends
\* go to init and are no longer of the program: such a task is taken to end
\* before its parent.)  The end of the root ends the tool.
Exit(t) ==
  /\ t \in alive \ {Root}
  /\ alive' = alive \ {t}
  /\ kparent' = [u \in Tid |-> IF u = t THEN NoParent
                               ELSE IF kparent[u] = t THEN kparent[t] ELSE kparent[u]]
  /\ affinity' = [affinity EXCEPT ![t] = Cpu]
  /\ UNCHANGED <<tables, control>>

-----------------------------------------------------------------------------
(* The process tree.                                                       *)

\* Where a task may last have run: on a CPU of its mask, or, if it has not run
\* since the mask changed, still where it was seen before.
RanOn(t) == affinity[t] \cup IF t \in known THEN {proc[t].processor} ELSE {}

\* read_stat_file() when the task last ran on c.
\* A strategy that migrates to nodes does not use processor_ once the record is
\* pinned: it is then not followed.
ReadStat(t, c, idle) ==
  LET r == IF t \in known THEN proc[t] ELSE Blank
  IN [r EXCEPT !.processor = IF r.pinned /\ MigrateToNodes THEN r.pinned_processor ELSE c,
               !.idle = idle,
               !.pinned_processor = IF r.pinned THEN @ ELSE c,
               !.pinned_numa_node = IF r.pinned THEN @ ELSE NodeOf[c]]

\* The records update() erases when the parents of the scanned tasks are `par':
\* those that cannot be read, and what is below them.
EraseUnreadableOnly(par) == known \ alive   \* mutant: not recursive
NothingErased(par) == {}                    \* mutant: dead tasks keep a record
Unreadable(par) == UNION {Below(par, t) : t \in known \ alive}

\* remove_invalid_data()
KeepTids(map, gone) == map                  \* mutant: the maps are not cleaned
EraseTids(map, gone) == [p \in DOMAIN map |-> map[p] \ gone]

\* system_info::update(): scan /proc below the root, inserting what is new
\* under the parent found there; read every record, and erase those that
\* cannot be read with everything recorded below them (a record that goes
\* gives its task the tool's own affinity back); take the threads that are
\* no longer listed out of both maps.  The main loop balances at once when
\* there are any.
Update ==
  /\ pc = "loop"
  /\ LET par == [t \in Tid |-> IF t \in known THEN parent[t] ELSE kparent[t]]
         gone == Unreadable(par)
     IN /\ known' = (known \cup alive) \ gone
        /\ parent' = [t \in Tid |-> IF t \in known' THEN par[t] ELSE NoParent]
        /\ affinity' = [t \in Tid |-> IF t \in gone /\ proc[t].pinned THEN Cpu
                                      ELSE affinity[t]]
  /\ \E sleeping \in SUBSET known', cpu \in [known' -> Cpu] :
       /\ \A t \in known' : cpu[t] \in RanOn(t)
       /\ proc' = [t \in Tid |-> IF t \in known' THEN ReadStat(t, cpu[t], t \in sleeping)
                                 ELSE Blank]
  /\ LET removed == Children \ Children'
     IN /\ cpuTids' = EraseTids(cpuTids, removed)
        /\ nodeTids' = EraseTids(nodeTids, removed)
        /\ pc' = IF removed = {} THEN "loop" ELSE "balance"
  /\ UNCHANGED <<alive, kparent, left, share>>

\* A task that ends while scan_dir() lists its directory makes it throw: the
\* main loop catches that and starts its next turn, with records for the
\* tasks found so far and nothing read again, erased or balanced.
ScanAborted ==
  /\ pc = "loop"
  /\ \E found \in SUBSET (alive \ known) :
       /\ found # {}
       /\ \A t \in found : kparent[t] \in known \cup found
       /\ known' = known \cup found
       /\ parent' = [t \in Tid |-> IF t \in found THEN kparent[t] ELSE parent[t]]
       /\ \E sleeping \in SUBSET found, cpu \in [found -> Cpu] :
            /\ \A t \in found : cpu[t] \in RanOn(t)
            /\ proc' = [t \in Tid |-> IF t \in found THEN ReadStat(t, cpu[t], t \in sleeping)
                                      ELSE proc[t]]
  /\ UNCHANGED <<kernel, cpuTids, nodeTids, control>>

-----------------------------------------------------------------------------
(* Pinning: process::pin, pin_node, unpin and the functions of             *)
(* system_info.hpp that call them.                                         *)

Place == IF MigrateToNodes THEN Node ELSE Cpu

MaskOf(place) == IF MigrateToNodes THEN CpusOf(place) ELSE {place}

PinnedPlace(t) == IF MigrateToNodes THEN proc[t].pinned_numa_node
                  ELSE proc[t].pinned_processor

\* process::pin(cpu) returns at once, with success, for a thread that is
\* pinned, to whatever CPU, and was last seen on that one.
AlreadyThere(t, place) == proc[t].processor \in MaskOf(place)   \* mutant: pinned or not
SkipsCall(t, place) ==
  ~MigrateToNodes /\ proc[t].pinned /\ proc[t].processor = place

\* The kernel takes the mask of a task that exists.
AssumePinned(t, place) == TRUE              \* mutant: the result is not looked at
CanPin(t, place) == SkipsCall(t, place) \/ t \in alive

\* The record after pin_node(node), or after pin(cpu), which records the node
\* of processor_.  (processor_ of a thread pinned to a node: see ReadStat.)
PinnedAt(t, place) ==
  IF SkipsCall(t, place) THEN proc[t]
  ELSE IF MigrateToNodes
  THEN [proc[t] EXCEPT !.pinned = TRUE,
                       !.pinned_numa_node = place,
                       !.pinned_processor = Least(CpusOf(place)),
                       !.processor = Least(CpusOf(place))]
  ELSE [proc[t] EXCEPT !.pinned = TRUE,
                       !.pinned_processor = place,
                       !.pinned_numa_node = NodeOf[proc[t].processor]]

MaskAfterPin(t, place) == IF SkipsCall(t, place) THEN affinity[t] ELSE MaskOf(place)

\* Where pin_thread_to_cpu / _node finds the record after the call.
CpuAsAsked(t, place) == place               \* mutant: not what the record says
CpuAfterPin(t, place) == PinnedAt(t, place).pinned_processor

\* On a change of node, the thread is erased from the sets of both.
EraseAtTarget(old, new) == {new}            \* mutant: not from the set it leaves
NothingToErase(old, new) == {}              \* mutant: from neither
NodesToErase(old, new) == IF old = new THEN {} ELSE {old, new}

\* simple_migration_cell::migrate() when it succeeds: set_tid_node / _cpu.
MoveThread(t, place) ==
  LET oldCpu == proc[t].pinned_processor
      newCpu == CpuAfterPin(t, place)
      newNode == IF MigrateToNodes THEN place ELSE NodeOf[place]
  IN /\ CanPin(t, place)
     /\ proc' = [proc EXCEPT ![t] = PinnedAt(t, place)]
     /\ affinity' = [affinity EXCEPT ![t] = MaskAfterPin(t, place)]
     /\ IF newCpu = oldCpu THEN UNCHANGED <<cpuTids, nodeTids>>
        ELSE /\ cpuTids' = [cpuTids EXCEPT ![oldCpu] = @ \ {t}, ![newCpu] = @ \cup {t}]
             /\ nodeTids' = [n \in Node |-> IF n \in NodesToErase(NodeOf[oldCpu], newNode)
                                           THEN nodeTids[n] \ {t} ELSE nodeTids[n]]

-----------------------------------------------------------------------------
(* balance(): pin everything, then even the places out.                    *)

NotIdle(S) == {t \in S : ~proc[t].idle}

TidsAt(p) == IF MigrateToNodes THEN nodeTids[p] ELSE cpuTids[p]

Busy(p) == NotIdle(TidsAt(p))   \* tids_from_node / _cpu(p, true)

\* tids(true) is collected node by node, for both kinds of strategy.
Total == Cardinality(NotIdle(UNION {nodeTids[n] : n \in Node}))

AtLeastOne(k) == IF k = 0 THEN 1 ELSE k

\* Where unpin_thread() erases threads: the node of their record.
NotErased(S, n) == {}                       \* mutant: unpinned threads still count
PinnedIn(S, n) == {t \in S : proc[t].pinned_numa_node = n}

\* balance() up to balance_nodes / balance_CPUs: pin_non_idle_threads[_node]
\* pins the root and the children that are not idle, each where its record
\* says, and unpins the idle ones.  unpin() is const: the record stays pinned.
\* Unless every call succeeds, nothing is moved.
PinPass ==
  /\ pc \in {"loop", "balance"}
  /\ LET listed == Children
         sleeping == {t \in listed \ {Root} : proc[t].idle}
         pins == {t \in listed \ sleeping : CanPin(t, PinnedPlace(t))}
         unpins == {t \in sleeping : proc[t].pinned => t \in alive}
     IN /\ proc' = [t \in Tid |-> IF t \in pins THEN PinnedAt(t, PinnedPlace(t)) ELSE proc[t]]
        /\ affinity' = [t \in Tid |-> IF t \in pins THEN MaskAfterPin(t, PinnedPlace(t))
                                      ELSE IF t \in unpins /\ proc[t].pinned THEN Cpu
                                      ELSE affinity[t]]
        /\ cpuTids' = [c \in Cpu |->
             (cpuTids[c] \ {t \in unpins : proc[t].pinned_processor = c})
               \cup {t \in pins : ~MigrateToNodes /\ proc'[t].pinned_processor = c}]
        /\ nodeTids' = [n \in Node |->
             (nodeTids[n] \ PinnedIn(unpins, n))
               \cup {t \in pins : n = IF MigrateToNodes
                                     THEN NodeOf[proc'[t].pinned_processor]
                                     ELSE proc'[t].pinned_numa_node}]
        /\ IF pins \cup unpins = listed /\ Total' > 0
           THEN /\ pc' = "spread"
                /\ left' = Place
                /\ share' = AtLeastOne(Total' \div Cardinality(Place))
           ELSE pc' = "loop" /\ UNCHANGED <<left, share>>
  /\ UNCHANGED <<alive, kparent, known, parent>>

\* nodes_by_distance, and for CPUs the CPUs of those nodes in turn.
NodeCloser(src, m, n) ==
  \/ Distance[src][m] < Distance[src][n]
  \/ Distance[src][m] = Distance[src][n] /\ m < n

Closer(src, p, q) ==
  IF MigrateToNodes THEN NodeCloser(src, p, q)
  ELSE \/ NodeOf[p] = NodeOf[q] /\ p < q
       \/ NodeOf[p] # NodeOf[q] /\ NodeCloser(NodeOf[src], NodeOf[p], NodeOf[q])

ClosestIn(src, S) == {p \in S : \A q \in S \ {p} : Closer(src, p, q)}

\* closest_less_busy_node / _cpu: the closest place with fewer threads than
\* its share, or else the closest of the least busy if less busy than src.
LessBusy(src) ==
  LET others == Place \ {src}
      load(p) == Cardinality(Busy(p))
      roomy == {p \in others : load(p) < share}
      least == {p \in others : \A q \in others : load(p) <= load(q)}
  IN IF roomy # {} THEN ClosestIn(src, roomy)
     ELSE {p \in ClosestIn(src, least) : load(p) < load(src)}

\* Places that balance_nodes / balance_CPUs takes a thread away from.
Overfull == {p \in left : Cardinality(Busy(p)) > share /\ LessBusy(p) # {}}

\* One turn of move_to_less_busy_node / _cpu: the places come in order, and the
\* current one is left when a move fails or it has no more than its share.
SpreadMove ==
  /\ pc = "spread"
  /\ Overfull # {}
  /\ LET src == Least(Overfull)
         tid == Least(Busy(src))
         rest == {p \in left : p > src}
     IN \E dst \in LessBusy(src) :
          \/ MoveThread(tid, dst) /\ left' = rest \cup {src}
          \/ /\ ~CanPin(tid, dst)
             /\ left' = rest
             /\ UNCHANGED <<affinity, proc, cpuTids, nodeTids>>
  /\ UNCHANGED <<alive, kparent, known, parent, pc, share>>

EndSpread ==
  /\ pc = "spread"
  /\ Overfull = {}
  /\ pc' = "loop"
  /\ left' = {}
  /\ share' = 0
  /\ UNCHANGED <<kernel, tables>>

\* A migration a strategy decides on, of any thread to any place (as
\* ThreadMigration has them in detail).  Its table has rows for children only.
StrategyMove(t, place) ==
  /\ pc = "loop"
  /\ MoveThread(t, place)
  /\ UNCHANGED <<alive, kparent, known, parent, control>>

-----------------------------------------------------------------------------
\* The loop starts some seconds after the program (secs_before_migr), which
\* has made threads by then; the tree has only the root.
Init ==
  /\ alive \in {S \in SUBSET Tid : Root \in S}
  /\ kparent = [t \in Tid |-> IF t \in alive \ {Root} THEN Root ELSE NoParent]
  /\ affinity = [t \in Tid |-> Cpu]
  /\ known = {Root}
  /\ parent = [t \in Tid |-> NoParent]
  /\ proc \in {[t \in Tid |-> IF t = Root THEN [Blank EXCEPT !.processor = c,
                                                            !.pinned_processor = c,
                                                            !.pinned_numa_node = NodeOf[c]]
                              ELSE Blank] : c \in Cpu}
  /\ cpuTids = [c \in Cpu |-> {}]
  /\ nodeTids = [n \in Node |-> {}]
  /\ pc = "loop"
  /\ left = {}
  /\ share = 0

Kernel ==
  \/ \E t, p \in Tid : Spawn(t, p)
  \/ \E t \in Tid : Exit(t)

Balance == SpreadMove \/ EndSpread \/ (pc = "balance" /\ PinPass)

Next ==
  \/ Kernel
  \/ \E t \in Children, p \in Place : StrategyMove(t, p)
  \/ SpreadMove
  \/ EndSpread
  \/ PinPass
  \/ ScanAborted
  \/ Update

Spec == Init /\ [][Next]_vars

\* The tool never blocks inside a balance, and in every turn of its loop it
\* compares the time gone by with secs_update_proc and secs_between_balance.
FairSpec == Spec /\ WF_vars(Balance) /\ SF_vars(Update) /\ SF_vars(PinPass)

-----------------------------------------------------------------------------
(* Properties.                                                             *)

\* Every variable has the shape of the C++ object it stands for.
TypeOK ==
  /\ alive \in SUBSET Tid /\ Root \in alive
  /\ kparent \in [Tid -> Tid \cup {NoParent}]
  /\ affinity \in [Tid -> SUBSET Cpu]
  /\ known \in SUBSET Tid
  /\ parent \in [Tid -> Tid \cup {NoParent}]
  /\ proc \in [Tid -> Proc]
  /\ cpuTids \in [Cpu -> SUBSET Tid]
  /\ nodeTids \in [Node -> SUBSET Tid]
  /\ pc \in {"loop", "balance", "spread"}
  /\ left \in SUBSET Place
  /\ share \in Nat

\* Every record can be reached from the root's (process_tree::erase removes
\* a record with all it has below it), so what get_children() lists, and
\* update() compares before and after, is the whole tree.
TreeIsConnected == known = Children

\* The maps name only threads with a record.
\* process_tree::retrieve() inserts a record for any TID it does not find, so
\* a stale TID in a map would bring a dead thread back as one of the tree.
OnlyListedTids ==
  LET listed == Children
  IN /\ \A c \in Cpu : cpuTids[c] \subseteq listed
     /\ \A n \in Node : nodeTids[n] \subseteq listed

\* A thread is in the set of a CPU only while its record has it pinned there:
\* no thread is counted on two CPUs.
CpuMapMatchesRecord ==
  \A c \in Cpu : \A t \in cpuTids[c] :
    proc[t].pinned /\ proc[t].pinned_processor = c

\* The same of node_tid_map, for a strategy that migrates to nodes: no
\* thread is counted on two nodes.
NodeMapMatchesRecord ==
  \A n \in Node : \A t \in nodeTids[n] :
    proc[t].pinned /\ proc[t].pinned_numa_node = n

\* A live thread the tool counts on a node can run on the CPUs of that node
\* and on no other: the tool's map agrees with the kernel's mask, although
\* threads start with the mask of their parent, and are unpinned, moved and
\* dropped from the tree in any order.
CountedThreadsAreConfined ==
  \A n \in Node : \A t \in nodeTids[n] \cap alive : affinity[t] = CpusOf(n)

\* A pinned thread leaves its node only when the kernel has taken the new
\* mask: no update, failed call or half of a balance moves the record alone.
PlaceChangesWithMask ==
  [][\A t \in known \cap known' :
       proc[t].pinned /\ proc'[t].pinned_numa_node # proc[t].pinned_numa_node
         => t \in alive /\ affinity'[t] = CpusOf(proc'[t].pinned_numa_node)]_vars

\* A balance comes to its end, whatever threads do meanwhile.
BalanceEnds == pc # "loop" ~> pc = "loop"

\* The record of a task that ends goes, and with it (OnlyListedTids) its place
\* in the maps.
DeadAreForgotten == \A t \in Tid : t \in known \ alive ~> t \notin known

\* A thread the program starts is found, and pinned unless it is idle or
\* ends, even when other threads make every pass of pinning fail.
ThreadsGetPinned ==
  \A t \in Tid :
    t \in alive ~>
      \/ t \notin alive
      \/ t \in known /\ (proc[t].pinned \/ proc[t].idle)
=============================================================================
