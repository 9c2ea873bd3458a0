------------------------------- MODULE Memory -------------------------------
(* The half of the tool that migrates memory pages.  In each iteration the  *)
(* main loop reads the memory regions of the processes from /proc, cuts     *)
(* them into chunks ("fake THPs") when asked to, counts the samples of      *)
(* memory accesses page by page, and when its time has come has a strategy  *)
(* choose pages and destinations, asks the kernel to move them and clears   *)
(* the table.  Meanwhile the processes map and unmap memory.                *)
(*                                                                          *)
(* An address is a number, a page starts at each multiple of PageSize.      *)
EXTENDS Integers, Sequences, FiniteSets, Functions

CONSTANTS
  MaxNode,              \* system_info::max_node(): the nodes are 0..MaxNode
  Tids, ProcOf, NodeOf, \* threads, the process of each and the node of its CPU
  MaxPage, PageSize,    \* the pages 0..MaxPage
  Options,              \* the options the tool may be started with
  PrefetchSize,         \* memory_prefetch_size
  SAMPLES_ENOUGH_INFO,
  MinLatency,           \* samples::minimum_latency
  Samples,              \* samples of accesses: by whom, where and how slow
  Weights,              \* values of the ageing factor, in some unit
  Layouts, Placements,  \* what a process may have mapped, and where pages lie at first
  BatchSize, MaxSamples, MaxRemaps   \* bounds of the model

Nodes == 0 .. MaxNode
Procs == {ProcOf[t] : t \in Tids}
Pages == {p * PageSize : p \in 0 .. MaxPage}
Addresses == 0 .. (MaxPage + 1) * PageSize - 1

ASSUME MemoryAssumption ==
  /\ MaxNode \in Nat /\ PageSize \in Nat \ {0} /\ MaxPage \in Nat
  /\ SAMPLES_ENOUGH_INFO \in Nat /\ PrefetchSize \in Nat
  /\ Tids # {} /\ NodeOf \in [Tids -> Nodes]
  /\ MinLatency \in Nat \ {0} /\ Weights \subseteq Nat \ {0}
  /\ Samples \subseteq [tid : Tids, addr : Addresses, lat : Nat]
  /\ Options \subseteq [strategy : {"TMMA", "LMMA", "RMMA"}, portion : 0 .. 100, fake_thp_size : Nat]
  /\ Placements \subseteq [Pages -> Nodes]
  /\ Layouts \subseteq SUBSET [begin : Pages \ {0}, end : Pages \cup {(MaxPage + 1) * PageSize}]

(* What the kernel promises: identifiers of processes are numbers, and the  *)
(* regions of a process do not overlap.                                     *)
ASSUME KernelAssumption ==
  /\ ProcOf \in [Tids -> Nat]
  /\ \A layout \in Layouts : \A r, s \in layout :
       r.begin < r.end /\ (r # s => r.end <= s.begin \/ s.end <= r.begin)

VARIABLES
  vmas, place,          \* of each process, in the kernel: regions, and the node of each page
  options,              \* strategy, portion of pages to migrate in %, pages of a chunk or 0
  phase,                \* where the main loop is
  left, maps,           \* update: the processes not yet read, the last maps file
  memory_regions, fake_thp_regions,   \* begin -> end
  shown,                \* history: the regions that the last maps file of each process listed
  batch, nodeMap, ageing,             \* process_samples()
  table, totals,        \* memory::perf_table
  todo, considered, draws, cells,     \* of the strategy at work
  since, seen,          \* history of each page since it last led a cell
  samplesLeft, remapsLeft             \* bounds

kernel == <<vmas, place, remapsLeft>>
regionVars == <<left, maps, memory_regions, fake_thp_regions, shown>>
sampleVars == <<batch, nodeMap, ageing, samplesLeft>>
stratVars == <<todo, considered, draws, cells>>
tableVars == <<table, totals, since, seen>>
vars == <<kernel, options, phase, regionVars, sampleVars, stratVars, tableVars>>
-----------------------------------------------------------------------------
(* Regions and chunks. *)

page_from_addr(addr) == (addr \div PageSize) * PageSize

Empty == [k \in {} |-> 0]

Mapped(p, addr) == \E r \in vmas[p] : r.begin <= addr /\ addr < r.end

\* mutant: the region before is taken without a look at its end
LookupNoEnd(regions, addr) ==
  LET below == {b \in DOMAIN regions : b < addr} IN
  IF addr \in DOMAIN regions THEN {addr}
  ELSE IF \A b \in DOMAIN regions : b < addr THEN {}
  ELSE {b \in below : \A c \in below : c <= b}

(* lower_bound() and what follows it: the region that begins at the address *)
(* or else the one before, if a region begins after it.                     *)
Lookup(regions, addr) ==
  LET below == {b \in DOMAIN regions : b < addr} IN
  IF addr \in DOMAIN regions THEN {addr}
  ELSE IF \A b \in DOMAIN regions : b < addr THEN {}
  ELSE {b \in below : addr < regions[b] /\ \A c \in below : c <= b}

contains(addr) == Lookup(memory_regions, addr) # {}

fake_thp_enabled == options.fake_thp_size # 0

ChunkStarts(begin, end) ==
  {a \in Pages : begin <= a /\ a < end /\ (a - begin) % (options.fake_thp_size * PageSize) = 0}

\* mutant: the last chunk of a region is as long as the others
ChunkEndFull(start, end) == start + options.fake_thp_size * PageSize

ChunkEnd(start, end) ==
  IF start + options.fake_thp_size * PageSize < end THEN start + options.fake_thp_size * PageSize ELSE end

(* Regions are visited from the lowest, emplace() keeps the first chunk. *)
Chunks(regions) ==
  [s \in UNION {ChunkStarts(b, regions[b]) : b \in DOMAIN regions} |->
     LET b == CHOOSE b \in DOMAIN regions :
                /\ s \in ChunkStarts(b, regions[b])
                /\ \A c \in DOMAIN regions : s \in ChunkStarts(c, regions[c]) => b <= c
     IN ChunkEnd(s, regions[b])]

(* The key under which the accesses to an address are counted. *)
RegionAddr(addr) ==
  IF fake_thp_enabled /\ Lookup(fake_thp_regions, addr) # {}
  THEN CHOOSE s \in Lookup(fake_thp_regions, addr) : TRUE
  ELSE page_from_addr(addr)
-----------------------------------------------------------------------------
(* The table of pages. *)

\* mutant: the row of a page that is moved is not cleared
RowNotCleared(row) == row

ClearedRow(row) ==
  [row EXCEPT !.count = 0, !.raw = [n \in Nodes |-> 0], !.aged = [n \in Nodes |-> 0], !.lat = 0]

NewRow(tid, node) ==
  [count |-> 0, raw |-> [n \in Nodes |-> 0], aged |-> [n \in Nodes |-> 0],
   lat |-> 0, pid |-> tid, node |-> node]

(* row.add_data(): the access is counted at the node where the page is, and *)
(* last_node_ is the node of the CPU that made it.  Averages are integers.  *)
AddToRow(row, s, node) ==
  [count |-> row.count + 1,
   raw |-> [row.raw EXCEPT ![node] = @ + 1],
   aged |-> [row.aged EXCEPT ![node] = @ + ageing],
   lat |-> (row.lat * row.count + s.lat) \div (row.count + 1),
   pid |-> s.tid,
   node |-> NodeOf[s.tid]]

NewTotals == [accesses |-> 0, av |-> MinLatency,
              acc |-> [n \in Nodes |-> 0], lat |-> [n \in Nodes |-> MinLatency]]

AddToTotals(tot, s, node) ==
  [accesses |-> tot.accesses + 1,
   av |-> (tot.av * tot.accesses + s.lat) \div (tot.accesses + 1),
   acc |-> [tot.acc EXCEPT ![node] = @ + 1],
   lat |-> [tot.lat EXCEPT ![node] = (tot.acc[node] * @ + s.lat) \div (tot.acc[node] + 1)]]

(* The first of the nodes with most accesses: node 0 for a cleared row. *)
Preferred(row) ==
  {n \in Nodes : \A m \in Nodes : /\ row.aged[m] <= row.aged[n]
                                  /\ m < n => row.aged[m] < row.aged[n]}

node_min_av_latency ==
  {n \in Nodes : \A m \in Nodes : /\ totals.lat[n] <= totals.lat[m]
                                  /\ m < n => totals.lat[n] < totals.lat[m]}
-----------------------------------------------------------------------------
Init ==
  /\ vmas \in [Procs -> Layouts] /\ place \in [Procs -> Placements]
  /\ options \in Options
  /\ phase = "update"
  /\ left = {} /\ maps = Empty /\ memory_regions = Empty /\ fake_thp_regions = Empty
  /\ shown = [p \in Procs |-> {}]
  /\ batch = <<>> /\ nodeMap = Empty /\ ageing \in Weights
  /\ table = Empty /\ totals = NewTotals
  /\ todo = {} /\ considered = {} /\ draws = 0 /\ cells = {}
  /\ since = [p \in Pages |-> 0] /\ seen = [p \in Pages |-> {}]
  /\ samplesLeft = MaxSamples /\ remapsLeft = MaxRemaps

(* A process maps and unmaps memory; a new page lies on any node. *)
Remap(p) ==
  /\ remapsLeft > 0
  /\ \E layout \in Layouts \ {vmas[p]}, node \in Nodes :
       LET Had(page) == Mapped(p, page) IN
       /\ vmas' = [vmas EXCEPT ![p] = layout]
       /\ place' = [place EXCEPT ![p] = [page \in Pages |-> IF Had(page) THEN @[page] ELSE node]]
  /\ remapsLeft' = remapsLeft - 1
  /\ UNCHANGED <<options, phase, regionVars, sampleVars, stratVars, tableVars>>

\* mutant: what the last update found is not cleared
StartUpdateKeeps ==
  /\ phase = "update"
  /\ left' = Procs /\ phase' = "maps"
  /\ UNCHANGED <<kernel, options, maps, memory_regions, fake_thp_regions, shown,
                 sampleVars, stratVars, tableVars>>

(* update_memory_regions(pids), or it is not yet time for it. *)
StartUpdate ==
  /\ phase = "update"
  /\ memory_regions' = Empty
  /\ left' = Procs /\ phase' = "maps"
  /\ UNCHANGED <<kernel, options, maps, fake_thp_regions, shown, sampleVars, stratVars, tableVars>>

SkipUpdate ==
  /\ phase = "update"
  /\ phase' = "read"
  /\ UNCHANGED <<kernel, options, regionVars, sampleVars, stratVars, tableVars>>

(* One process: its maps, then its numa_maps.  What both list under one     *)
(* address is kept, unless that address is taken.  The empty line at the    *)
(* end of both files makes a region that begins and ends at 0.              *)
Reading == CHOOSE p \in left : \A q \in left : p <= q

ReadMaps ==
  /\ phase = "maps"
  /\ LET r == vmas[Reading] IN
     maps' = [b \in {x.begin : x \in r} \cup {0} |->
                IF b = 0 THEN 0 ELSE (CHOOSE x \in r : x.begin = b).end]
  /\ shown' = [shown EXCEPT ![Reading] = vmas[Reading]]
  /\ phase' = "numa_maps"
  /\ UNCHANGED <<kernel, options, left, memory_regions, fake_thp_regions,
                 sampleVars, stratVars, tableVars>>

ReadNumaMaps ==
  /\ phase = "numa_maps"
  /\ LET both == DOMAIN maps \cap ({r.begin : r \in vmas[Reading]} \cup {0}) IN
     memory_regions' = [b \in DOMAIN memory_regions \cup both |->
                          IF b \in DOMAIN memory_regions THEN memory_regions[b] ELSE maps[b]]
  /\ left' = left \ {Reading}
  /\ phase' = IF left' = {} THEN "chunks" ELSE "maps"
  /\ UNCHANGED <<kernel, options, maps, fake_thp_regions, shown, sampleVars, stratVars, tableVars>>

UpdateFakeThps ==
  /\ phase = "chunks"
  /\ fake_thp_regions' = IF fake_thp_enabled THEN Chunks(memory_regions) ELSE fake_thp_regions
  /\ phase' = "read"
  /\ UNCHANGED <<kernel, options, left, maps, memory_regions, shown, sampleVars, stratVars, tableVars>>
-----------------------------------------------------------------------------
(* Samples. *)

(* process_samples(): the nodes of the pages are asked for once for the     *)
(* whole batch, thread by thread in any order; the first answer for an      *)
(* address stands.  A page that is not there has a negative node.           *)
ReadSamples ==
  /\ phase = "read"
  /\ \E n \in 0 .. BatchSize :
       /\ n <= samplesLeft /\ samplesLeft' = samplesLeft - n
       /\ batch' \in [1 .. n -> Samples]
  /\ ageing' \in Weights
  /\ LET Asked(page) == {t \in Tids : \E i \in DOMAIN batch' :
                           batch'[i].tid = t /\ page_from_addr(batch'[i].addr) = page}
         Answer(page, t) == IF Mapped(ProcOf[t], page) THEN place[ProcOf[t]][page] ELSE -1
     IN nodeMap' \in {f \in [{p \in Pages : Asked(p) # {}} -> Nodes \cup {-1}] :
                       \A p \in DOMAIN f : \E t \in Asked(p) : f[p] = Answer(p, t)}
  /\ phase' = "process"
  /\ UNCHANGED <<kernel, options, regionVars, stratVars, tableVars>>

ProcessSample ==
  /\ phase = "process" /\ batch # <<>>
  /\ LET s == Head(batch)
         page == RegionAddr(s.addr)
         node == nodeMap[page_from_addr(s.addr)]
     IN IF node < 0
        THEN UNCHANGED tableVars
        ELSE /\ table' = [p \in DOMAIN table \cup {page} |->
                            IF p # page THEN table[p]
                            ELSE IF page \in DOMAIN table THEN AddToRow(table[page], s, node)
                            ELSE AddToRow(NewRow(s.tid, node), s, node)]
             /\ totals' = AddToTotals(totals, s, node)
             /\ since' = [since EXCEPT ![page] = @ + 1]
             /\ seen' = [seen EXCEPT ![page] = @ \cup {node}]
  /\ batch' = Tail(batch)
  /\ UNCHANGED <<kernel, options, phase, regionVars, nodeMap, ageing, samplesLeft, stratVars>>
-----------------------------------------------------------------------------
(* Strategies. *)

MaxPages == (options.portion * Cardinality(DOMAIN table)) \div 100
AllPages == MaxPages = Cardinality(DOMAIN table)

(* migrate(), when the samples are processed: not yet time for it, or one   *)
(* round of the strategy.  perform_migration_algorithm() has nothing to do  *)
(* on one node or when the portion of the pages is none.                    *)
NotYet ==
  /\ phase = "process" /\ batch = <<>>
  /\ phase' = "update" /\ nodeMap' = Empty
  /\ UNCHANGED <<kernel, options, regionVars, batch, ageing, samplesLeft, stratVars, tableVars>>

StartStrategy ==
  /\ phase = "process" /\ batch = <<>>
  /\ IF MaxNode = 0 \/ MaxPages = 0
     THEN phase' = "perform" /\ UNCHANGED <<todo, draws>>
     ELSE /\ phase' = "choose"
          /\ todo' = IF options.strategy = "RMMA" /\ ~AllPages THEN {} ELSE DOMAIN table
          /\ draws' = IF options.strategy = "RMMA" /\ ~AllPages THEN MaxPages ELSE 0
  /\ nodeMap' = Empty
  /\ UNCHANGED <<kernel, options, regionVars, batch, ageing, samplesLeft,
                 considered, cells, tableVars>>

(* tmma: more than min_ratio_mig of the accesses. *)
EnoughRatio(row, node) ==
  LET total == row.count IN
  row.raw[node] * 3 > 2 * total \/ row.raw[node] * (MaxNode + 1) > 2 * total

is_node_saturated(node) == (totals.lat[node] * 100) \div totals.av > 130

\* mutant: to the node that made the last access, from the preferred one
TmmaDestinationsSwapped(row) ==
  {row.node : n \in {n \in Preferred(row) : n # row.node /\ EnoughRatio(row, n)}}

TmmaDestinations(row) ==
  {n \in Preferred(row) : n # row.node /\ EnoughRatio(row, n)}

LmmaDestinations(row) ==
  IF /\ (row.lat * 100) \div totals.av > 130
     /\ AllPages \/ row.node \notin Preferred(row)
  THEN UNION {IF is_node_saturated(n) THEN node_min_av_latency ELSE {n} : n \in Preferred(row)}
  ELSE {}

Destinations(row) ==
  IF options.strategy = "TMMA" THEN TmmaDestinations(row) ELSE LmmaDestinations(row)

(* prefetch_candidates(): the pages of the chunk, or those that follow up   *)
(* to the first that prefers another node.                                  *)
Prefetched(page, dst) ==
  LET chunk == IF fake_thp_enabled THEN Lookup(fake_thp_regions, page) ELSE {}
      Agrees(p) == p \in DOMAIN table => dst \in Preferred(table[p])
      Nth(i) == page + i * PageSize
  IN IF chunk # {}
     THEN UNION {{p \in s .. fake_thp_regions[s] - 1 : (p - s) % PageSize = 0} : s \in chunk}
     ELSE {Nth(i) : i \in {j \in 1 .. PrefetchSize : \A k \in 1 .. j : Agrees(Nth(k))}}

(* Does the loop over the table take this page? *)
IsCandidate(page) ==
  page \notin considered /\ table[page].count > SAMPLES_ENOUGH_INFO

AddCell(page, pages, dst) ==
  /\ cells' = cells \cup {[head |-> page, pages |-> pages, pid |-> table[page].pid,
                            src |-> table[page].node, dst |-> dst]}
  /\ considered' = considered \cup pages

(* A cell is made for the page: its row starts again. *)
Choose(page) ==
  /\ phase = "choose" /\ options.strategy # "RMMA" /\ page \in todo
  /\ IsCandidate(page)
  /\ \E dst \in Destinations(table[page]) : AddCell(page, {page} \cup Prefetched(page, dst), dst)
  /\ table' = [table EXCEPT ![page] = ClearedRow(@)]
  /\ since' = [since EXCEPT ![page] = 0] /\ seen' = [seen EXCEPT ![page] = {}]
  /\ todo' = todo \ {page}
  /\ UNCHANGED <<kernel, options, phase, regionVars, sampleVars, draws, totals>>

PassOver(page) ==
  /\ phase = "choose" /\ options.strategy # "RMMA" /\ page \in todo
  /\ ~IsCandidate(page) \/ Destinations(table[page]) = {}
  /\ todo' = todo \ {page}
  /\ UNCHANGED <<kernel, options, phase, regionVars, sampleVars, considered, draws, cells, tableVars>>

(* rmma: rnd() never draws its upper bound, which is the last node when all *)
(* pages are taken.  When only some are, a page may be drawn twice and rows *)
(* are not cleared.                                                         *)
ChooseRandom(page) ==
  /\ phase = "choose" /\ page \in todo /\ options.strategy = "RMMA"
  /\ \E dst \in 0 .. MaxNode - 1 :
       IF dst = table[page].node
       THEN UNCHANGED <<cells, tableVars>>
       ELSE /\ cells' = cells \cup {[head |-> page, pages |-> {page}, pid |-> table[page].pid,
                                      src |-> table[page].node, dst |-> dst]}
            /\ table' = [table EXCEPT ![page] = ClearedRow(@)]
            /\ since' = [since EXCEPT ![page] = 0] /\ seen' = [seen EXCEPT ![page] = {}]
            /\ UNCHANGED totals
  /\ todo' = todo \ {page}
  /\ UNCHANGED <<kernel, options, phase, regionVars, sampleVars, considered, draws>>

Draw(page) ==
  /\ phase = "choose" /\ options.strategy = "RMMA" /\ draws > 0 /\ page \in DOMAIN table
  /\ \E dst \in Nodes :
       cells' = IF dst = table[page].node THEN cells
                ELSE cells \cup {[head |-> page, pages |-> {page}, pid |-> table[page].pid,
                                  src |-> table[page].node, dst |-> dst]}
  /\ draws' = draws - 1
  /\ UNCHANGED <<kernel, options, phase, regionVars, sampleVars, todo, considered, tableVars>>

Chosen ==
  /\ phase = "choose" /\ todo = {} /\ draws = 0
  /\ phase' = "perform" /\ considered' = {}
  /\ UNCHANGED <<kernel, options, regionVars, sampleVars, todo, draws, cells, tableVars>>

(* One call of move_pages() for all the cells of a thread.  It fails as a   *)
(* whole, or else each page that is there is moved or left; of two cells    *)
(* with the same page either may be the later.                              *)
Perform(pid) ==
  LET mine == {c \in cells : c.pid = pid}
      proc == ProcOf[pid]
      Movable(page) == Mapped(proc, page) /\ \E c \in mine : page \in c.pages
  IN /\ phase = "perform" /\ mine # {}
     /\ place' \in [Procs -> [Pages -> Nodes]]
     /\ \A p \in Procs, page \in Pages :
          \/ place'[p][page] = place[p][page]
          \/ /\ p = proc /\ Movable(page)
             /\ \E c \in mine : page \in c.pages /\ place'[p][page] = c.dst
     /\ cells' = cells \ mine
     /\ UNCHANGED <<vmas, remapsLeft, options, phase, regionVars, sampleVars,
                    todo, considered, draws, tableVars>>

(* clear_it(): with chunks the rows go and the totals stay, without them    *)
(* the rows outside the known regions go and the totals start again.        *)
ClearData ==
  /\ phase = "perform" /\ cells = {}
  /\ IF fake_thp_enabled
     THEN table' = Empty /\ UNCHANGED totals
     ELSE table' = Restrict(table, {p \in DOMAIN table : contains(p)}) /\ totals' = NewTotals
  /\ phase' = "update"
  /\ UNCHANGED <<kernel, options, regionVars, sampleVars, stratVars, since, seen>>

Next ==
  \/ \E p \in Procs : Remap(p)
  \/ StartUpdate \/ SkipUpdate \/ ReadMaps \/ ReadNumaMaps \/ UpdateFakeThps
  \/ ReadSamples \/ ProcessSample \/ NotYet \/ StartStrategy \/ Chosen \/ ClearData
  \/ \E page \in Pages : Choose(page) \/ PassOver(page) \/ ChooseRandom(page) \/ Draw(page)
  \/ \E pid \in Tids : Perform(pid)

Spec == Init /\ [][Next]_vars
-----------------------------------------------------------------------------
(* Properties. *)

Row == [count : Nat, raw : [Nodes -> Nat], aged : [Nodes -> Nat], lat : Nat,
        pid : Tids, node : Nodes]

Phases == {"update", "maps", "numa_maps", "chunks", "read", "process", "choose", "perform"}

(* The tables keep their shape: rows lie at starts of pages, nodes of pages *)
(* and of cells exist.                                                      *)
TypeOK ==
  /\ place \in [Procs -> [Pages -> Nodes]] /\ options \in Options
  /\ phase \in Phases /\ left \subseteq Procs /\ ageing \in Weights
  /\ DOMAIN table \subseteq Pages
  /\ \A p \in DOMAIN table : table[p] \in Row
  /\ totals \in [accesses : Nat, av : Nat, acc : [Nodes -> Nat], lat : [Nodes -> Nat]]
  /\ todo \subseteq DOMAIN table /\ draws \in Nat
  /\ phase # "choose" => todo = {} /\ considered = {}
  /\ \A c \in cells : c.head \in DOMAIN table /\ c.pid \in Tids /\ c.src \in Nodes /\ c.dst \in Nodes
  /\ since \in [Pages -> Nat] /\ seen \in [Pages -> SUBSET Nodes]

(* region_from_address(), contains(): what is found for an address is a     *)
(* region of memory that holds it, with the bounds one process had when its *)
(* maps was last read: never a neighbour, one of an earlier update, or one  *)
(* pieced together from what maps and numa_maps saw at different times.     *)
(* (Nothing lies at 0, where the empty line makes a region.)                *)
FoundIsItsRegion ==
  \A addr \in Addresses \ {0} : \A b \in Lookup(memory_regions, addr) :
    \E p \in Procs : \E r \in shown[p] :
      r.begin = b /\ r.end = memory_regions[b] /\ b <= addr /\ addr < r.end

(* "Clear non-valid contents" (mempages_table.hpp:270): as long as no       *)
(* process has changed its memory since it was read, clear_it() drops no    *)
(* row of a page that is mapped.                                            *)
ValidRowsStay ==
  [][phase = "perform" /\ phase' = "update" /\ ~fake_thp_enabled
       /\ memory_regions # Empty /\ remapsLeft = MaxRemaps =>
     \A page \in DOMAIN table : (\E p \in Procs : Mapped(p, page)) => page \in DOMAIN table']_vars

(* update_fake_thps(): whenever chunks are used, each address of a region   *)
(* lies in exactly one of them and no chunk goes beyond its region.         *)
ChunksPartition ==
  fake_thp_enabled /\ phase \notin {"maps", "numa_maps", "chunks"} =>
    \A addr \in Addresses :
      LET In(f) == {b \in DOMAIN f : b <= addr /\ addr < f[b]}
      IN Cardinality(In(fake_thp_regions)) = Cardinality(In(memory_regions))

(* tmma, lmma: each time a page leads a cell it has been sampled anew more  *)
(* than SAMPLES_ENOUGH_INFO times: no page is moved back and forth on       *)
(* accesses that have already been answered with a migration.               *)
MovesArePaid ==
  [][options.strategy # "RMMA" =>
       \A c \in cells' \ cells : since[c.head] > SAMPLES_ENOUGH_INFO]_vars

(* tmma: a page is sent only to a node where one of these samples found it. *)
(* A page that has stayed where it was is sent to where it is.              *)
SentWhereSeen ==
  [][options.strategy = "TMMA" => \A c \in cells' \ cells : c.dst \in seen[c.head]]_vars
=============================================================================
