---------------------------- MODULE Memory_proofs ----------------------------
(***************************************************************************)
(* Proofs about the migration of pages, for any number of nodes, threads   *)
(* and pages, any layouts and any strategy: the tables keep their shape,   *)
(* a page leads a cell only on samples not yet answered, and tmma sends it *)
(* to a node where one of them found it.                                   *)
(*                                                                         *)
(* A row may be dropped and begun again while the history of its page goes *)
(* on.  So the invariant bounds the row by the history: its samples are    *)
(* among those since the page last led a cell, and a node with a count is  *)
(* one where the page was seen.                                            *)
(***************************************************************************)
EXTENDS Memory, FiniteSetTheorems, WellFoundedInduction, TLAPS

BatchInv ==
  /\ batch \in Seq(Samples) /\ ageing \in Weights
  /\ DOMAIN nodeMap \subseteq Pages
  /\ \A p \in DOMAIN nodeMap : nodeMap[p] \in Nodes \cup {-1}
  /\ \A i \in 1 .. Len(batch) : page_from_addr(batch[i].addr) \in DOMAIN nodeMap

RowOK(row, n, nodes) ==
  /\ row \in Row
  /\ row.count <= n
  /\ row.count > 0 => \E m \in Nodes : row.aged[m] > 0
  /\ \A m \in Nodes : row.aged[m] > 0 => m \in nodes

TableInv ==
  /\ DOMAIN table \subseteq Pages
  /\ since \in [Pages -> Nat] /\ seen \in [Pages -> SUBSET Nodes]
  /\ \A p \in DOMAIN table : RowOK(table[p], since[p], seen[p])

LoopInv ==
  /\ place \in [Procs -> [Pages -> Nodes]] /\ options \in Options
  /\ phase \in Phases /\ left \subseteq Procs
  /\ DOMAIN fake_thp_regions \subseteq Pages

ChoiceInv ==
  /\ todo \subseteq DOMAIN table /\ draws \in Nat
  /\ phase # "choose" => todo = {} /\ considered = {}
  /\ \A c \in cells : c.head \in DOMAIN table /\ c.pid \in Tids /\ c.src \in Nodes /\ c.dst \in Nodes

TotalsInv == totals \in [accesses : Nat, av : Nat, acc : [Nodes -> Nat], lat : [Nodes -> Nat]]

IInv == BatchInv /\ TableInv /\ LoopInv /\ ChoiceInv /\ TotalsInv

-----------------------------------------------------------------------------
(* Arithmetic.                                                             *)

LEMMA Quotient ==
  ASSUME NEW a \in Nat, NEW d \in Nat \ {0}
  PROVE  a \div d \in Nat /\ (a \div d) * d <= a /\ a < (a \div d + 1) * d
OBVIOUS

LEMMA MonotoneProduct ==
  ASSUME NEW a \in Nat, NEW b \in Nat, NEW d \in Nat, a * d < b * d
  PROVE  a < b
OBVIOUS

\* The running average of latencies is a number.
LEMMA AverageInNat ==
  ASSUME NEW av \in Nat, NEW n \in Nat, NEW lat \in Nat
  PROVE  (av * n + lat) \div (n + 1) \in Nat /\ (n * av + lat) \div (n + 1) \in Nat
<1>1. av * n \in Nat /\ n * av \in Nat
  OBVIOUS
<1>2. av * n + lat \in Nat /\ n * av + lat \in Nat /\ n + 1 \in Nat \ {0}
  BY <1>1
<1> QED  BY <1>2, Quotient

\* An address lies on one of the pages.
LEMMA PageOfAddress ==
  ASSUME NEW addr \in Addresses
  PROVE  page_from_addr(addr) \in Pages
<1>1. MaxPage \in Nat /\ PageSize \in Nat \ {0}
  BY MemoryAssumption
<1> DEFINE q == addr \div PageSize
           limit == (MaxPage + 1) * PageSize
<1>2. limit \in Nat
  BY <1>1
<1>3. addr \in Nat /\ addr < limit
  BY <1>2 DEF Addresses
<1>4. q \in Nat /\ q * PageSize <= addr
  BY <1>1, <1>3, Quotient
<1>5. q * PageSize \in Nat
  BY <1>1, <1>4
<1> HIDE DEF q
<1>6. q * PageSize < (MaxPage + 1) * PageSize
  <2>1. q * PageSize < limit
    <3> HIDE DEF limit
    <3> QED  BY <1>2, <1>3, <1>4, <1>5
  <2> QED  BY <2>1
<1>7. q < MaxPage + 1
  BY <1>1, <1>4, <1>6, MonotoneProduct
<1>8. q \in 0 .. MaxPage
  BY <1>1, <1>4, <1>7
<1> QED  BY <1>8 DEF q, Pages, page_from_addr

LEMMA PagesAreNat == Pages \subseteq Nat
BY MemoryAssumption DEF Pages

\* There are finitely many pages.
LEMMA PagesFinite == IsFiniteSet(Pages)
<1> DEFINE f == [i \in 0 .. MaxPage |-> i * PageSize]
<1>1. IsFiniteSet(0 .. MaxPage)
  BY MemoryAssumption, FS_Interval
<1>2. f \in Surjection(0 .. MaxPage, Pages)
  BY DEF Surjection, Pages
<1> QED  BY <1>1, <1>2, FS_Surjection
-----------------------------------------------------------------------------
(* The operators.                                                          *)

LEMMA OptionsShape ==
  ASSUME LoopInv
  PROVE  options.portion \in 0 .. 100
BY MemoryAssumption DEF LoopInv

LEMMA NodesAreNat == Nodes \subseteq Nat
BY MemoryAssumption DEF Nodes

\* Accesses are counted under the address of a page.
LEMMA RegionAddrIsPage ==
  ASSUME LoopInv, NEW addr \in Addresses
  PROVE  RegionAddr(addr) \in Pages
<1>1. Lookup(fake_thp_regions, addr) \subseteq DOMAIN fake_thp_regions
  BY DEF Lookup
<1>2. DOMAIN fake_thp_regions \subseteq Pages
  BY DEF LoopInv
<1>3. CASE fake_thp_enabled /\ Lookup(fake_thp_regions, addr) # {}
  <2>1. RegionAddr(addr) \in Lookup(fake_thp_regions, addr)
    BY <1>3, Zenon DEF RegionAddr
  <2> QED  BY <1>1, <1>2, <2>1
<1>4. CASE ~(fake_thp_enabled /\ Lookup(fake_thp_regions, addr) # {})
  <2>1. RegionAddr(addr) = page_from_addr(addr)
    BY <1>4, Zenon DEF RegionAddr
  <2> QED  BY <2>1, PageOfAddress
<1> QED  BY <1>3, <1>4

LEMMA MaxPagesInNat ==
  ASSUME LoopInv, DOMAIN table \subseteq Pages
  PROVE  MaxPages \in Nat
<1>1. Cardinality(DOMAIN table) \in Nat
  BY PagesFinite, FS_Subset, FS_CardinalityType
<1>2. options.portion \in Nat
  BY OptionsShape
<1> DEFINE c == Cardinality(DOMAIN table)
           o == options.portion
<1>3. o * c \in Nat
  BY <1>1, <1>2
<1> QED  BY <1>3, Quotient DEF MaxPages

LEMMA DestinationsAreNodes ==
  ASSUME NEW row
  PROVE  Destinations(row) \subseteq Nodes
<1>1. TmmaDestinations(row) \subseteq Nodes
  BY DEF TmmaDestinations, Preferred
<1>2. LmmaDestinations(row) \subseteq Nodes
  BY DEF LmmaDestinations, Preferred, node_min_av_latency
<1> QED  BY <1>1, <1>2, Zenon DEF Destinations

\* A page with samples prefers a node where it has been seen.
LEMMA PreferredIsSeen ==
  ASSUME NEW row, NEW n \in Nat, NEW nodes, RowOK(row, n, nodes), row.count > 0,
         NEW m \in Preferred(row)
  PROVE  m \in nodes
<1>1. PICK k \in Nodes : row.aged[k] > 0
  BY DEF RowOK
<1>2. m \in Nodes /\ row.aged[k] <= row.aged[m]
  BY <1>1 DEF Preferred
<1>3. row.aged[k] \in Nat /\ row.aged[m] \in Nat
  BY <1>1, <1>2 DEF RowOK, Row
<1> QED  BY <1>1, <1>2, <1>3 DEF RowOK

LEMMA ClearedRowOK ==
  ASSUME NEW row \in Row, NEW n \in Nat, NEW nodes
  PROVE  RowOK(ClearedRow(row), n, nodes)
<1>1. ClearedRow(row) \in Row
  BY DEF ClearedRow, Row
<1>2. ClearedRow(row).count = 0 /\ \A m \in Nodes : ClearedRow(row).aged[m] = 0
  BY DEF ClearedRow, Row
<1> QED  BY <1>1, <1>2 DEF RowOK

LEMMA NewRowOK ==
  ASSUME NEW tid \in Tids, NEW node \in Nodes, NEW n \in Nat, NEW nodes
  PROVE  RowOK(NewRow(tid, node), n, nodes)
<1>1. NewRow(tid, node) \in Row
  BY DEF NewRow, Row
<1>2. NewRow(tid, node).count = 0 /\ \A m \in Nodes : NewRow(tid, node).aged[m] = 0
  BY DEF NewRow
<1> QED  BY <1>1, <1>2 DEF RowOK

\* A sample more in the row, one more in the history of the page.
LEMMA AddToRowOK ==
  ASSUME NEW row, NEW n \in Nat, NEW nodes, RowOK(row, n, nodes),
         NEW s \in Samples, NEW node \in Nodes, ageing \in Weights
  PROVE  RowOK(AddToRow(row, s, node), n + 1, nodes \cup {node})
<1> DEFINE new == AddToRow(row, s, node)
<1>1. s.tid \in Tids /\ s.lat \in Nat /\ NodeOf[s.tid] \in Nodes /\ ageing \in Nat \ {0}
  BY MemoryAssumption
<1>2. row \in Row /\ row.count <= n
  BY DEF RowOK
<1>3. row.count \in Nat /\ row.lat \in Nat /\ row.raw \in [Nodes -> Nat] /\ row.aged \in [Nodes -> Nat]
  BY <1>2 DEF Row
<1>4. /\ new.count = row.count + 1 /\ new.raw = [row.raw EXCEPT ![node] = @ + 1]
      /\ new.aged = [row.aged EXCEPT ![node] = @ + ageing]
  BY DEF AddToRow
<1>5. new \in Row
  <2>1. (row.lat * row.count + s.lat) \div (row.count + 1) \in Nat
    BY <1>1, <1>3, AverageInNat
  <2>2. row.count + 1 \in Nat /\ new.raw \in [Nodes -> Nat] /\ new.aged \in [Nodes -> Nat]
    BY <1>1, <1>3, <1>4
  <2> DEFINE l == (row.lat * row.count + s.lat) \div (row.count + 1)
             c == row.count + 1
             r == [row.raw EXCEPT ![node] = @ + 1]
             a == [row.aged EXCEPT ![node] = @ + ageing]
  <2>3. new = [count |-> c, raw |-> r, aged |-> a, lat |-> l, pid |-> s.tid, node |-> NodeOf[s.tid]]
    BY DEF AddToRow
  <2>4. l \in Nat /\ c \in Nat /\ r \in [Nodes -> Nat] /\ a \in [Nodes -> Nat]
    BY <2>1, <2>2, <1>4
  <2> HIDE DEF new, l, c, r, a
  <2> QED  BY <2>3, <2>4, <1>1 DEF Row
<1>6. new.count <= n + 1
  BY <1>2, <1>3, <1>4
<1>7. new.aged[node] > 0
  BY <1>1, <1>3, <1>4
<1>8. \A m \in Nodes : new.aged[m] > 0 => m \in nodes \cup {node}
  BY <1>3, <1>4 DEF RowOK
<1>9. RowOK(new, n + 1, nodes \cup {node})
  <2> HIDE DEF new
  <2> QED  BY <1>5, <1>6, <1>7, <1>8 DEF RowOK
<1> QED  BY <1>9

LEMMA AddToTotalsType ==
  ASSUME TotalsInv, NEW s \in Samples, NEW node \in Nodes
  PROVE  AddToTotals(totals, s, node) \in
           [accesses : Nat, av : Nat, acc : [Nodes -> Nat], lat : [Nodes -> Nat]]
<1>1. s.lat \in Nat
  BY MemoryAssumption
<1>2. /\ totals.accesses \in Nat /\ totals.av \in Nat
      /\ totals.acc \in [Nodes -> Nat] /\ totals.lat \in [Nodes -> Nat]
  BY DEF TotalsInv
<1>3. totals.acc[node] \in Nat /\ totals.lat[node] \in Nat
  BY <1>2
<1> DEFINE av == (totals.av * totals.accesses + s.lat) \div (totals.accesses + 1)
           l == (totals.acc[node] * totals.lat[node] + s.lat) \div (totals.acc[node] + 1)
           lat == [totals.lat EXCEPT ![node] = l]
           acc == [totals.acc EXCEPT ![node] = @ + 1]
<1>4. av \in Nat /\ l \in Nat
  BY <1>1, <1>2, <1>3, AverageInNat
<1>5. acc \in [Nodes -> Nat] /\ totals.accesses + 1 \in Nat
  BY <1>2, <1>3
<1>6. lat \in [Nodes -> Nat]
  <2> HIDE DEF l
  <2> QED  BY <1>2, <1>4
<1>7. AddToTotals(totals, s, node) = [accesses |-> totals.accesses + 1, av |-> av, acc |-> acc, lat |-> lat]
  BY DEF AddToTotals
<1> HIDE DEF av, l, lat, acc
<1> QED  BY <1>4, <1>5, <1>6, <1>7
-----------------------------------------------------------------------------
(* What a step leaves alone.                                               *)

LEMMA BatchKept ==
  ASSUME BatchInv, UNCHANGED sampleVars
  PROVE  BatchInv'
BY DEF BatchInv, sampleVars

LEMMA BatchDone ==
  ASSUME BatchInv, batch = <<>>, nodeMap' = Empty, UNCHANGED <<batch, ageing>>
  PROVE  BatchInv'
BY DEF BatchInv, Empty

LEMMA TableKept ==
  ASSUME TableInv, UNCHANGED tableVars
  PROVE  TableInv'
BY DEF TableInv, tableVars

LEMMA LoopKept ==
  ASSUME LoopInv, phase' \in Phases, UNCHANGED <<place, options, left, fake_thp_regions>>
  PROVE  LoopInv'
BY DEF LoopInv

LEMMA ChoiceKept ==
  ASSUME ChoiceInv, UNCHANGED <<stratVars, table>>, phase' = phase \/ phase # "choose"
  PROVE  ChoiceInv'
BY DEF ChoiceInv, stratVars

LEMMA TotalsKept ==
  ASSUME TotalsInv, UNCHANGED totals
  PROVE  TotalsInv'
BY DEF TotalsInv

-----------------------------------------------------------------------------
(* Each action keeps the invariant.                                        *)

LEMMA InitInv == Init => IInv
<1> SUFFICES ASSUME Init PROVE IInv
  OBVIOUS
<1>1. BatchInv
  BY DEF Init, BatchInv, Empty
<1>2. TableInv
  BY DEF Init, TableInv, Empty
<1>3. LoopInv
  BY MemoryAssumption, Zenon DEF Init, LoopInv, Empty, Phases
<1>4. ChoiceInv
  BY DEF Init, ChoiceInv, Empty
<1>5. TotalsInv
  BY MemoryAssumption DEF Init, TotalsInv, NewTotals
<1> QED  BY <1>1, <1>2, <1>3, <1>4, <1>5 DEF IInv

LEMMA RemapInv ==
  ASSUME IInv, NEW p \in Procs, Remap(p)
  PROVE  IInv'
<1>1. BatchInv' /\ TableInv' /\ TotalsInv'
  BY BatchKept, TableKept, TotalsKept DEF IInv, Remap, tableVars
<1>2. ChoiceInv'
  BY ChoiceKept DEF IInv, Remap, tableVars
<1>3. PICK node \in Nodes : place' = [place EXCEPT ![p] =
         [page \in Pages |-> IF Mapped(p, page) THEN @[page] ELSE node]]
  BY DEF Remap
<1>4. place \in [Procs -> [Pages -> Nodes]]
  BY DEF IInv, LoopInv
<1>5. place' \in [Procs -> [Pages -> Nodes]]
  <2>1. [page \in Pages |-> IF Mapped(p, page) THEN place[p][page] ELSE node] \in [Pages -> Nodes]
    BY <1>4
  <2> QED  BY <1>3, <1>4, <2>1, Zenon
<1>6. LoopInv'
  BY <1>5 DEF IInv, LoopInv, Remap, regionVars
<1> QED  BY <1>1, <1>2, <1>6 DEF IInv

LEMMA UpdateInv ==
  ASSUME IInv, StartUpdate \/ SkipUpdate \/ ReadMaps \/ ReadNumaMaps
  PROVE  IInv'
<1>1. BatchInv' /\ TableInv' /\ TotalsInv'
  BY BatchKept, TableKept, TotalsKept
     DEF IInv, StartUpdate, SkipUpdate, ReadMaps, ReadNumaMaps, tableVars
<1>2. ChoiceInv'
  BY ChoiceKept DEF IInv, StartUpdate, SkipUpdate, ReadMaps, ReadNumaMaps, tableVars
<1>3. phase' \in Phases /\ left' \subseteq Procs
  BY DEF IInv, LoopInv, StartUpdate, SkipUpdate, ReadMaps, ReadNumaMaps, regionVars, Phases
<1>4. LoopInv'
  BY <1>3 DEF IInv, LoopInv, StartUpdate, SkipUpdate, ReadMaps, ReadNumaMaps, kernel, regionVars
<1> QED  BY <1>1, <1>2, <1>4 DEF IInv

LEMMA UpdateFakeThpsInv ==
  ASSUME IInv, UpdateFakeThps
  PROVE  IInv'
<1>1. BatchInv' /\ TableInv' /\ TotalsInv'
  BY BatchKept, TableKept, TotalsKept DEF IInv, UpdateFakeThps, tableVars
<1>2. ChoiceInv'
  BY ChoiceKept DEF IInv, UpdateFakeThps, tableVars
<1>3. DOMAIN fake_thp_regions' \subseteq Pages
  <2>1. CASE fake_thp_enabled
    BY <2>1 DEF UpdateFakeThps, Chunks, ChunkStarts
  <2>2. CASE ~fake_thp_enabled
    BY <2>2 DEF UpdateFakeThps, IInv, LoopInv
  <2> QED  BY <2>1, <2>2
<1>4. LoopInv'
  BY <1>3 DEF IInv, LoopInv, UpdateFakeThps, kernel, Phases
<1> QED  BY <1>1, <1>2, <1>4 DEF IInv

LEMMA ReadSamplesInv ==
  ASSUME IInv, ReadSamples
  PROVE  IInv'
<1>1. TableInv' /\ TotalsInv' /\ ChoiceInv'
  BY TableKept, TotalsKept, ChoiceKept DEF IInv, ReadSamples, tableVars
<1>2. LoopInv'
  BY LoopKept DEF IInv, ReadSamples, kernel, regionVars, Phases
<1>3. BatchInv'
  <2>1. PICK n \in 0 .. BatchSize : batch' \in [1 .. n -> Samples]
    BY DEF ReadSamples
  <2>2. batch' \in Seq(Samples) /\ Len(batch') = n /\ DOMAIN batch' = 1 .. n
    BY <2>1
  <2> DEFINE Asked(page) == {t \in Tids : \E i \in DOMAIN batch' :
                               batch'[i].tid = t /\ page_from_addr(batch'[i].addr) = page}
             Answer(page, t) == IF Mapped(ProcOf[t], page) THEN place[ProcOf[t]][page] ELSE -1
  <2>3. nodeMap' \in [{p \in Pages : Asked(p) # {}} -> Nodes \cup {-1}]
    BY Zenon DEF ReadSamples
  <2>4. \A i \in 1 .. n : page_from_addr(batch'[i].addr) \in Pages
                          /\ batch'[i].tid \in Asked(page_from_addr(batch'[i].addr))
    <3> SUFFICES ASSUME NEW i \in 1 .. n
                 PROVE  /\ page_from_addr(batch'[i].addr) \in Pages
                        /\ batch'[i].tid \in Asked(page_from_addr(batch'[i].addr))
      OBVIOUS
    <3>1. batch'[i] \in Samples
      BY <2>1
    <3>2. batch'[i].tid \in Tids /\ batch'[i].addr \in Addresses
      BY <3>1, MemoryAssumption
    <3> QED  BY <2>2, <3>2, PageOfAddress
  <2>5. ageing' \in Weights
    BY DEF ReadSamples
  <2>6. \A i \in 1 .. n : page_from_addr(batch'[i].addr) \in DOMAIN nodeMap'
    BY <2>3, <2>4
  <2> HIDE DEF Asked, Answer
  <2>7. DOMAIN nodeMap' \subseteq Pages /\ \A p \in DOMAIN nodeMap' : nodeMap'[p] \in Nodes \cup {-1}
    BY <2>3
  <2> QED  BY <2>2, <2>5, <2>6, <2>7 DEF BatchInv
<1> QED  BY <1>1, <1>2, <1>3 DEF IInv

\* A sample is counted in a row of its page, and in the history of the page.
LEMMA ProcessSampleInv ==
  ASSUME IInv, ProcessSample
  PROVE  IInv'
<1> DEFINE s == Head(batch)
           page == RegionAddr(s.addr)
           node == nodeMap[page_from_addr(s.addr)]
<1>1. s \in Samples /\ batch' = Tail(batch) /\ batch # <<>>
  BY DEF IInv, BatchInv, ProcessSample
<1>2. s.addr \in Addresses /\ s.tid \in Tids
  BY <1>1, MemoryAssumption
<1>3. page \in Pages
  BY <1>2, RegionAddrIsPage DEF IInv
<1>4. node \in Nodes \cup {-1}
  <2>1. 1 \in 1 .. Len(batch) /\ s = batch[1]
    BY <1>1 DEF IInv, BatchInv
  <2> QED  BY <2>1 DEF IInv, BatchInv
<1>5. BatchInv'
  <2>1. batch' \in Seq(Samples) /\ \A i \in 1 .. Len(batch') : i + 1 \in 1 .. Len(batch) /\ batch'[i] = batch[i + 1]
    BY <1>1 DEF IInv, BatchInv
  <2>2. UNCHANGED <<nodeMap, ageing>>
    BY DEF ProcessSample
  <2> QED  BY <2>1, <2>2 DEF IInv, BatchInv
<1>6. LoopInv'
  BY LoopKept DEF IInv, LoopInv, ProcessSample, kernel, regionVars
<1>7. CASE node < 0
  <2>1. UNCHANGED tableVars
    BY <1>7 DEF ProcessSample
  <2>2. TableInv' /\ TotalsInv' /\ ChoiceInv'
    BY <2>1, TableKept, TotalsKept, ChoiceKept DEF IInv, tableVars, ProcessSample
  <2> QED  BY <1>5, <1>6, <2>2 DEF IInv
<1>8. CASE ~(node < 0)
  <2>1. node \in Nodes
    BY <1>4, <1>8
  <2>2. /\ table' = [p \in DOMAIN table \cup {page} |->
                       IF p # page THEN table[p]
                       ELSE IF page \in DOMAIN table THEN AddToRow(table[page], s, node)
                       ELSE AddToRow(NewRow(s.tid, node), s, node)]
        /\ totals' = AddToTotals(totals, s, node)
        /\ since' = [since EXCEPT ![page] = @ + 1]
        /\ seen' = [seen EXCEPT ![page] = @ \cup {node}]
    BY <1>8 DEF ProcessSample
  <2> HIDE DEF s, page, node
  <2>3. /\ DOMAIN table \subseteq Pages /\ since \in [Pages -> Nat] /\ seen \in [Pages -> SUBSET Nodes]
        /\ \A p \in DOMAIN table : RowOK(table[p], since[p], seen[p])
    BY DEF IInv, TableInv
  <2>4. since' \in [Pages -> Nat] /\ seen' \in [Pages -> SUBSET Nodes]
    BY <1>3, <2>1, <2>2, <2>3
  <2>5. since'[page] = since[page] + 1 /\ seen'[page] = seen[page] \cup {node} /\ since[page] \in Nat
    BY <1>3, <2>2, <2>3
  <2>6. ageing \in Weights
    BY DEF IInv, BatchInv
  <2>7. RowOK(table'[page], since'[page], seen'[page])
    <3>1. CASE page \in DOMAIN table
      <4>1. RowOK(AddToRow(table[page], s, node), since[page] + 1, seen[page] \cup {node})
        BY <1>1, <2>1, <2>3, <2>5, <2>6, <3>1, AddToRowOK
      <4>2. table'[page] = AddToRow(table[page], s, node)
        BY <2>2, <3>1
      <4> QED  BY <2>5, <4>1, <4>2
    <3>2. CASE page \notin DOMAIN table
      <4>1. RowOK(NewRow(s.tid, node), since[page], seen[page])
        BY <1>2, <2>1, <2>5, NewRowOK
      <4>2. RowOK(AddToRow(NewRow(s.tid, node), s, node), since[page] + 1, seen[page] \cup {node})
        BY <1>1, <2>1, <2>5, <2>6, <4>1, AddToRowOK
      <4>3. table'[page] = AddToRow(NewRow(s.tid, node), s, node)
        BY <2>2, <3>2
      <4> QED  BY <2>5, <4>2, <4>3
    <3> QED  BY <3>1, <3>2
  <2>8. \A p \in DOMAIN table' : RowOK(table'[p], since'[p], seen'[p])
    <3> SUFFICES ASSUME NEW p \in DOMAIN table', p # page
                 PROVE  RowOK(table'[p], since'[p], seen'[p])
      BY <2>7
    <3>1. p \in DOMAIN table /\ table'[p] = table[p] /\ since'[p] = since[p] /\ seen'[p] = seen[p]
      BY <2>2, <2>3
    <3> QED  BY <2>3, <3>1
  <2>9. TableInv'
    BY <1>3, <2>2, <2>3, <2>4, <2>8 DEF TableInv
  <2>10. TotalsInv'
    BY <1>1, <2>1, <2>2, AddToTotalsType DEF IInv, TotalsInv
  <2>11. ChoiceInv'
    BY <2>2 DEF IInv, ChoiceInv, ProcessSample, stratVars
  <2> QED  BY <1>5, <1>6, <2>9, <2>10, <2>11 DEF IInv
<1> QED  BY <1>7, <1>8

LEMMA NotYetInv ==
  ASSUME IInv, NotYet
  PROVE  IInv'
<1>1. BatchInv'
  BY BatchDone DEF IInv, NotYet
<1>2. TableInv' /\ TotalsInv' /\ ChoiceInv'
  BY TableKept, TotalsKept, ChoiceKept DEF IInv, NotYet, tableVars
<1>3. LoopInv'
  BY LoopKept DEF IInv, NotYet, kernel, regionVars, Phases
<1> QED  BY <1>1, <1>2, <1>3 DEF IInv

LEMMA StartStrategyInv ==
  ASSUME IInv, StartStrategy
  PROVE  IInv'
<1>1. BatchInv'
  BY BatchDone DEF IInv, StartStrategy
<1>2. TableInv' /\ TotalsInv'
  BY TableKept, TotalsKept DEF IInv, StartStrategy, tableVars
<1>3. phase' \in Phases
  BY DEF StartStrategy, Phases
<1>4. LoopInv'
  BY <1>3, LoopKept DEF IInv, StartStrategy, kernel, regionVars
<1>5. MaxPages \in Nat
  BY MaxPagesInNat DEF IInv, TableInv
<1>6. todo' \subseteq DOMAIN table /\ draws' \in Nat /\ (phase' # "choose" => todo' = {})
  BY <1>5 DEF IInv, ChoiceInv, StartStrategy
<1>7. UNCHANGED <<table, considered, cells>> /\ phase # "choose"
  BY DEF StartStrategy, tableVars
<1>8. ChoiceInv'
  BY <1>6, <1>7 DEF IInv, ChoiceInv
<1> QED  BY <1>1, <1>2, <1>4, <1>8 DEF IInv

\* A row is cleared and the history of its page starts again.
LEMMA ClearedTable ==
  ASSUME TableInv, NEW page \in DOMAIN table,
         table' = [table EXCEPT ![page] = ClearedRow(@)],
         since' = [since EXCEPT ![page] = 0], seen' = [seen EXCEPT ![page] = {}]
  PROVE  TableInv' /\ DOMAIN table' = DOMAIN table
<1>1. /\ DOMAIN table \subseteq Pages /\ since \in [Pages -> Nat] /\ seen \in [Pages -> SUBSET Nodes]
      /\ \A p \in DOMAIN table : RowOK(table[p], since[p], seen[p])
  BY DEF TableInv
<1>2. since' \in [Pages -> Nat] /\ seen' \in [Pages -> SUBSET Nodes]
  BY <1>1
<1>3. table[page] \in Row
  BY <1>1 DEF RowOK
<1>4. RowOK(table'[page], since'[page], seen'[page])
  BY <1>1, <1>2, <1>3, ClearedRowOK
<1>5. \A p \in DOMAIN table' : RowOK(table'[p], since'[p], seen'[p])
  <2> SUFFICES ASSUME NEW p \in DOMAIN table', p # page
               PROVE  RowOK(table'[p], since'[p], seen'[p])
    BY <1>4
  <2> QED  BY <1>1
<1> QED  BY <1>1, <1>2, <1>5 DEF TableInv

\* A cell for a page of the table, to a node, is well formed.
LEMMA NewCellOK ==
  ASSUME TableInv, ChoiceInv, NEW page \in DOMAIN table, NEW dst \in Nodes, NEW pages,
         cells' = cells \cup {[head |-> page, pages |-> pages, pid |-> table[page].pid,
                               src |-> table[page].node, dst |-> dst]},
         DOMAIN table' = DOMAIN table
  PROVE  \A c \in cells' : c.head \in DOMAIN table' /\ c.pid \in Tids /\ c.src \in Nodes /\ c.dst \in Nodes
<1>1. table[page].pid \in Tids /\ table[page].node \in Nodes
  BY DEF TableInv, RowOK, Row
<1> QED  BY <1>1 DEF ChoiceInv

LEMMA ChooseInv ==
  ASSUME IInv, NEW page \in Pages, Choose(page)
  PROVE  IInv'
<1>1. page \in todo /\ page \in DOMAIN table
  BY DEF IInv, ChoiceInv, Choose
<1>2. TableInv' /\ DOMAIN table' = DOMAIN table
  BY <1>1, ClearedTable DEF IInv, Choose
<1>3. BatchInv' /\ TotalsInv'
  BY BatchKept, TotalsKept DEF IInv, Choose
<1>4. LoopInv'
  BY LoopKept DEF IInv, LoopInv, Choose, kernel, regionVars
<1>5. PICK dst \in Destinations(table[page]) : AddCell(page, {page} \cup Prefetched(page, dst), dst)
  BY DEF Choose
<1>6. dst \in Nodes
  BY DestinationsAreNodes
<1>7. \A c \in cells' : c.head \in DOMAIN table' /\ c.pid \in Tids /\ c.src \in Nodes /\ c.dst \in Nodes
  BY <1>1, <1>2, <1>5, <1>6, NewCellOK DEF IInv, AddCell
<1>8. ChoiceInv'
  BY <1>2, <1>7 DEF IInv, ChoiceInv, Choose
<1> QED  BY <1>2, <1>3, <1>4, <1>8 DEF IInv

LEMMA PassOverInv ==
  ASSUME IInv, NEW page \in Pages, PassOver(page)
  PROVE  IInv'
<1>1. BatchInv' /\ TableInv' /\ TotalsInv'
  BY BatchKept, TableKept, TotalsKept DEF IInv, PassOver, tableVars
<1>2. LoopInv'
  BY LoopKept DEF IInv, LoopInv, PassOver, kernel, regionVars
<1>3. ChoiceInv'
  BY DEF IInv, ChoiceInv, PassOver, tableVars
<1> QED  BY <1>1, <1>2, <1>3 DEF IInv

LEMMA ChooseRandomInv ==
  ASSUME IInv, NEW page \in Pages, ChooseRandom(page)
  PROVE  IInv'
<1>1. page \in DOMAIN table
  BY DEF IInv, ChoiceInv, ChooseRandom
<1>2. BatchInv'
  BY BatchKept DEF IInv, ChooseRandom
<1>3. LoopInv'
  BY LoopKept DEF IInv, LoopInv, ChooseRandom, kernel, regionVars
<1>4. /\ todo' = todo \ {page}
      /\ UNCHANGED <<phase, considered, draws>>
  BY DEF ChooseRandom
<1>5. CASE UNCHANGED <<cells, tableVars>>
  <2>1. TableInv' /\ TotalsInv'
    BY <1>5, TableKept, TotalsKept DEF IInv, tableVars
  <2>2. ChoiceInv'
    BY <1>4, <1>5 DEF IInv, ChoiceInv, tableVars
  <2> QED  BY <1>2, <1>3, <2>1, <2>2 DEF IInv
<1>6. ASSUME NEW dst \in 0 .. MaxNode - 1,
             cells' = cells \cup {[head |-> page, pages |-> {page}, pid |-> table[page].pid,
                                   src |-> table[page].node, dst |-> dst]},
             table' = [table EXCEPT ![page] = ClearedRow(@)],
             since' = [since EXCEPT ![page] = 0], seen' = [seen EXCEPT ![page] = {}],
             UNCHANGED totals
      PROVE  IInv'
  <2>1. TableInv' /\ DOMAIN table' = DOMAIN table
    BY <1>1, <1>6, ClearedTable DEF IInv
  <2>2. dst \in Nodes
    BY MemoryAssumption DEF Nodes
  <2>3. \A c \in cells' : c.head \in DOMAIN table' /\ c.pid \in Tids /\ c.src \in Nodes /\ c.dst \in Nodes
    BY <1>1, <1>6, <2>1, <2>2, NewCellOK DEF IInv
  <2>4. ChoiceInv'
    BY <1>4, <2>1, <2>3 DEF IInv, ChoiceInv, ChooseRandom
  <2>5. TotalsInv'
    BY <1>6, TotalsKept DEF IInv
  <2> QED  BY <1>2, <1>3, <2>1, <2>4, <2>5 DEF IInv
<1> QED  BY <1>5, <1>6 DEF ChooseRandom

LEMMA DrawInv ==
  ASSUME IInv, NEW page \in Pages, Draw(page)
  PROVE  IInv'
<1>1. BatchInv' /\ TableInv' /\ TotalsInv'
  BY BatchKept, TableKept, TotalsKept DEF IInv, Draw, tableVars
<1>2. LoopInv'
  BY LoopKept DEF IInv, LoopInv, Draw, kernel, regionVars
<1>3. page \in DOMAIN table /\ DOMAIN table' = DOMAIN table
  BY DEF Draw, tableVars
<1>4. \A c \in cells' : c.head \in DOMAIN table' /\ c.pid \in Tids /\ c.src \in Nodes /\ c.dst \in Nodes
  <2>1. PICK dst \in Nodes :
          cells' = IF dst = table[page].node THEN cells
                   ELSE cells \cup {[head |-> page, pages |-> {page}, pid |-> table[page].pid,
                                     src |-> table[page].node, dst |-> dst]}
    BY DEF Draw
  <2>2. CASE cells' = cells
    BY <1>3, <2>2 DEF IInv, ChoiceInv
  <2> QED  BY <1>3, <2>1, <2>2, NewCellOK DEF IInv
<1>5. draws' \in Nat /\ UNCHANGED <<phase, todo, considered>> /\ phase = "choose"
  BY DEF IInv, ChoiceInv, Draw
<1>6. ChoiceInv'
  BY <1>3, <1>4, <1>5 DEF IInv, ChoiceInv
<1> QED  BY <1>1, <1>2, <1>6 DEF IInv

LEMMA ChosenInv ==
  ASSUME IInv, Chosen
  PROVE  IInv'
<1>1. BatchInv' /\ TableInv' /\ TotalsInv'
  BY BatchKept, TableKept, TotalsKept DEF IInv, Chosen, tableVars
<1>2. LoopInv'
  BY LoopKept DEF IInv, Chosen, kernel, regionVars, Phases
<1>3. ChoiceInv'
  BY DEF IInv, ChoiceInv, Chosen, tableVars
<1> QED  BY <1>1, <1>2, <1>3 DEF IInv

LEMMA PerformInv ==
  ASSUME IInv, NEW pid \in Tids, Perform(pid)
  PROVE  IInv'
<1>1. BatchInv' /\ TableInv' /\ TotalsInv'
  BY BatchKept, TableKept, TotalsKept DEF IInv, Perform, tableVars
<1>2. place' \in [Procs -> [Pages -> Nodes]] /\ UNCHANGED <<options, phase, left, fake_thp_regions>>
  BY Zenon DEF Perform, regionVars
<1>3. LoopInv'
  BY <1>2 DEF IInv, LoopInv
<1>4. cells' \subseteq cells /\ UNCHANGED <<phase, todo, considered, draws, table>>
  BY DEF Perform, tableVars
<1>5. ChoiceInv'
  BY <1>4 DEF IInv, ChoiceInv
<1> QED  BY <1>1, <1>3, <1>5 DEF IInv

LEMMA ClearDataInv ==
  ASSUME IInv, ClearData
  PROVE  IInv'
<1>1. BatchInv'
  BY BatchKept DEF IInv, ClearData
<1>2. LoopInv'
  BY LoopKept DEF IInv, ClearData, kernel, regionVars, Phases
<1>3. DOMAIN table' \subseteq DOMAIN table /\ \A p \in DOMAIN table' : table'[p] = table[p]
  BY DEF ClearData, Restrict, Empty
<1>4. TableInv'
  <2>1. UNCHANGED <<since, seen>>
    BY DEF ClearData
  <2> QED  BY <1>3, <2>1 DEF IInv, TableInv
<1>5. TotalsInv'
  <2>1. NewTotals \in [accesses : Nat, av : Nat, acc : [Nodes -> Nat], lat : [Nodes -> Nat]]
    BY MemoryAssumption DEF NewTotals
  <2> QED  BY <2>1 DEF IInv, TotalsInv, ClearData
<1>6. ChoiceInv'
  <2>1. cells' = {} /\ todo = {} /\ phase' # "choose" /\ UNCHANGED stratVars
    BY DEF IInv, ChoiceInv, ClearData, stratVars
  <2> QED  BY <2>1 DEF IInv, ChoiceInv, stratVars, ClearData
<1> QED  BY <1>1, <1>2, <1>4, <1>5, <1>6 DEF IInv

-----------------------------------------------------------------------------
(* The theorems.                                                           *)

LEMMA NextInv == IInv /\ [Next]_vars => IInv'
<1> SUFFICES ASSUME IInv, [Next]_vars PROVE IInv'
  OBVIOUS
<1>1. CASE UNCHANGED vars
  BY <1>1, BatchKept, TableKept, TotalsKept, ChoiceKept, LoopKept
     DEF IInv, LoopInv, vars, kernel, regionVars, tableVars
<1>2. CASE Next
  BY <1>2, RemapInv, UpdateInv, UpdateFakeThpsInv, ReadSamplesInv, ProcessSampleInv,
     NotYetInv, StartStrategyInv, ChooseInv, PassOverInv, ChooseRandomInv, DrawInv,
     ChosenInv, PerformInv, ClearDataInv, Zenon DEF Next
<1> QED  BY <1>1, <1>2

LEMMA Invariance == Spec => []IInv
BY InitInv, NextInv, PTL DEF Spec

\* Rows lie at starts of pages, the nodes of pages and of cells exist, and
\* the running averages stay natural numbers, whatever is sampled and however
\* the regions change.
THEOREM TypeCorrect == Spec => []TypeOK
<1>1. IInv => TypeOK
  BY DEF IInv, BatchInv, TableInv, LoopInv, ChoiceInv, TotalsInv, TypeOK, RowOK
<1> QED  BY <1>1, Invariance, PTL

\* Only Choose and the actions of rmma make cells.
LEMMA NewCells ==
  ASSUME IInv, [Next]_vars, NEW c \in cells' \ cells
  PROVE  \/ options.strategy = "RMMA"
         \/ \E page \in Pages : /\ Choose(page) /\ c.head = page
                                /\ c.dst \in Destinations(table[page])
<1>1. ASSUME cells' \subseteq cells PROVE FALSE
  BY <1>1
<1>2. ~ UNCHANGED vars
  BY <1>1 DEF vars, stratVars
<1>3. Next
  BY <1>2
<1>4. ASSUME NEW p \in Procs, Remap(p) PROVE FALSE
  BY <1>1, <1>4 DEF Remap, stratVars
<1>5. CASE StartUpdate \/ SkipUpdate \/ ReadMaps \/ ReadNumaMaps \/ UpdateFakeThps
  BY <1>1, <1>5 DEF StartUpdate, SkipUpdate, ReadMaps, ReadNumaMaps, UpdateFakeThps, stratVars
<1>6. CASE ReadSamples \/ ProcessSample \/ NotYet
  BY <1>1, <1>6 DEF ReadSamples, ProcessSample, NotYet, stratVars
<1>7. CASE StartStrategy \/ Chosen
  BY <1>1, <1>7 DEF StartStrategy, Chosen
<1>8. CASE ClearData
  BY <1>1, <1>8 DEF ClearData, stratVars
<1>9. ASSUME NEW pid \in Tids, Perform(pid) PROVE FALSE
  BY <1>1, <1>9 DEF Perform
<1>10. ASSUME NEW page \in Pages, PassOver(page) PROVE FALSE
  BY <1>1, <1>10 DEF PassOver
<1>11. ASSUME NEW page \in Pages, ChooseRandom(page) PROVE options.strategy = "RMMA"
  BY <1>11 DEF ChooseRandom
<1>12. ASSUME NEW page \in Pages, Choose(page)
       PROVE  c.head = page /\ c.dst \in Destinations(table[page])
  BY <1>12 DEF Choose, AddCell
<1>13. ASSUME NEW page \in Pages, Draw(page) PROVE options.strategy = "RMMA"
  BY <1>13 DEF Draw
<1> QED  BY <1>3, <1>4, <1>5, <1>6, <1>7, <1>8, <1>9, <1>10, <1>11, <1>12, <1>13, Zenon DEF Next

\* A page of a cell has been sampled more than SAMPLES_ENOUGH_INFO times
\* since it last led one: the row has no more samples than that.
THEOREM MovesPaid == Spec => MovesArePaid
<1>1. IInv /\ [Next]_vars =>
        [options.strategy # "RMMA" =>
           \A c \in cells' \ cells : since[c.head] > SAMPLES_ENOUGH_INFO]_vars
  <2> SUFFICES ASSUME IInv, [Next]_vars, options.strategy # "RMMA", NEW c \in cells' \ cells
               PROVE  since[c.head] > SAMPLES_ENOUGH_INFO
    OBVIOUS
  <2>1. PICK page \in Pages : Choose(page) /\ c.head = page
    BY NewCells
  <2>2. page \in DOMAIN table /\ table[page].count > SAMPLES_ENOUGH_INFO
    BY <2>1 DEF IInv, ChoiceInv, Choose, IsCandidate
  <2>3. RowOK(table[page], since[page], seen[page]) /\ since[page] \in Nat
    BY <2>2 DEF IInv, TableInv
  <2>4. table[page].count \in Nat /\ table[page].count <= since[page]
    BY <2>3 DEF RowOK, Row
  <2>5. SAMPLES_ENOUGH_INFO \in Nat
    BY MemoryAssumption
  <2>6. since[page] > SAMPLES_ENOUGH_INFO
    BY <2>2, <2>3, <2>4, <2>5
  <2> QED  BY <2>1, <2>6
<1> QED  BY <1>1, Invariance, PTL DEF MovesArePaid, Spec

\* tmma sends a page only to a node where one of the samples found it.
THEOREM SentSeen == Spec => SentWhereSeen
<1>1. IInv /\ [Next]_vars =>
        [options.strategy = "TMMA" => \A c \in cells' \ cells : c.dst \in seen[c.head]]_vars
  <2> SUFFICES ASSUME IInv, [Next]_vars, options.strategy = "TMMA", NEW c \in cells' \ cells
               PROVE  c.dst \in seen[c.head]
    OBVIOUS
  <2>1. PICK page \in Pages :
          Choose(page) /\ c.head = page /\ c.dst \in Destinations(table[page])
    BY NewCells
  <2>2. page \in DOMAIN table /\ table[page].count > SAMPLES_ENOUGH_INFO
    BY <2>1 DEF IInv, ChoiceInv, Choose, IsCandidate
  <2>3. RowOK(table[page], since[page], seen[page]) /\ since[page] \in Nat
    BY <2>2 DEF IInv, TableInv
  <2>4. table[page].count > 0
    BY <2>2, <2>3, MemoryAssumption DEF RowOK, Row
  <2>5. c.dst \in Preferred(table[page])
    BY <2>1 DEF Destinations, TmmaDestinations
  <2> QED  BY <2>1, <2>3, <2>4, <2>5, PreferredIsSeen
<1> QED  BY <1>1, Invariance, PTL DEF SentWhereSeen, Spec

-----------------------------------------------------------------------------
(* Regions, for a program of one process.  (Those of several are kept in    *)
(* one map by their addresses, and hide each other.)                        *)

MemoryEnd == (MaxPage + 1) * PageSize

\* begin -> end of regions that lie on whole pages and do not overlap; the one
\* of the empty line at the end of the files is of no address.
RegionMap(f) ==
  /\ DOMAIN f \subseteq Pages
  /\ \A b \in DOMAIN f : f[b] \in Pages \cup {MemoryEnd}
  /\ \A b, c \in DOMAIN f : b < c => f[b] <= c

\* What maps listed is the layout of one moment, so that what is left of it
\* when numa_maps is read later is free of overlaps whatever changed between.
RegionsInv ==
  /\ vmas \in [Procs -> Layouts]
  /\ RegionMap(memory_regions)
  /\ phase = "numa_maps" => RegionMap(maps)
  /\ phase \in {"maps", "numa_maps"} => left = Procs /\ memory_regions = Empty
  /\ fake_thp_enabled /\ phase \notin {"maps", "numa_maps", "chunks"} =>
       fake_thp_regions = Chunks(memory_regions)

LEMMA EndInNat == MemoryEnd \in Nat /\ Pages \subseteq Nat /\ 0 \in Pages
<1>1. MaxPage \in Nat /\ PageSize \in Nat /\ 0 \in 0 .. MaxPage /\ 0 * PageSize = 0
  BY MemoryAssumption
<1>2. MemoryEnd \in Nat
  BY <1>1 DEF MemoryEnd
<1>3. 0 \in Pages
  BY <1>1 DEF Pages
<1> QED  BY <1>2, <1>3, PagesAreNat

LEMMA EmptyRegions == RegionMap(Empty) /\ Chunks(Empty) = Empty
BY DEF RegionMap, Chunks, Empty

\* The maps file of one moment.
LEMMA MapsOfLayout ==
  ASSUME NEW r \in Layouts
  PROVE  RegionMap([b \in {x.begin : x \in r} \cup {0} |->
                      IF b = 0 THEN 0 ELSE (CHOOSE x \in r : x.begin = b).end])
<1> DEFINE begins == {x.begin : x \in r}
           At(b) == CHOOSE x \in r : x.begin = b
           f == [b \in begins \cup {0} |-> IF b = 0 THEN 0 ELSE At(b).end]
<1>1. \A x \in r : x.begin \in Pages \ {0} /\ x.end \in Pages \cup {MemoryEnd}
  BY MemoryAssumption DEF MemoryEnd
<1>2. \A x, y \in r : x.begin < x.end /\ (x # y => x.end <= y.begin \/ y.end <= x.begin)
  BY KernelAssumption
<1>3. \A b \in begins : At(b) \in r /\ At(b).begin = b
  OBVIOUS
<1>4. \A b \in begins : b \in Pages \ {0} /\ At(b).end \in Pages \cup {MemoryEnd}
  BY <1>1, <1>3
<1>5. \A b, c \in begins : b < c => At(b).end <= c
  <2> SUFFICES ASSUME NEW b \in begins, NEW c \in begins, b < c PROVE At(b).end <= c
    OBVIOUS
  <2> DEFINE x == At(b)
             y == At(c)
  <2>1. x \in r /\ y \in r /\ x.begin = b /\ y.begin = c
    BY <1>3
  <2>2. b \in Nat /\ c \in Nat /\ x.end \in Nat /\ y.end \in Nat
    BY <1>4, EndInNat
  <2> HIDE DEF x, y
  <2>3. x # y /\ c < y.end
    BY <1>2, <2>1, <2>2
  <2>4. x.end <= c \/ y.end <= b
    BY <1>2, <2>1, <2>3
  <2>5. x.end <= c
    BY <2>2, <2>3, <2>4
  <2> QED  BY <2>5 DEF x
<1>6. DOMAIN f = begins \cup {0} /\ f[0] = 0 /\ \A b \in begins : f[b] = At(b).end
  BY <1>4
<1> HIDE DEF f, begins, At
<1>7. RegionMap(f)
  <2>1. DOMAIN f \subseteq Pages /\ \A b \in DOMAIN f : f[b] \in Pages \cup {MemoryEnd}
    BY <1>4, <1>6, EndInNat
  <2>2. \A b, c \in DOMAIN f : b < c => f[b] <= c
    <3> SUFFICES ASSUME NEW b \in DOMAIN f, NEW c \in DOMAIN f, b < c PROVE f[b] <= c
      OBVIOUS
    <3>1. b \in Nat /\ c \in Nat
      BY <2>1, EndInNat
    <3>2. CASE b = 0
      BY <1>6, <3>1, <3>2
    <3>3. CASE b # 0
      <4>1. b \in begins /\ c \in begins
        BY <1>6, <3>1, <3>3
      <4> QED  BY <1>5, <1>6, <4>1
    <3> QED  BY <3>2, <3>3
  <2> QED  BY <2>1, <2>2 DEF RegionMap
<1> QED  BY <1>7 DEF f, begins, At

LEMMA PartOfMap ==
  ASSUME NEW f, RegionMap(f), NEW S \in SUBSET DOMAIN f
  PROVE  RegionMap([b \in S |-> f[b]])
BY DEF RegionMap

-----------------------------------------------------------------------------
(* Addresses.                                                               *)

LEMMA AddressesAreNat == \A addr \in Addresses : addr \in Nat /\ addr < MemoryEnd
<1>1. MemoryEnd \in Nat /\ Addresses = 0 .. MemoryEnd - 1
  BY EndInNat DEF Addresses, MemoryEnd
<1> QED  BY <1>1

-----------------------------------------------------------------------------
(* Chunks.                                                                  *)

ChunkSize == options.fake_thp_size * PageSize

LEMMA WholeNumberOfChunks ==
  ASSUME NEW x \in Nat, NEW k \in Nat \ {0}, x % k = 0
  PROVE  x \div k \in Nat /\ x = (x \div k) * k
OBVIOUS

LEMMA MultipleHasNoRest ==
  ASSUME NEW q \in Nat, NEW k \in Nat \ {0}
  PROVE  (q * k) % k = 0 /\ q * k \in Nat
OBVIOUS

\* Two multiples of k that are less than k before x are the same.
LEMMA SameMultiple ==
  ASSUME NEW p \in Nat, NEW q \in Nat, NEW k \in Nat \ {0}, NEW x \in Nat,
         p * k <= x, x < p * k + k, q * k <= x, x < q * k + k
  PROVE  p = q
<1>1. \A r \in Nat : (r + 1) * k = r * k + k /\ r * k \in Nat
  OBVIOUS
<1>2. p * k < (q + 1) * k /\ q * k < (p + 1) * k
  BY <1>1
<1>3. p < q + 1 /\ q < p + 1
  <2> p + 1 \in Nat /\ q + 1 \in Nat
    OBVIOUS
  <2> QED  BY <1>2, MonotoneProduct
<1> QED  BY <1>3

LEMMA ChunkSizePositive ==
  ASSUME LoopInv, fake_thp_enabled PROVE ChunkSize \in Nat \ {0}
<1>1. options.fake_thp_size \in Nat \ {0} /\ PageSize \in Nat \ {0}
  BY MemoryAssumption DEF LoopInv, fake_thp_enabled
<1> DEFINE n == options.fake_thp_size
<1> HIDE DEF n
<1>2. n \in Nat \ {0} => n * PageSize \in Nat \ {0}
  BY <1>1
<1> QED  BY <1>1, <1>2 DEF n, ChunkSize

\* An address of a region lies in one of its chunks.
LEMMA ChunkOfAddress ==
  ASSUME LoopInv, fake_thp_enabled, NEW b \in Pages, NEW e \in Nat, NEW addr \in Nat,
         b <= addr, addr < e, addr < MemoryEnd
  PROVE  \E s \in ChunkStarts(b, e) : s <= addr /\ addr < ChunkEnd(s, e)
<1> DEFINE k == ChunkSize
           q == (addr - b) \div k
           s == b + q * k
<1>1. k \in Nat \ {0} /\ PageSize \in Nat \ {0} /\ b \in Nat /\ MaxPage \in Nat
  BY ChunkSizePositive, MemoryAssumption, EndInNat
<1>2. q \in Nat /\ q * k <= addr - b /\ addr - b < (q + 1) * k
  <2>1. addr - b \in Nat
    BY <1>1
  <2> HIDE DEF k
  <2> QED  BY <1>1, <2>1, Quotient
<1> HIDE DEF q
<1>3. q * k \in Nat /\ (q + 1) * k = q * k + k /\ (q * k) % k = 0
  <2> HIDE DEF k
  <2> QED  BY <1>1, <1>2, MultipleHasNoRest
<1>4. s \in Nat /\ s <= addr /\ addr < s + k /\ s - b = q * k /\ b <= s
  <2> HIDE DEF k
  <2> QED  BY <1>1, <1>2, <1>3
<1>5. s \in Pages
  <2>1. PICK m \in 0 .. MaxPage : b = m * PageSize
    BY DEF Pages
  <2> DEFINE size == options.fake_thp_size
             j == m + q * size
  <2>2. size \in Nat /\ m \in Nat
    BY MemoryAssumption DEF LoopInv
  <2>3. j \in Nat /\ s = j * PageSize
    <3> HIDE DEF size
    <3>1. q * size \in Nat
      BY <1>2, <2>2
    <3>2. q * (size * PageSize) = (q * size) * PageSize
      BY <1>1, <1>2, <2>2
    <3>3. k = size * PageSize
      BY DEF ChunkSize, size
    <3>4. (m + q * size) * PageSize = m * PageSize + (q * size) * PageSize
      BY <1>1, <2>2, <3>1
    <3> HIDE DEF k
    <3> QED  BY <2>1, <2>2, <3>1, <3>2, <3>3, <3>4
  <2>4. j * PageSize < (MaxPage + 1) * PageSize
    <3> HIDE DEF s, j
    <3> QED  BY <1>4, <2>3, EndInNat DEF MemoryEnd
  <2>5. j < MaxPage + 1
    <3> HIDE DEF j
    <3> QED  BY <1>1, <2>3, <2>4, MonotoneProduct
  <2> HIDE DEF j, s
  <2> QED  BY <1>1, <2>3, <2>5 DEF Pages
<1>6. s \in ChunkStarts(b, e)
  <2>1. s < e /\ (s - b) % k = 0
    <3> HIDE DEF k, s
    <3> QED  BY <1>3, <1>4
  <2> HIDE DEF s
  <2> QED  BY <1>4, <1>5, <2>1 DEF ChunkStarts, ChunkSize
<1>7. addr < ChunkEnd(s, e)
  <2> HIDE DEF s
  <2> QED  BY <1>4 DEF ChunkEnd, ChunkSize
<1> HIDE DEF s
<1> QED  BY <1>4, <1>6, <1>7

\* It lies in no other of them.
LEMMA OneChunkOfAddress ==
  ASSUME LoopInv, fake_thp_enabled, NEW b \in Pages, NEW e \in Nat, NEW addr \in Nat,
         NEW s \in ChunkStarts(b, e), s <= addr, addr < ChunkEnd(s, e),
         NEW t \in ChunkStarts(b, e), t <= addr, addr < ChunkEnd(t, e)
  PROVE  s = t
<1> DEFINE k == ChunkSize
           x == addr - b
<1>1. k \in Nat \ {0} /\ b \in Nat /\ s \in Nat /\ t \in Nat
  BY ChunkSizePositive, EndInNat DEF ChunkStarts
<1>2. b <= s /\ b <= t /\ (s - b) % k = 0 /\ (t - b) % k = 0
  BY DEF ChunkStarts, ChunkSize
<1>3. addr < s + k /\ addr < t + k
  BY <1>1 DEF ChunkEnd, ChunkSize
<1> HIDE DEF k
<1>4. s - b \in Nat /\ t - b \in Nat /\ x \in Nat
  BY <1>1, <1>2
<1>5. PICK p \in Nat : s - b = p * k
  BY <1>1, <1>2, <1>4, WholeNumberOfChunks
<1>6. PICK q \in Nat : t - b = q * k
  BY <1>1, <1>2, <1>4, WholeNumberOfChunks
<1>7. p * k <= x /\ x < p * k + k /\ q * k <= x /\ x < q * k + k
  BY <1>1, <1>3, <1>4, <1>5, <1>6
<1>8. p = q
  BY <1>1, <1>4, <1>7, SameMultiple
<1> QED  BY <1>1, <1>5, <1>6, <1>8

\* A chunk does not go beyond its region.
LEMMA ChunkInRegion ==
  ASSUME NEW b \in Nat, NEW e \in Nat, NEW s \in ChunkStarts(b, e)
  PROVE  b <= s /\ s < e /\ (ChunkSize \in Nat => ChunkEnd(s, e) <= e)
BY EndInNat DEF ChunkStarts, ChunkEnd, ChunkSize

\* A chunk is of one region.
LEMMA RegionOfChunk ==
  ASSUME NEW f, RegionMap(f), NEW b \in DOMAIN f, NEW s \in ChunkStarts(b, f[b])
  PROVE  s \in DOMAIN Chunks(f) /\ Chunks(f)[s] = ChunkEnd(s, f[b])
<1>1. /\ DOMAIN f \subseteq Nat
      /\ \A c \in DOMAIN f : f[c] \in Nat
      /\ \A c, d \in DOMAIN f : c < d => f[c] <= d
  BY EndInNat DEF RegionMap
<1>2. \A c \in DOMAIN f : s \in ChunkStarts(c, f[c]) => c = b
  <2> SUFFICES ASSUME NEW c \in DOMAIN f, s \in ChunkStarts(c, f[c]) PROVE c = b
    OBVIOUS
  <2>1. b <= s /\ s < f[b] /\ c <= s /\ s < f[c] /\ s \in Nat
    BY EndInNat DEF ChunkStarts
  <2>2. ~(b < c) /\ ~(c < b)
    BY <1>1, <2>1
  <2> QED  BY <1>1, <2>2
<1> DEFINE Owner == CHOOSE d \in DOMAIN f :
              /\ s \in ChunkStarts(d, f[d])
              /\ \A c \in DOMAIN f : s \in ChunkStarts(c, f[c]) => d <= c
<1>3. b <= b
  BY <1>1
<1>4. Owner = b
  BY <1>2, <1>3
<1>5. s \in UNION {ChunkStarts(d, f[d]) : d \in DOMAIN f}
  OBVIOUS
<1>6. DOMAIN Chunks(f) = UNION {ChunkStarts(d, f[d]) : d \in DOMAIN f}
  BY DEF Chunks
<1>7. Chunks(f)[s] = ChunkEnd(s, f[Owner])
  BY <1>5, Zenon DEF Chunks
<1> HIDE DEF Owner
<1> QED  BY <1>4, <1>5, <1>6, <1>7

In(f, addr) == {b \in DOMAIN f : b <= addr /\ addr < f[b]}

\* Each address lies in as many chunks as regions: one or none.
LEMMA ChunksCover ==
  ASSUME LoopInv, fake_thp_enabled, NEW f, RegionMap(f), NEW addr \in Addresses
  PROVE  Cardinality(In(Chunks(f), addr)) = Cardinality(In(f, addr))
<1> DEFINE g == Chunks(f)
<1>1. /\ DOMAIN f \subseteq Nat /\ DOMAIN f \subseteq Pages
      /\ \A c \in DOMAIN f : f[c] \in Nat
      /\ \A c, d \in DOMAIN f : c < d => f[c] <= d
  BY EndInNat DEF RegionMap
<1>2. addr \in Nat /\ addr < MemoryEnd
  BY AddressesAreNat
<1>3. \A s \in DOMAIN g : \E b \in DOMAIN f :
        s \in ChunkStarts(b, f[b]) /\ g[s] = ChunkEnd(s, f[b])
  <2>1. DOMAIN g = UNION {ChunkStarts(b, f[b]) : b \in DOMAIN f}
    BY DEF Chunks
  <2> HIDE DEF g
  <2> QED  BY <2>1, RegionOfChunk DEF g
<1>4. \A s \in In(g, addr) : \E b \in In(f, addr) :
        s \in ChunkStarts(b, f[b]) /\ s <= addr /\ addr < ChunkEnd(s, f[b])
  <2> SUFFICES ASSUME NEW s \in In(g, addr)
               PROVE  \E b \in In(f, addr) :
                        s \in ChunkStarts(b, f[b]) /\ s <= addr /\ addr < ChunkEnd(s, f[b])
    OBVIOUS
  <2>1. s \in DOMAIN g /\ s <= addr /\ addr < g[s]
    BY DEF In
  <2>2. PICK b \in DOMAIN f : s \in ChunkStarts(b, f[b]) /\ g[s] = ChunkEnd(s, f[b])
    BY <1>3, <2>1
  <2>3. b \in Nat /\ f[b] \in Nat /\ ChunkSize \in Nat /\ s \in Nat
    BY <1>1, <2>2, ChunkSizePositive, EndInNat DEF ChunkStarts
  <2>4. b <= s /\ ChunkEnd(s, f[b]) <= f[b] /\ ChunkEnd(s, f[b]) \in Nat
    BY <2>2, <2>3, ChunkInRegion DEF ChunkEnd, ChunkSize
  <2>5. b <= addr /\ addr < f[b]
    <3> HIDE DEF g
    <3> QED  BY <1>2, <2>1, <2>2, <2>3, <2>4
  <2> QED  BY <2>1, <2>2, <2>5 DEF In
<1>5. \A b, c \in In(f, addr) : b = c
  <2> SUFFICES ASSUME NEW b \in In(f, addr), NEW c \in In(f, addr) PROVE b = c
    OBVIOUS
  <2>1. /\ b \in DOMAIN f /\ b <= addr /\ addr < f[b]
        /\ c \in DOMAIN f /\ c <= addr /\ addr < f[c]
    BY DEF In
  <2>2. ~(b < c) /\ ~(c < b)
    BY <1>1, <1>2, <2>1
  <2> QED  BY <1>1, <2>1, <2>2
<1>6. CASE In(f, addr) = {}
  <2>1. In(g, addr) = {}
    BY <1>4, <1>6
  <2> QED  BY <1>6, <2>1
<1>7. CASE In(f, addr) # {}
  <2>1. PICK b \in In(f, addr) : TRUE
    BY <1>7
  <2>2. b \in DOMAIN f /\ b \in Pages /\ f[b] \in Nat /\ b <= addr /\ addr < f[b]
    BY <1>1 DEF In
  <2>3. PICK s \in ChunkStarts(b, f[b]) : s <= addr /\ addr < ChunkEnd(s, f[b])
    BY <1>2, <2>2, ChunkOfAddress
  <2>4. s \in In(g, addr)
    BY <2>2, <2>3, RegionOfChunk DEF In
  <2>5. \A t \in In(g, addr) : t = s
    BY <1>2, <1>4, <1>5, <2>2, <2>3, OneChunkOfAddress
  <2>6. In(g, addr) = {s} /\ In(f, addr) = {b}
    BY <1>5, <2>4, <2>5
  <2> HIDE DEF g
  <2> QED  BY <2>6, FS_Singleton DEF g
<1> QED  BY <1>6, <1>7

-----------------------------------------------------------------------------
(* The regions of one process, in every state.                              *)

LEMMA RegionsInit == Init => RegionsInv
<1> SUFFICES ASSUME Init PROVE RegionsInv
  OBVIOUS
<1>1. vmas \in [Procs -> Layouts] /\ memory_regions = Empty /\ fake_thp_regions = Empty /\ phase = "update"
  BY DEF Init
<1> QED  BY <1>1, EmptyRegions, Zenon DEF RegionsInv

\* What is not about regions leaves them alone.
RegionsAlone ==
  /\ UNCHANGED <<vmas, left, maps, memory_regions, fake_thp_regions, shown, options>>
  /\ phase' = phase \/ {phase, phase'} \cap {"maps", "numa_maps", "chunks"} = {}

LEMMA AloneKeepsRegions == ASSUME RegionsInv, RegionsAlone PROVE RegionsInv'
<1>1. memory_regions' = memory_regions /\ options' = options
  BY DEF RegionsAlone
<1>2. Chunks(memory_regions)' = Chunks(memory_regions)
  BY <1>1 DEF Chunks, ChunkStarts, ChunkEnd
<1> QED
  BY <1>1, <1>2 DEF RegionsInv, RegionsAlone, RegionMap, fake_thp_enabled

LEMMA OthersLeaveRegions ==
  ASSUME \/ SkipUpdate \/ ReadSamples \/ ProcessSample \/ NotYet \/ StartStrategy \/ Chosen \/ ClearData
         \/ \E page \in Pages : Choose(page) \/ PassOver(page) \/ ChooseRandom(page) \/ Draw(page)
         \/ \E pid \in Tids : Perform(pid)
  PROVE  RegionsAlone
<1>1. CASE SkipUpdate \/ ReadSamples \/ ProcessSample \/ NotYet
  BY <1>1 DEF SkipUpdate, ReadSamples, ProcessSample, NotYet, RegionsAlone, kernel, regionVars
<1>2. CASE StartStrategy \/ Chosen \/ ClearData
  BY <1>2 DEF StartStrategy, Chosen, ClearData, RegionsAlone, kernel, regionVars
<1>3. CASE \E page \in Pages : Choose(page) \/ PassOver(page) \/ ChooseRandom(page) \/ Draw(page)
  BY <1>3 DEF Choose, PassOver, ChooseRandom, Draw, RegionsAlone, kernel, regionVars
<1>4. CASE \E pid \in Tids : Perform(pid)
  BY <1>4 DEF Perform, RegionsAlone, regionVars
<1> QED  BY <1>1, <1>2, <1>3, <1>4

OneProcess == \E p : Procs = {p}

LEMMA RegionsStep ==
  ASSUME OneProcess
  PROVE  IInv /\ RegionsInv /\ [Next]_vars => RegionsInv'
<1> SUFFICES ASSUME IInv, RegionsInv, [Next]_vars PROVE RegionsInv'
  OBVIOUS
<1>1. CASE UNCHANGED vars
  BY <1>1, AloneKeepsRegions DEF vars, kernel, regionVars, RegionsAlone
<1>2. ASSUME NEW p \in Procs, Remap(p) PROVE RegionsInv'
  <2>1. PICK layout \in Layouts : vmas' = [vmas EXCEPT ![p] = layout]
    BY <1>2 DEF Remap
  <2>2. UNCHANGED <<options, phase, left, maps, memory_regions, fake_thp_regions>>
    BY <1>2 DEF Remap, regionVars
  <2>3. Chunks(memory_regions)' = Chunks(memory_regions)
    BY <2>2 DEF Chunks, ChunkStarts, ChunkEnd
  <2> QED  BY <2>1, <2>2, <2>3 DEF RegionsInv, RegionMap, fake_thp_enabled
<1>3. CASE StartUpdate
  BY <1>3, EmptyRegions DEF StartUpdate, RegionsInv, kernel, RegionMap
<1>4. CASE ReadMaps
  <2>1. PICK p : Procs = {p}
    BY DEF OneProcess
  <2>2. left = {p} /\ memory_regions = Empty /\ phase = "maps"
    BY <1>4, <2>1 DEF ReadMaps, RegionsInv
  <2>3. p \in Nat
    BY <2>1, KernelAssumption DEF Procs
  <2>4. Reading = p
    BY <2>2, <2>3 DEF Reading
  <2>5. vmas[p] \in Layouts
    BY <2>1 DEF RegionsInv
  <2>6. RegionMap(maps')
    BY <1>4, <2>4, <2>5, MapsOfLayout DEF ReadMaps
  <2> QED  BY <1>4, <2>2, <2>6 DEF ReadMaps, RegionsInv, kernel, RegionMap
<1>5. CASE ReadNumaMaps
  <2> DEFINE both == DOMAIN maps \cap ({r.begin : r \in vmas[Reading]} \cup {0})
  <2>1. PICK p : Procs = {p}
    BY DEF OneProcess
  <2>2. left = {p} /\ memory_regions = Empty /\ RegionMap(maps)
    BY <1>5, <2>1 DEF ReadNumaMaps, RegionsInv
  <2>3. p \in Nat
    BY <2>1, KernelAssumption DEF Procs
  <2>4. Reading = p
    BY <2>2, <2>3 DEF Reading
  <2>5. left' = {} /\ phase' = "chunks" /\ UNCHANGED vmas
    BY <1>5, <2>2, <2>4 DEF ReadNumaMaps, kernel
  <2>6. memory_regions' = [b \in both |-> maps[b]]
    BY <1>5, <2>2 DEF ReadNumaMaps, Empty
  <2>7. RegionMap(memory_regions')
    <3> HIDE DEF both
    <3>1. both \in SUBSET DOMAIN maps
      BY DEF both
    <3> QED  BY <2>2, <2>6, <3>1, PartOfMap
  <2> QED  BY <2>5, <2>7 DEF RegionsInv, RegionMap
<1>6. CASE UpdateFakeThps
  <2>1. UNCHANGED <<vmas, options, left, maps, memory_regions>> /\ phase' = "read"
    BY <1>6 DEF UpdateFakeThps, kernel
  <2>2. Chunks(memory_regions)' = Chunks(memory_regions)
    BY <2>1 DEF Chunks, ChunkStarts, ChunkEnd
  <2>3. fake_thp_enabled' => fake_thp_regions' = Chunks(memory_regions)
    BY <1>6, <2>1 DEF UpdateFakeThps, fake_thp_enabled
  <2> QED  BY <2>1, <2>2, <2>3 DEF RegionsInv, RegionMap
<1> QED
  BY <1>1, <1>2, <1>3, <1>4, <1>5, <1>6, OthersLeaveRegions, AloneKeepsRegions DEF Next

LEMMA RegionsAlways == ASSUME OneProcess PROVE Spec => []RegionsInv
BY RegionsInit, RegionsStep, Invariance, PTL DEF Spec

\* Of a program of one process: whenever chunks are used, each address of a region lies
\* in exactly one of them, and no chunk goes beyond its region, for every size
\* of pages and of chunks.
THEOREM ChunksCoverRegions == ASSUME OneProcess PROVE Spec => []ChunksPartition
<1>1. IInv /\ RegionsInv => ChunksPartition
  <2> SUFFICES ASSUME LoopInv, RegionsInv, fake_thp_enabled,
                      phase \notin {"maps", "numa_maps", "chunks"}, NEW addr \in Addresses
               PROVE  Cardinality(In(fake_thp_regions, addr)) = Cardinality(In(memory_regions, addr))
    BY DEF IInv, ChunksPartition, In
  <2> QED  BY ChunksCover DEF RegionsInv
<1> QED  BY <1>1, RegionsAlways, Invariance, PTL

-----------------------------------------------------------------------------
(* Where regions come from, for any number of processes: each entry of the  *)
(* map is a region that a process, already read in this update, had when    *)
(* its maps was read; between the two files the entries of maps are regions *)
(* of the process being read.                                               *)

ListedBy(f, procs) ==
  \A b \in DOMAIN f :
    IF b = 0 THEN f[b] = 0 ELSE \E p \in procs : \E r \in shown[p] : r.begin = b /\ r.end = f[b]

ShownInv ==
  /\ vmas \in [Procs -> Layouts] /\ shown \in [Procs -> Layouts \cup {{}}]
  /\ left \subseteq Procs
  /\ phase \in {"maps", "numa_maps"} => left # {}
  /\ ListedBy(memory_regions, Procs \ left)
  /\ phase = "numa_maps" => ListedBy(maps, {Reading})

LEMMA ProcsHaveNumbers == Procs # {} /\ Procs \subseteq Nat
BY MemoryAssumption, KernelAssumption DEF Procs

\* The order of the numbers, as a relation.
Less == {ss \in Nat \X Nat : ss[1] < ss[2]}

\* The next process to be read is one of those left: the one with the least number.
LEMMA ReadingIsLeft == ASSUME left \subseteq Procs, left # {} PROVE Reading \in left
<1>1. left \subseteq Nat
  BY ProcsHaveNumbers
<1>2. Less = OpToRel(<, Nat)
  BY DEF Less, OpToRel
<1>3. PICK p \in left : \A q \in left : ~(<<q, p>> \in Less)
  BY <1>1, <1>2, NatLessThanWellFounded, WFMin
<1>4. ASSUME NEW q \in left PROVE p <= q
  <2>1. p \in Nat /\ q \in Nat
    BY <1>1
  <2>2. ~(q < p)
    BY <1>3, <2>1 DEF Less
  <2> QED  BY <2>1, <2>2
<1> QED  BY <1>4 DEF Reading

LEMMA ShownInit == Init => ShownInv
BY DEF Init, ShownInv, ListedBy, Empty

ShownAlone ==
  /\ UNCHANGED <<left, maps, memory_regions, shown>> /\ vmas' \in [Procs -> Layouts]
  /\ phase' = phase \/ phase' \notin {"maps", "numa_maps"}

LEMMA AloneKeepsShown == ASSUME ShownInv, ShownAlone PROVE ShownInv'
<1>1. ListedBy(memory_regions, Procs \ left)' /\ (phase = "numa_maps" => ListedBy(maps, {Reading})')
  BY DEF ShownInv, ShownAlone, ListedBy, Reading
<1> QED  BY <1>1 DEF ShownInv, ShownAlone

LEMMA ReadMapsShown == ShownInv /\ ReadMaps => ShownInv'
<1> SUFFICES ASSUME ShownInv, ReadMaps PROVE ShownInv'
  OBVIOUS
<1> DEFINE r == vmas[Reading]
           At(b) == CHOOSE x \in r : x.begin = b
           begins == {x.begin : x \in r}
<1>1. left \subseteq Procs /\ left # {} /\ Reading \in left
  BY ReadingIsLeft DEF ShownInv, ReadMaps
<1>2. /\ UNCHANGED <<vmas, left, memory_regions>> /\ phase' = "numa_maps"
      /\ maps' = [b \in begins \cup {0} |-> IF b = 0 THEN 0 ELSE At(b).end]
      /\ shown' = [shown EXCEPT ![Reading] = r]
  BY DEF ReadMaps, kernel
<1>3. r \in Layouts /\ shown \in [Procs -> Layouts \cup {{}}]
  BY <1>1 DEF ShownInv
<1>4. /\ shown' \in [Procs -> Layouts \cup {{}}] /\ shown'[Reading] = r
      /\ \A p \in Procs \ left : shown'[p] = shown[p]
  BY <1>1, <1>2, <1>3
<1>5. ListedBy(memory_regions, Procs \ left)'
  BY <1>2, <1>4 DEF ShownInv, ListedBy
<1>6. \A b \in begins : At(b) \in r /\ At(b).begin = b
  OBVIOUS
<1>7. DOMAIN maps' = begins \cup {0} /\ \A b \in DOMAIN maps' : maps'[b] = IF b = 0 THEN 0 ELSE At(b).end
  BY <1>2
<1> HIDE DEF r, At, begins
<1>8. \A b \in DOMAIN maps' :
        IF b = 0 THEN maps'[b] = 0 ELSE \E x \in r : x.begin = b /\ x.end = maps'[b]
  BY <1>6, <1>7
<1>9. Reading' = Reading
  BY <1>2 DEF Reading
<1>10. ListedBy(maps, {Reading})'
  BY <1>4, <1>8, <1>9 DEF ListedBy
<1> QED  BY <1>1, <1>2, <1>4, <1>5, <1>10 DEF ShownInv

LEMMA ReadNumaMapsShown == ShownInv /\ ReadNumaMaps => ShownInv'
<1> SUFFICES ASSUME ShownInv, ReadNumaMaps PROVE ShownInv'
  OBVIOUS
<1> DEFINE both == DOMAIN maps \cap ({r.begin : r \in vmas[Reading]} \cup {0})
<1>1. left \subseteq Procs /\ left # {} /\ Reading \in left /\ ListedBy(maps, {Reading})
  BY ReadingIsLeft DEF ShownInv, ReadNumaMaps
<1>2. /\ UNCHANGED <<vmas, shown>> /\ left' = left \ {Reading}
      /\ phase' = IF left' = {} THEN "chunks" ELSE "maps"
      /\ memory_regions' = [b \in DOMAIN memory_regions \cup both |->
                              IF b \in DOMAIN memory_regions THEN memory_regions[b] ELSE maps[b]]
  BY DEF ReadNumaMaps, kernel
<1>3. both \subseteq DOMAIN maps
  OBVIOUS
<1> HIDE DEF both
<1>4. \A b \in DOMAIN memory_regions' :
        \/ b \in DOMAIN memory_regions /\ memory_regions'[b] = memory_regions[b]
        \/ b \in DOMAIN maps /\ memory_regions'[b] = maps[b]
  BY <1>2, <1>3
<1>5. Procs \ left' = (Procs \ left) \cup {Reading}
  BY <1>1, <1>2
<1>6. ListedBy(memory_regions, Procs \ left)'
  <2> SUFFICES ASSUME NEW b \in DOMAIN memory_regions'
               PROVE  IF b = 0 THEN memory_regions'[b] = 0
                      ELSE \E p \in Procs \ left' : \E r \in shown'[p] :
                             r.begin = b /\ r.end = memory_regions'[b]
    BY DEF ListedBy
  <2>1. CASE b \in DOMAIN memory_regions /\ memory_regions'[b] = memory_regions[b]
    BY <1>2, <1>5, <2>1 DEF ShownInv, ListedBy
  <2>2. CASE b \in DOMAIN maps /\ memory_regions'[b] = maps[b]
    BY <1>1, <1>2, <1>5, <2>2, SMTT(60) DEF ListedBy
  <2> QED  BY <1>4, <2>1, <2>2
<1> QED  BY <1>1, <1>2, <1>6 DEF ShownInv

LEMMA OthersLeaveShown ==
  ASSUME ShownInv,
         \/ SkipUpdate \/ UpdateFakeThps \/ ReadSamples \/ ProcessSample \/ NotYet
         \/ StartStrategy \/ Chosen \/ ClearData
         \/ \E page \in Pages : Choose(page) \/ PassOver(page) \/ ChooseRandom(page) \/ Draw(page)
         \/ \E pid \in Tids : Perform(pid)
  PROVE  ShownAlone
<1>1. CASE SkipUpdate \/ UpdateFakeThps \/ ReadSamples \/ ProcessSample \/ NotYet
  BY <1>1 DEF SkipUpdate, UpdateFakeThps, ReadSamples, ProcessSample, NotYet,
              ShownInv, ShownAlone, kernel, regionVars
<1>2. CASE StartStrategy \/ Chosen \/ ClearData
  BY <1>2 DEF StartStrategy, Chosen, ClearData, ShownInv, ShownAlone, kernel, regionVars
<1>3. CASE \E page \in Pages : Choose(page) \/ PassOver(page) \/ ChooseRandom(page) \/ Draw(page)
  BY <1>3 DEF Choose, PassOver, ChooseRandom, Draw, ShownInv, ShownAlone, kernel, regionVars
<1>4. CASE \E pid \in Tids : Perform(pid)
  BY <1>4 DEF Perform, ShownInv, ShownAlone, regionVars
<1> QED  BY <1>1, <1>2, <1>3, <1>4

LEMMA ShownStep == ShownInv /\ [Next]_vars => ShownInv'
<1> SUFFICES ASSUME ShownInv, [Next]_vars PROVE ShownInv'
  OBVIOUS
<1>1. CASE UNCHANGED vars
  BY <1>1, AloneKeepsShown DEF vars, kernel, regionVars, ShownInv, ShownAlone
<1>2. ASSUME NEW p \in Procs, Remap(p) PROVE ShownInv'
  <2>1. vmas' \in [Procs -> Layouts]
    BY <1>2 DEF Remap, ShownInv
  <2> QED  BY <1>2, <2>1, AloneKeepsShown DEF Remap, ShownAlone, regionVars
<1>3. CASE StartUpdate
  BY <1>3, ProcsHaveNumbers DEF StartUpdate, ShownInv, ListedBy, Empty, kernel
<1> QED
  BY <1>1, <1>2, <1>3, ReadMapsShown, ReadNumaMapsShown, OthersLeaveShown, AloneKeepsShown DEF Next

\* What is found for an address is a region that holds it, as one process had
\* it when its maps was last read, for any processes, layouts and addresses and
\* whatever is mapped anew between and after the reads.
THEOREM FoundRegions == Spec => []FoundIsItsRegion
<1>1. ShownInv => FoundIsItsRegion
  <2> SUFFICES ASSUME ShownInv, NEW addr \in Addresses \ {0}, NEW b \in Lookup(memory_regions, addr)
               PROVE  \E p \in Procs : \E r \in shown[p] :
                        r.begin = b /\ r.end = memory_regions[b] /\ b <= addr /\ addr < r.end
    BY DEF FoundIsItsRegion
  <2>1. addr \in Nat /\ addr # 0
    BY AddressesAreNat
  <2>2. /\ b \in DOMAIN memory_regions
        /\ b = addr \/ (b < addr /\ addr < memory_regions[b])
    BY DEF Lookup
  <2>3. b # 0
    BY <2>1, <2>2 DEF ShownInv, ListedBy
  <2>4. PICK p \in Procs : \E r \in shown[p] : r.begin = b /\ r.end = memory_regions[b]
    BY <2>2, <2>3 DEF ShownInv, ListedBy
  <2>5. PICK r \in shown[p] : r.begin = b /\ r.end = memory_regions[b]
    BY <2>4
  <2>6. shown[p] \in Layouts
    BY <2>5 DEF ShownInv
  <2>7. r.begin < r.end /\ r.begin \in Nat /\ r.end \in Nat
    BY <2>5, <2>6, MemoryAssumption, KernelAssumption, EndInNat DEF MemoryEnd
  <2> QED  BY <2>1, <2>2, <2>5, <2>7
<1> QED  BY <1>1, ShownInit, ShownStep, PTL DEF Spec
=============================================================================
