----------------------- MODULE ThreadMigration_proofs -----------------------
(***************************************************************************)
(* What the runs of ThreadPlacement and of ThreadMigration show for a      *)
(* small machine and program, proved for any.  First ThreadPlacement: the  *)
(* invariants build on each other, in this order:                          *)
(*   TypeOK                     shape of the state                         *)
(*   KernelTree, RecordTree     the two trees hang together                *)
(*   OnlyListedTids             the maps hold only threads of the tree     *)
(*   CpuMapMatchesRecord, NodeMapMatchesRecord, CountedThreadsAreConfined  *)
(* Each is preserved because of those before it.                           *)
(*                                                                         *)
(* Then a round of migrations is, for the tables, the maps and the kernel, *)
(* a series of steps of ThreadPlacement (RoundsArePlacement): what is      *)
(* proved of those holds in the middle of every round, undo and review.    *)
(*                                                                         *)
(* The step that needs an invariant is the move of a thread: it is one of  *)
(* ThreadPlacement only if the thread has a record.  The threads of a plan *)
(* have one when they are chosen and no record goes before the round ends; *)
(* those that a review looks back on have one or, if they have ended, one  *)
(* that was made for them alone, and then no call for them succeeds.       *)
(***************************************************************************)
EXTENDS ThreadMigration, FiniteSetTheorems, TLAPS

-----------------------------------------------------------------------------
(* The least of a set, and what is below a task.                           *)

\* Every set of naturals with an element has a least one.  The intervals
\* 0 .. x-1 of its elements are finite, and strict inclusion of finite sets
\* is well founded.
LEMMA LeastIn ==
  ASSUME NEW S \in SUBSET Nat, S # {}
  PROVE  Least(S) \in S /\ \A y \in S : Least(S) <= y
<1> DEFINE below == {0 .. (x - 1) : x \in S}
<1>1. below \subseteq FiniteSubsetsOf(Nat)
  <2> SUFFICES ASSUME NEW x \in S
               PROVE  0 .. (x - 1) \in FiniteSubsetsOf(Nat)
    OBVIOUS
  <2>1. IsFiniteSet(0 .. (x - 1))
    BY FS_Interval
  <2> QED  BY <2>1 DEF FiniteSubsetsOf
<1>2. below # {}
  OBVIOUS
<1>3. IsWellFoundedOn(StrictSubsetOrdering(Nat), FiniteSubsetsOf(Nat))
  BY FS_StrictSubsetOrderingWellFounded
<1>4. PICK x \in S : \A b \in below : <<b, 0 .. (x - 1)>> \notin StrictSubsetOrdering(Nat)
  <2> HIDE DEF below
  <2>1. \E m \in below : \A b \in below : <<b, m>> \notin StrictSubsetOrdering(Nat)
    BY <1>1, <1>2, <1>3, WFMin
  <2> QED  BY <2>1 DEF below
<1>5. \A y \in S : x <= y
  <2> SUFFICES ASSUME NEW y \in S, y < x
               PROVE  FALSE
    OBVIOUS
  <2>1. 0 .. (y - 1) \subseteq 0 .. (x - 1)
    OBVIOUS
  <2>2. y \in 0 .. (x - 1) /\ y \notin 0 .. (y - 1)
    OBVIOUS
  <2>3. <<0 .. (y - 1), 0 .. (x - 1)>> \in StrictSubsetOrdering(Nat)
    BY <2>1, <2>2 DEF StrictSubsetOrdering
  <2> QED  BY <2>3, <1>4
<1> QED  BY <1>5 DEF Least

\* Below(par, r) is the least set of tasks that holds r and the children, by
\* `par', of what it holds.
LEMMA BelowHoldsRoot ==
  ASSUME NEW par, NEW r \in Tid
  PROVE  r \in Below(par, r)
BY DEF Below

LEMMA BelowClosed ==
  ASSUME NEW par, NEW r \in Tid, NEW u \in Tid, par[u] \in Below(par, r)
  PROVE  u \in Below(par, r)
BY DEF Below

LEMMA BelowInClosed ==
  ASSUME NEW par, NEW r \in Tid, NEW S \in SUBSET Tid, r \in S,
         \A u \in Tid : par[u] \in S => u \in S
  PROVE  Below(par, r) \subseteq S
<1>1. \A u \in Tid \ S : par[u] \notin S
  OBVIOUS
<1> QED  BY <1>1 DEF Below

\* To be below r is to be in every closed set that holds r.
LEMMA BelowFromClosed ==
  ASSUME NEW par, NEW r \in Tid, NEW x \in Tid,
         ASSUME NEW S \in SUBSET Tid, r \in S, \A u \in Tid : par[u] \in S => u \in S
         PROVE  x \in S
  PROVE  x \in Below(par, r)
<1> SUFFICES ASSUME NEW S \in SUBSET Tid, r \in S, \A u \in Tid \ S : par[u] \notin S
             PROVE  x \in S
  BY DEF Below
<1>1. \A u \in Tid : par[u] \in S => u \in S
  OBVIOUS
<1> QED  BY <1>1

LEMMA BelowInTid == ASSUME NEW par, NEW r PROVE Below(par, r) \subseteq Tid
BY DEF Below

-----------------------------------------------------------------------------
(* Type correctness.                                                       *)

LEMMA MachineFacts ==
  /\ Cpu # {} /\ AnyCpu \in Cpu
  /\ Blank \in Proc
  /\ \A n \in Node : Least(CpusOf(n)) \in CpusOf(n) /\ CpusOf(n) \subseteq Cpu
  /\ Place \subseteq Nat /\ IsFiniteSet(Place) /\ Place # {}
<1>1. Cpu # {}
  BY MachineAssumption DEF CpusOf
<1>2. AnyCpu \in Cpu
  BY <1>1, LeastIn, MachineAssumption DEF AnyCpu
<1>3. Blank \in Proc
  BY <1>2, MachineAssumption DEF Blank, Proc
<1>4. \A n \in Node : CpusOf(n) \subseteq Cpu
  BY DEF CpusOf
<1>5. \A n \in Node : Least(CpusOf(n)) \in CpusOf(n)
  BY <1>4, LeastIn, MachineAssumption
<1>6. Place \subseteq Nat /\ IsFiniteSet(Place) /\ Place # {}
  BY <1>1, MachineAssumption DEF Place
<1> QED  BY <1>1, <1>2, <1>3, <1>4, <1>5, <1>6

\* Pinning at a place gives a record and a mask of the right type.
LEMMA PinTyped ==
  ASSUME TypeOK, NEW t \in Tid, NEW place \in Place
  PROVE  /\ PinnedAt(t, place) \in Proc
         /\ MaskAfterPin(t, place) \in SUBSET Cpu
<1>1. proc[t] \in Proc /\ affinity[t] \in SUBSET Cpu
  BY DEF TypeOK
<1>2. CASE MigrateToNodes
  <2>1. place \in Node
    BY <1>2 DEF Place
  <2>2. Least(CpusOf(place)) \in Cpu
    BY <2>1, MachineFacts
  <2> QED
    BY <1>1, <1>2, <2>1, <2>2, MachineFacts
    DEF PinnedAt, MaskAfterPin, SkipsCall, MaskOf, Proc
<1>3. CASE ~MigrateToNodes
  <2>1. place \in Cpu
    BY <1>3 DEF Place
  <2>2. NodeOf[proc[t].processor] \in Node
    BY <1>1, MachineAssumption DEF Proc
  <2> QED
    BY <1>1, <1>3, <2>1, <2>2 DEF PinnedAt, MaskAfterPin, SkipsCall, MaskOf, Proc
<1> QED  BY <1>2, <1>3

\* The place of a record is a place.
LEMMA PinnedPlaceTyped ==
  ASSUME TypeOK, NEW t \in Tid
  PROVE  PinnedPlace(t) \in Place
BY DEF TypeOK, PinnedPlace, Place, Proc

\* A migration keeps the types of what it changes.
LEMMA MoveTyped ==
  ASSUME TypeOK, NEW t \in Tid, NEW place \in Place, MoveThread(t, place)
  PROVE  /\ proc' \in [Tid -> Proc]
         /\ affinity' \in [Tid -> SUBSET Cpu]
         /\ cpuTids' \in [Cpu -> SUBSET Tid]
         /\ nodeTids' \in [Node -> SUBSET Tid]
<1>1. PinnedAt(t, place) \in Proc /\ MaskAfterPin(t, place) \in SUBSET Cpu
  BY PinTyped
<1>2. proc' \in [Tid -> Proc] /\ affinity' \in [Tid -> SUBSET Cpu]
  BY <1>1 DEF MoveThread, TypeOK
<1>3. cpuTids' \in [Cpu -> SUBSET Tid] /\ nodeTids' \in [Node -> SUBSET Tid]
  BY DEF MoveThread, TypeOK
<1> QED  BY <1>2, <1>3

\* Sets of tasks are finite, and so are their cardinalities naturals.
LEMMA CardinalityOfTids ==
  ASSUME NEW S \in SUBSET Tid
  PROVE  /\ IsFiniteSet(S) /\ Cardinality(S) \in Nat
         /\ Cardinality(S) > 0 => S # {}
<1>1. IsFiniteSet(S)
  BY TidAssumption, FS_Subset
<1>2. Cardinality(S) \in Nat
  BY <1>1, FS_CardinalityType
<1>3. Cardinality(S) > 0 => S # {}
  BY FS_EmptySet
<1> QED  BY <1>1, <1>2, <1>3

\* The node or CPU a balance takes a thread from, and the thread.
LEMMA SpreadSource ==
  ASSUME TypeOK, Overfull # {}
  PROVE  /\ Least(Overfull) \in left \cap Place
         /\ Least(Busy(Least(Overfull))) \in Busy(Least(Overfull))
         /\ Busy(Least(Overfull)) \subseteq Tid
         /\ LessBusy(Least(Overfull)) \subseteq Place
<1>1. Overfull \subseteq left /\ left \subseteq Place /\ Place \subseteq Nat
  BY MachineFacts DEF Overfull, TypeOK
<1>2. Least(Overfull) \in Overfull
  BY <1>1, LeastIn
<1> DEFINE src == Least(Overfull)
<1>3. Busy(src) \subseteq TidsAt(src) /\ TidsAt(src) \subseteq Tid
  BY <1>1, <1>2 DEF Busy, NotIdle, TidsAt, TypeOK, Place
<1>4. Cardinality(Busy(src)) > share
  BY <1>2 DEF Overfull
<1>5. Busy(src) # {}
  BY <1>3, <1>4, CardinalityOfTids DEF TypeOK
<1>6. Least(Busy(src)) \in Busy(src)
  BY <1>3, <1>5, LeastIn, TidAssumption
<1>7. LessBusy(src) \subseteq Place
  BY DEF LessBusy, ClosestIn
<1> QED  BY <1>1, <1>2, <1>3, <1>6, <1>7

LEMMA TypeInit == Init => TypeOK
<1> SUFFICES ASSUME Init PROVE TypeOK
  OBVIOUS
<1>1. PICK c \in Cpu :
        proc = [t \in Tid |-> IF t = Root THEN [Blank EXCEPT !.processor = c,
                                                             !.pinned_processor = c,
                                                             !.pinned_numa_node = NodeOf[c]]
                              ELSE Blank]
  BY DEF Init
<1>2. proc \in [Tid -> Proc]
  BY <1>1, MachineFacts, MachineAssumption DEF Proc
<1>3. alive \in SUBSET Tid /\ Root \in alive
  BY DEF Init
<1>4. kparent \in [Tid -> Tid \cup {NoParent}] /\ parent \in [Tid -> Tid \cup {NoParent}]
  BY <1>3, TidAssumption DEF Init
<1> QED  BY <1>2, <1>3, <1>4, TidAssumption DEF Init, TypeOK

\* read_stat_file() gives a record of the right type.
LEMMA ReadTyped ==
  ASSUME TypeOK, NEW t \in Tid, NEW c \in Cpu, NEW idle \in BOOLEAN
  PROVE  ReadStat(t, c, idle) \in Proc
<1>1. NodeOf[c] \in Node
  BY MachineAssumption
<1>2. PICK r \in Proc : r = IF t \in known THEN proc[t] ELSE Blank
  BY MachineFacts DEF TypeOK
<1>3. [r EXCEPT !.processor = IF r.pinned /\ MigrateToNodes THEN r.pinned_processor ELSE c,
                !.idle = idle,
                !.pinned_processor = IF r.pinned THEN @ ELSE c,
                !.pinned_numa_node = IF r.pinned THEN @ ELSE NodeOf[c]] \in Proc
  BY <1>1 DEF Proc
<1> QED  BY <1>2, <1>3 DEF ReadStat

LEMMA TypeUpdate == TypeOK /\ Update => TypeOK'
<1> SUFFICES ASSUME TypeOK, Update PROVE TypeOK'
  OBVIOUS
<1> DEFINE par == [t \in Tid |-> IF t \in known THEN parent[t] ELSE kparent[t]]
<1>1. known' \in SUBSET Tid
  BY DEF Update, TypeOK
<1>2. parent' \in [Tid -> Tid \cup {NoParent}] /\ affinity' \in [Tid -> SUBSET Cpu]
  BY DEF Update, TypeOK
<1>3. proc' \in [Tid -> Proc]
  <2>1. PICK sleeping \in SUBSET known', cpu \in [known' -> Cpu] :
          proc' = [t \in Tid |-> IF t \in known' THEN ReadStat(t, cpu[t], t \in sleeping)
                                 ELSE Blank]
    BY ZenonT(60) DEF Update
  <2>2. ASSUME NEW t \in known' PROVE ReadStat(t, cpu[t], t \in sleeping) \in Proc
    <3>1. cpu[t] \in Cpu /\ (t \in sleeping) \in BOOLEAN /\ t \in Tid
      BY <1>1
    <3> QED  BY <3>1, ReadTyped
  <2> QED  BY <2>1, <2>2, MachineFacts
<1>4. cpuTids' \in [Cpu -> SUBSET Tid] /\ nodeTids' \in [Node -> SUBSET Tid]
  BY DEF Update, EraseTids, TypeOK
<1>5. pc' \in {"loop", "balance"} /\ UNCHANGED <<alive, kparent, left, share>>
  BY DEF Update
<1> QED  BY <1>1, <1>2, <1>3, <1>4, <1>5 DEF TypeOK, Place

\* A scan that is given up, with its choices named.
LEMMA ScanChoices ==
  ASSUME ScanAborted
  PROVE  \E found \in SUBSET (alive \ known) :
           /\ \A t \in found : kparent[t] \in known \cup found
           /\ known' = known \cup found
           /\ parent' = [t \in Tid |-> IF t \in found THEN kparent[t] ELSE parent[t]]
           /\ \E sleeping \in SUBSET found, cpu \in [found -> Cpu] :
                proc' = [t \in Tid |-> IF t \in found THEN ReadStat(t, cpu[t], t \in sleeping)
                                       ELSE proc[t]]
<1>1. PICK found \in SUBSET (alive \ known) :
        /\ \A t \in found : kparent[t] \in known \cup found
        /\ known' = known \cup found
        /\ parent' = [t \in Tid |-> IF t \in found THEN kparent[t] ELSE parent[t]]
        /\ \E sleeping \in SUBSET found, cpu \in [found -> Cpu] :
             /\ \A t \in found : cpu[t] \in RanOn(t)
             /\ proc' = [t \in Tid |-> IF t \in found THEN ReadStat(t, cpu[t], t \in sleeping)
                                       ELSE proc[t]]
  BY Zenon DEF ScanAborted
<1>2. PICK sleeping \in SUBSET found, cpu \in [found -> Cpu] :
        proc' = [t \in Tid |-> IF t \in found THEN ReadStat(t, cpu[t], t \in sleeping)
                               ELSE proc[t]]
  BY <1>1, ZenonT(60)
<1>3. \E s \in SUBSET found, c \in [found -> Cpu] :
        proc' = [t \in Tid |-> IF t \in found THEN ReadStat(t, c[t], t \in s) ELSE proc[t]]
  BY <1>2
<1> QED  BY <1>1, <1>3

LEMMA TypeScanAborted == TypeOK /\ ScanAborted => TypeOK'
<1> SUFFICES ASSUME TypeOK, ScanAborted PROVE TypeOK'
  OBVIOUS
<1>1. PICK found \in SUBSET (alive \ known) :
        /\ known' = known \cup found
        /\ parent' = [t \in Tid |-> IF t \in found THEN kparent[t] ELSE parent[t]]
        /\ \E sleeping \in SUBSET found, cpu \in [found -> Cpu] :
             proc' = [t \in Tid |-> IF t \in found THEN ReadStat(t, cpu[t], t \in sleeping)
                                    ELSE proc[t]]
  BY ScanChoices, Zenon
<1>2. found \subseteq Tid
  BY DEF TypeOK
<1>3. PICK sleeping \in SUBSET found, cpu \in [found -> Cpu] :
        proc' = [t \in Tid |-> IF t \in found THEN ReadStat(t, cpu[t], t \in sleeping)
                               ELSE proc[t]]
  BY <1>1
<1>4. ASSUME NEW t \in found PROVE ReadStat(t, cpu[t], t \in sleeping) \in Proc
  <2>1. cpu[t] \in Cpu /\ (t \in sleeping) \in BOOLEAN /\ t \in Tid
    BY <1>2
  <2> QED  BY <2>1, ReadTyped
<1>5. proc' \in [Tid -> Proc]
  BY <1>4, <1>3 DEF TypeOK
<1>6. known' \in SUBSET Tid /\ parent' \in [Tid -> Tid \cup {NoParent}]
  BY <1>1, <1>2 DEF TypeOK
<1> QED
  BY <1>5, <1>6 DEF ScanAborted, kernel, control, TypeOK, Place

LEMMA TypePinPass == TypeOK /\ PinPass => TypeOK'
<1> SUFFICES ASSUME TypeOK, PinPass PROVE TypeOK'
  OBVIOUS
<1>1. Children \subseteq Tid
  BY DEF Children, Below
<1>2. proc' \in [Tid -> Proc] /\ affinity' \in [Tid -> SUBSET Cpu]
  BY <1>1, PinTyped, PinnedPlaceTyped DEF PinPass, TypeOK
<1>3. cpuTids' \in [Cpu -> SUBSET Tid] /\ nodeTids' \in [Node -> SUBSET Tid]
  BY <1>1 DEF PinPass, TypeOK
<1>4. pc' \in {"loop", "spread"}
  BY DEF PinPass
<1>5. left' \in SUBSET Place
  BY DEF PinPass, TypeOK
<1>6. share' \in Nat
  <2>1. Total' \in Nat
    <3>1. NotIdle(UNION {nodeTids[n] : n \in Node})' \in SUBSET Tid
      BY <1>3 DEF NotIdle
    <3> QED  BY <3>1, CardinalityOfTids DEF Total
  <2>2. Cardinality(Place) \in Nat \ {0}
    BY MachineFacts, FS_CardinalityType, FS_EmptySet
  <2>3. Total' \div Cardinality(Place) \in Nat
    BY <2>1, <2>2
  <2> QED  BY <2>3 DEF PinPass, AtLeastOne, TypeOK
<1>7. UNCHANGED <<alive, kparent, known, parent>>
  BY DEF PinPass
<1> QED  BY <1>2, <1>3, <1>4, <1>5, <1>6, <1>7 DEF TypeOK, Place

LEMMA TypeStep == TypeOK /\ [Next]_vars => TypeOK'
<1> SUFFICES ASSUME TypeOK, [Next]_vars PROVE TypeOK'
  OBVIOUS
<1>1. ASSUME NEW t \in Tid, NEW p \in Tid, Spawn(t, p) PROVE TypeOK'
  BY <1>1 DEF Spawn, TypeOK, tables, control, Place
<1>2. ASSUME NEW t \in Tid, Exit(t) PROVE TypeOK'
  BY <1>2 DEF Exit, TypeOK, tables, control, Place
<1>3. CASE Update \/ ScanAborted
  BY <1>3, TypeUpdate, TypeScanAborted
<1>4. CASE PinPass
  BY <1>4, TypePinPass
<1>5. CASE SpreadMove
  <2> DEFINE src == Least(Overfull)
             tid == Least(Busy(src))
  <2>1. src \in left \cap Place /\ tid \in Tid /\ LessBusy(src) \subseteq Place
    BY <1>5, SpreadSource DEF SpreadMove
  <2>2. left' \in SUBSET Place
    BY <1>5, <2>1 DEF SpreadMove, TypeOK
  <2>3. UNCHANGED <<alive, kparent, known, parent, pc, share>>
    BY <1>5 DEF SpreadMove
  <2>4. PICK dst \in LessBusy(src) :
          MoveThread(tid, dst) \/ UNCHANGED <<affinity, proc, cpuTids, nodeTids>>
    BY <1>5 DEF SpreadMove
  <2>5. CASE MoveThread(tid, dst)
    BY <2>1, <2>2, <2>3, <2>5, MoveTyped DEF TypeOK, Place
  <2>6. CASE UNCHANGED <<affinity, proc, cpuTids, nodeTids>>
    BY <2>2, <2>3, <2>6 DEF TypeOK, Place
  <2> QED  BY <2>4, <2>5, <2>6
<1>6. CASE EndSpread
  BY <1>6 DEF EndSpread, TypeOK, kernel, tables, Place
<1>7. ASSUME NEW t \in Children, NEW p \in Place, StrategyMove(t, p) PROVE TypeOK'
  <2>1. t \in Tid
    BY BelowInTid DEF Children
  <2> QED  BY <1>7, <2>1, MoveTyped DEF StrategyMove, TypeOK, control, Place
<1>8. CASE UNCHANGED vars
  BY <1>8 DEF vars, kernel, tables, control, TypeOK, Place
<1> QED  BY <1>1, <1>2, <1>3, <1>4, <1>5, <1>6, <1>7, <1>8 DEF Next, Kernel

\* The program's tables and the kernel's keep their shape, on any machine.
THEOREM TypeCorrect == Spec => []TypeOK
<1>1. Init => TypeOK
  BY TypeInit
<1>2. TypeOK /\ [Next]_vars => TypeOK'
  BY TypeStep
<1> QED  BY <1>1, <1>2, PTL DEF Spec

-----------------------------------------------------------------------------
(* The two trees.                                                          *)

\* The kernel lists every task of the program below its root.
KernelTree ==
  /\ alive = Below(kparent, Root)
  /\ kparent[Root] = NoParent
  /\ \A u \in Tid \ alive : kparent[u] = NoParent

\* The records form a tree of the root.
RecordTree ==
  /\ TreeIsConnected
  /\ parent[Root] = NoParent
  /\ \A u \in Tid \ known : parent[u] = NoParent

LEMMA NoParentIsNoTid == NoParent \notin Tid /\ Root \in Tid
BY TidAssumption DEF NoParent

LEMMA TreesInit == Init => KernelTree /\ RecordTree
<1> SUFFICES ASSUME Init PROVE KernelTree /\ RecordTree
  OBVIOUS
<1> USE NoParentIsNoTid
<1>1. alive \in SUBSET Tid /\ Root \in alive
  BY DEF Init
<1>2. kparent = [t \in Tid |-> IF t \in alive \ {Root} THEN Root ELSE NoParent]
  BY DEF Init
<1>3. known = {Root} /\ parent = [t \in Tid |-> NoParent]
  BY DEF Init
<1>4. Below(kparent, Root) \subseteq alive
  <2>1. \A u \in Tid : kparent[u] \in alive => u \in alive
    BY <1>1, <1>2
  <2> QED  BY <1>1, <2>1, BelowInClosed
<1>5. alive \subseteq Below(kparent, Root)
  <2>1. Root \in Below(kparent, Root)
    BY BelowHoldsRoot
  <2>2. \A u \in alive \ {Root} : u \in Below(kparent, Root)
    BY <1>1, <1>2, <2>1, BelowClosed
  <2> QED  BY <2>1, <2>2
<1>6. Below(parent, Root) \subseteq {Root}
  <2>1. \A u \in Tid : parent[u] \in {Root} => u \in {Root}
    BY <1>3
  <2> QED  BY <2>1, BelowInClosed, ZenonT(60)
<1>7. Root \in Below(parent, Root)
  BY BelowHoldsRoot
<1> QED
  BY <1>1, <1>2, <1>3, <1>4, <1>5, <1>6, <1>7
  DEF KernelTree, RecordTree, TreeIsConnected, Children

\* A new task hangs below its parent.
LEMMA SpawnKeepsTree ==
  ASSUME TypeOK, KernelTree, NEW t \in Tid, NEW p \in Tid, Spawn(t, p)
  PROVE  KernelTree'
<1> USE NoParentIsNoTid
<1>1. /\ t \notin alive /\ p \in alive
      /\ alive' = alive \cup {t}
      /\ kparent' = [kparent EXCEPT ![t] = p]
      /\ kparent \in [Tid -> Tid \cup {NoParent}]
      /\ alive \subseteq Tid /\ Root \in alive
  BY DEF Spawn, TypeOK
<1>2. Below(kparent', Root) \subseteq alive'
  <2>1. \A u \in Tid : kparent'[u] \in alive' => u \in alive'
    BY <1>1 DEF KernelTree
  <2>2. alive' \in SUBSET Tid /\ Root \in alive'
    BY <1>1
  <2> QED  BY <2>1, <2>2, BelowInClosed
<1>3. ASSUME NEW x \in alive'
      PROVE  x \in Below(kparent', Root)
  <2> SUFFICES ASSUME NEW S \in SUBSET Tid, Root \in S,
                      \A u \in Tid : kparent'[u] \in S => u \in S
               PROVE  x \in S
    BY <1>1, <1>3, BelowFromClosed
  <2>1. \A u \in Tid : kparent[u] \in S => u \in S
    <3>1. kparent[t] = NoParent
      BY <1>1 DEF KernelTree
    <3> QED  BY <1>1, <3>1
  <2>2. alive \subseteq S
    BY <2>1, BelowInClosed DEF KernelTree
  <2>3. t \in S
    BY <1>1, <2>2
  <2> QED  BY <1>1, <2>2, <2>3
<1>4. kparent'[Root] = NoParent /\ \A u \in Tid \ alive' : kparent'[u] = NoParent
  BY <1>1 DEF KernelTree
<1> QED  BY <1>1, <1>2, <1>3, <1>4 DEF KernelTree

\* The children of a task that ends hang below its parent.
LEMMA ExitKeepsTree ==
  ASSUME TypeOK, KernelTree, NEW t \in Tid, Exit(t)
  PROVE  KernelTree'
<1> USE NoParentIsNoTid
<1>1. /\ t \in alive /\ t # Root
      /\ alive' = alive \ {t}
      /\ kparent' = [u \in Tid |-> IF u = t THEN NoParent
                                   ELSE IF kparent[u] = t THEN kparent[t] ELSE kparent[u]]
      /\ kparent \in [Tid -> Tid \cup {NoParent}]
      /\ alive \subseteq Tid /\ Root \in alive
  BY DEF Exit, TypeOK
<1>2. Below(kparent', Root) \subseteq alive'
  <2>1. \A u \in Tid : kparent'[u] \in alive' => u \in alive'
    BY <1>1 DEF KernelTree
  <2>2. alive' \in SUBSET Tid /\ Root \in alive'
    BY <1>1
  <2> QED  BY <2>1, <2>2, BelowInClosed
<1>3. ASSUME NEW x \in alive'
      PROVE  x \in Below(kparent', Root)
  <2> SUFFICES ASSUME NEW S \in SUBSET Tid, Root \in S,
                      \A u \in Tid : kparent'[u] \in S => u \in S
               PROVE  x \in S
    BY <1>1, <1>3, BelowFromClosed
  <2>1. CASE kparent[t] \in S
    <3>1. \A u \in Tid : kparent[u] \in S \cup {t} => u \in S \cup {t}
      BY <1>1, <2>1
    <3>2. (S \cup {t}) \in SUBSET Tid /\ Root \in S \cup {t}
      OBVIOUS
    <3>3. Below(kparent, Root) \subseteq S \cup {t}
      BY <3>1, <3>2, BelowInClosed, ZenonT(60)
    <3> QED  BY <1>1, <3>3 DEF KernelTree
  <2>2. CASE kparent[t] \notin S
    <3> DEFINE T == S \ {t}
    <3>1. \A u \in Tid : kparent[u] \in T => u \in T
      BY <1>1, <2>2
    <3>2. T \in SUBSET Tid /\ Root \in T
      BY <1>1
    <3>3. Below(kparent, Root) \subseteq T
      <4> HIDE DEF T
      <4> QED  BY <3>1, <3>2, BelowInClosed
    <3> QED  BY <1>1, <3>3 DEF KernelTree
  <2> QED  BY <2>1, <2>2
<1>4. kparent'[Root] = NoParent /\ \A u \in Tid \ alive' : kparent'[u] = NoParent
  BY <1>1 DEF KernelTree
<1> QED  BY <1>1, <1>2, <1>3, <1>4 DEF KernelTree

\* update() erases whole subtrees, and only subtrees: whatever the records'
\* parents were read to be at different times, what is left hangs together.
LEMMA UpdateKeepsTree ==
  ASSUME TypeOK, KernelTree, RecordTree, Update
  PROVE  RecordTree'
<1> USE NoParentIsNoTid
<1> DEFINE par == [t \in Tid |-> IF t \in known THEN parent[t] ELSE kparent[t]]
           gone == Unreadable(par)
<1>1. /\ known' = (known \cup alive) \ gone
      /\ parent' = [t \in Tid |-> IF t \in known' THEN par[t] ELSE NoParent]
  BY DEF Update
<1>2. /\ alive \subseteq Tid /\ Root \in alive /\ known \subseteq Tid
      /\ known = Below(parent, Root) /\ Root \in known
      /\ parent[Root] = NoParent
      /\ \A u \in Tid \ known : parent[u] = NoParent
      /\ alive = Below(kparent, Root)
      /\ \A u \in Tid \ alive : kparent[u] = NoParent
  BY BelowHoldsRoot DEF TypeOK, RecordTree, TreeIsConnected, Children, KernelTree
<1>3. \A u \in Tid : par[u] = IF u \in known THEN parent[u] ELSE kparent[u]
  OBVIOUS
<1> HIDE DEF par
\* What is erased is closed under children, and the root is never in it.
<1>4. gone \in SUBSET Tid /\ \A u \in Tid : par[u] \in gone => u \in gone
  <2>1. gone \in SUBSET Tid
    BY BelowInTid DEF Unreadable
  <2>2. ASSUME NEW u \in Tid, par[u] \in gone PROVE u \in gone
    <3>1. PICK t \in known \ alive : par[u] \in Below(par, t)
      BY <2>2 DEF Unreadable
    <3>2. u \in Below(par, t)
      BY <1>2, <3>1, BelowClosed
    <3> QED  BY <3>2 DEF Unreadable
  <2> QED  BY <2>1, <2>2
<1>5. Root \notin gone
  <2> SUFFICES ASSUME NEW t \in known \ alive PROVE Root \notin Below(par, t)
    BY DEF Unreadable
  <2> DEFINE T == Tid \ {Root}
  <2>1. T \in SUBSET Tid /\ t \in T
    BY <1>2
  <2>2. \A u \in Tid : par[u] \in T => u \in T
    BY <1>2, <1>3
  <2>3. Below(par, t) \subseteq T
    <3> HIDE DEF T
    <3> QED  BY <2>1, <2>2, BelowInClosed, <1>2
  <2> QED  BY <2>3
<1> HIDE DEF gone
<1>6. known' \in SUBSET Tid /\ Root \in known'
  BY <1>1, <1>2, <1>5
<1>7. \A u \in Tid : parent'[u] = IF u \in known' THEN par[u] ELSE NoParent
  BY <1>1
\* Nothing below the root is without a record ...
<1>8. Below(parent', Root) \subseteq known'
  <2>1. \A u \in Tid : parent'[u] \in known' => u \in known'
    BY <1>6, <1>7
  <2> QED  BY <1>6, <2>1, BelowInClosed
\* ... and every record that is left is below the root.
<1>9. ASSUME NEW x \in known' PROVE x \in Below(parent', Root)
  <2> SUFFICES ASSUME NEW S \in SUBSET Tid, Root \in S,
                      \A u \in Tid : parent'[u] \in S => u \in S
               PROVE  x \in S
    BY <1>6, <1>9, BelowFromClosed
  <2> DEFINE T == S \cup gone
  <2>1. T \in SUBSET Tid /\ Root \in T
    BY <1>4
  <2>2. \A u \in Tid : par[u] \in T => u \in T
    <3> SUFFICES ASSUME NEW u \in Tid, par[u] \in S, u \notin gone PROVE u \in S
      BY <1>4
    <3>1. u \in known \cup alive
      BY <1>2, <1>3
    <3>2. u \in known'
      BY <1>1, <3>1
    <3> QED  BY <1>7, <3>2
  <2>3. \A u \in Tid : parent[u] \in T => u \in T
    BY <1>2, <1>3, <2>1, <2>2
  <2> HIDE DEF T
  <2>4. known \subseteq T
    BY <1>2, <2>1, <2>3, BelowInClosed
  <2>5. \A u \in Tid : kparent[u] \in T => u \in T
    BY <1>2, <1>3, <2>1, <2>2, <2>4
  <2>6. alive \subseteq T
    BY <1>2, <2>1, <2>5, BelowInClosed
  <2> QED  BY <1>1, <1>9, <2>4, <2>6 DEF T
<1>10. parent'[Root] = NoParent /\ \A u \in Tid \ known' : parent'[u] = NoParent
  BY <1>2, <1>3, <1>6, <1>7
<1> QED
  BY <1>6, <1>8, <1>9, <1>10 DEF RecordTree, TreeIsConnected, Children

\* What a scan finds before it is given up hangs below what was known.
LEMMA ScanKeepsTree ==
  ASSUME TypeOK, KernelTree, RecordTree, ScanAborted
  PROVE  RecordTree'
<1> USE NoParentIsNoTid
<1>1. PICK found \in SUBSET (alive \ known) :
        /\ \A t \in found : kparent[t] \in known \cup found
        /\ known' = known \cup found
        /\ parent' = [t \in Tid |-> IF t \in found THEN kparent[t] ELSE parent[t]]
  BY DEF ScanAborted
<1>2. /\ alive \subseteq Tid /\ known \subseteq Tid
      /\ known = Below(parent, Root) /\ Root \in known
      /\ parent[Root] = NoParent
      /\ \A u \in Tid \ known : parent[u] = NoParent
      /\ alive = Below(kparent, Root)
      /\ \A u \in Tid \ alive : kparent[u] = NoParent
  BY BelowHoldsRoot DEF TypeOK, RecordTree, TreeIsConnected, Children, KernelTree
<1>3. known' \in SUBSET Tid /\ Root \in known'
  BY <1>1, <1>2
<1>4. \A u \in Tid : parent'[u] = IF u \in found THEN kparent[u] ELSE parent[u]
  BY <1>1
<1>5. Below(parent', Root) \subseteq known'
  <2>1. \A u \in Tid : parent'[u] \in known' => u \in known'
    BY <1>1, <1>2, <1>3, <1>4
  <2> QED  BY <1>3, <2>1, BelowInClosed
<1>6. ASSUME NEW x \in known' PROVE x \in Below(parent', Root)
  <2> SUFFICES ASSUME NEW S \in SUBSET Tid, Root \in S,
                      \A u \in Tid : parent'[u] \in S => u \in S
               PROVE  x \in S
    BY <1>3, <1>6, BelowFromClosed
  <2>1. \A u \in Tid : parent[u] \in S => u \in S
    BY <1>1, <1>2, <1>4
  <2>2. known \subseteq S
    BY <1>2, <2>1, BelowInClosed
  <2> DEFINE T == S \cup (alive \ (known \cup found))
  <2>3. T \in SUBSET Tid /\ Root \in T
    BY <1>2
  <2>4. \A u \in Tid : kparent[u] \in T => u \in T
    BY <1>1, <1>2, <1>4, <2>2
  <2>5. alive \subseteq T
    <3> HIDE DEF T
    <3> QED  BY <1>2, <2>3, <2>4, BelowInClosed
  <2> QED  BY <1>1, <1>6, <2>2, <2>5
<1>7. parent'[Root] = NoParent /\ \A u \in Tid \ known' : parent'[u] = NoParent
  BY <1>1, <1>2, <1>4
<1> QED  BY <1>3, <1>5, <1>6, <1>7 DEF RecordTree, TreeIsConnected, Children

\* The steps that leave the trees alone.
LEMMA OtherStepsKeepTree ==
  ASSUME NEW t \in Tid, NEW p,
         PinPass \/ SpreadMove \/ EndSpread \/ StrategyMove(t, p)
  PROVE  UNCHANGED <<alive, kparent, known, parent>>
BY DEF PinPass, SpreadMove, EndSpread, StrategyMove, kernel, tables

LEMMA UnchangedTrees ==
  ASSUME UNCHANGED <<alive, kparent, known, parent>>
  PROVE  KernelTree' = KernelTree /\ RecordTree' = RecordTree
BY DEF KernelTree, RecordTree, TreeIsConnected, Children, Below

LEMMA TreesStep ==
  TypeOK /\ KernelTree /\ RecordTree /\ [Next]_vars => KernelTree' /\ RecordTree'
<1> SUFFICES ASSUME TypeOK, KernelTree, RecordTree, [Next]_vars
             PROVE  KernelTree' /\ RecordTree'
  OBVIOUS
<1>1. ASSUME NEW t \in Tid, NEW p \in Tid, Spawn(t, p) PROVE KernelTree' /\ RecordTree'
  <2>1. UNCHANGED <<known, parent>>
    BY <1>1 DEF Spawn, tables
  <2>2. RecordTree'
    BY <2>1 DEF RecordTree, TreeIsConnected, Children, Below
  <2> QED  BY <1>1, <2>2, SpawnKeepsTree
<1>2. ASSUME NEW t \in Tid, Exit(t) PROVE KernelTree' /\ RecordTree'
  <2>1. UNCHANGED <<known, parent>>
    BY <1>2 DEF Exit, tables
  <2>2. RecordTree'
    BY <2>1 DEF RecordTree, TreeIsConnected, Children, Below
  <2> QED  BY <1>2, <2>2, ExitKeepsTree
<1>3. CASE Update
  <2>1. UNCHANGED <<alive, kparent>>
    BY <1>3 DEF Update
  <2>2. KernelTree'
    BY <2>1 DEF KernelTree, Below
  <2> QED  BY <1>3, <2>2, UpdateKeepsTree
<1>4. CASE ScanAborted
  <2>1. KernelTree'
    BY <1>4 DEF ScanAborted, kernel, KernelTree, Below
  <2> QED  BY <1>4, <2>1, ScanKeepsTree
<1>5. CASE PinPass \/ SpreadMove \/ EndSpread
  BY <1>5, OtherStepsKeepTree, UnchangedTrees, NoParentIsNoTid
<1>6. ASSUME NEW t \in Children, NEW p \in Place, StrategyMove(t, p)
      PROVE  KernelTree' /\ RecordTree'
  BY <1>6, OtherStepsKeepTree, UnchangedTrees, BelowInTid DEF Children
<1>7. CASE UNCHANGED vars
  BY <1>7, UnchangedTrees DEF vars, kernel, tables
<1> QED  BY <1>1, <1>2, <1>3, <1>5, <1>6, <1>7, <1>4 DEF Next, Kernel

\* Whatever the program starts and ends, and whenever the tool scans, the
\* records and the tree that hangs from the root's are one and the same.
THEOREM TreeStaysConnected == Spec => []TreeIsConnected
<1>1. Init => KernelTree /\ RecordTree
  BY TreesInit
<1>2. TypeOK /\ KernelTree /\ RecordTree /\ [Next]_vars => KernelTree' /\ RecordTree'
  BY TreesStep
<1>3. RecordTree => TreeIsConnected
  BY DEF RecordTree
<1> QED  BY <1>1, <1>2, <1>3, TypeCorrect, PTL DEF Spec

-----------------------------------------------------------------------------
(* The maps.                                                               *)

\* What a migration does to the two maps.
LEMMA MoveMaps ==
  ASSUME TypeOK, NEW t \in Tid, NEW place \in Place, MoveThread(t, place)
  PROVE  /\ \A c \in Cpu : cpuTids'[c] \subseteq cpuTids[c] \cup {t}
         /\ \A n \in Node : nodeTids'[n] \subseteq nodeTids[n]
BY DEF MoveThread, TypeOK

LEMMA ListedInit == Init => OnlyListedTids
BY DEF Init, OnlyListedTids

LEMMA ListedStep ==
  TypeOK /\ RecordTree /\ RecordTree' /\ OnlyListedTids /\ [Next]_vars => OnlyListedTids'
<1> SUFFICES ASSUME TypeOK, RecordTree, RecordTree', OnlyListedTids, [Next]_vars
             PROVE  OnlyListedTids'
  OBVIOUS
<1>1. /\ \A c \in Cpu : cpuTids[c] \subseteq Children
      /\ \A n \in Node : nodeTids[n] \subseteq Children
  BY DEF OnlyListedTids
<1>2. CASE Update
  <2>1. /\ \A c \in Cpu : cpuTids'[c] = cpuTids[c] \ (Children \ Children')
        /\ \A n \in Node : nodeTids'[n] = nodeTids[n] \ (Children \ Children')
    BY <1>2 DEF Update, EraseTids, TypeOK
  <2> QED  BY <1>1, <2>1 DEF OnlyListedTids
<1>3. CASE PinPass
  <2>1. Children' = Children
    BY <1>3 DEF PinPass, Children, Below
  <2>2. /\ \A c \in Cpu : cpuTids'[c] \subseteq cpuTids[c] \cup Children
        /\ \A n \in Node : nodeTids'[n] \subseteq nodeTids[n] \cup Children
    BY <1>3 DEF PinPass
  <2> QED  BY <1>1, <2>1, <2>2 DEF OnlyListedTids
<1>4. ASSUME NEW t \in Children, NEW p \in Place, MoveThread(t, p), UNCHANGED parent
      PROVE  OnlyListedTids'
  <2>1. Children' = Children
    BY <1>4 DEF Children, Below
  <2>2. t \in Tid
    BY BelowInTid DEF Children
  <2> QED  BY <1>1, <1>4, <2>1, <2>2, MoveMaps DEF OnlyListedTids
<1>5. CASE SpreadMove
  <2> DEFINE src == Least(Overfull)
             tid == Least(Busy(src))
  <2>1. /\ src \in Place /\ tid \in TidsAt(src) /\ LessBusy(src) \subseteq Place
    BY <1>5, SpreadSource DEF SpreadMove, Busy, NotIdle
  <2>2. tid \in Children
    BY <1>1, <2>1 DEF TidsAt, Place
  <2>3. UNCHANGED parent
    BY <1>5 DEF SpreadMove
  <2>4. PICK dst \in LessBusy(src) :
          MoveThread(tid, dst) \/ UNCHANGED <<affinity, proc, cpuTids, nodeTids>>
    BY <1>5 DEF SpreadMove
  <2>5. CASE MoveThread(tid, dst)
    BY <1>4, <2>1, <2>2, <2>3, <2>5
  <2>6. CASE UNCHANGED <<affinity, proc, cpuTids, nodeTids>>
    BY <1>1, <2>3, <2>6 DEF OnlyListedTids, Children, Below
  <2> QED  BY <2>4, <2>5, <2>6
<1>6. ASSUME NEW t \in Children, NEW p \in Place, StrategyMove(t, p)
      PROVE  OnlyListedTids'
  BY <1>4, <1>6 DEF StrategyMove
<1>7. ASSUME UNCHANGED <<parent, cpuTids, nodeTids>> PROVE OnlyListedTids'
  BY <1>1, <1>7 DEF OnlyListedTids, Children, Below
<1>8. ASSUME NEW t \in Tid, NEW p \in Tid, Spawn(t, p) \/ Exit(t)
      PROVE  UNCHANGED <<parent, cpuTids, nodeTids>>
  BY <1>8 DEF Spawn, Exit, tables
<1>9. CASE EndSpread \/ UNCHANGED vars
  BY <1>7, <1>9 DEF EndSpread, vars, tables
<1>10. CASE ScanAborted
  <2>1. Children \subseteq Children'
    BY <1>10 DEF ScanAborted, RecordTree, TreeIsConnected
  <2> QED  BY <1>1, <1>10, <2>1 DEF ScanAborted, OnlyListedTids
<1> QED
  BY <1>2, <1>3, <1>5, <1>6, <1>7, <1>8, <1>9, <1>10, NoParentIsNoTid DEF Next, Kernel

\* A thread that has ended and been dropped from the tree is in no map: no
\* later call can bring its record back.
THEOREM OnlyListedAreMapped == Spec => []OnlyListedTids
<1>1. Init => KernelTree /\ RecordTree /\ OnlyListedTids
  BY TreesInit, ListedInit
<1>2. TypeOK /\ KernelTree /\ RecordTree /\ OnlyListedTids /\ [Next]_vars
        => KernelTree' /\ RecordTree' /\ OnlyListedTids'
  BY TreesStep, ListedStep
<1> QED  BY <1>1, <1>2, TypeCorrect, PTL DEF Spec

-----------------------------------------------------------------------------
(* Strategies that migrate to nodes: the map, the record and the mask.     *)

\* pinned_numa_node_ is the node of pinned_processor_, which tells
\* pin_thread_to_node() where the thread was.
PinnedRecords ==
  \A t \in Tid : proc[t].pinned_numa_node = NodeOf[proc[t].pinned_processor]

PlacementInv == PinnedRecords /\ NodeMapMatchesRecord /\ CountedThreadsAreConfined

\* What the earlier invariants say, as the steps below need it.
Before == TypeOK /\ RecordTree /\ OnlyListedTids

LEMMA BeforeFacts ==
  ASSUME Before
  PROVE  /\ known = Children
         /\ \A n \in Node : nodeTids[n] \subseteq known
         /\ \A t \in Tid : proc[t] \in Proc
BY DEF Before, RecordTree, TreeIsConnected, OnlyListedTids, TypeOK

LEMMA PlacementInit == Init => PlacementInv
<1> SUFFICES ASSUME Init PROVE PlacementInv
  OBVIOUS
<1>1. PICK c \in Cpu :
        proc = [t \in Tid |-> IF t = Root THEN [Blank EXCEPT !.processor = c,
                                                             !.pinned_processor = c,
                                                             !.pinned_numa_node = NodeOf[c]]
                              ELSE Blank]
  BY DEF Init
<1>2. PinnedRecords
  BY <1>1 DEF PinnedRecords, Blank
<1> QED
  BY <1>2 DEF PlacementInv, Init, NodeMapMatchesRecord, CountedThreadsAreConfined

LEMMA PinnedAtNode ==
  ASSUME MigrateToNodes, Before, NEW t \in Tid, NEW n \in Node
  PROVE  /\ PinnedAt(t, n).pinned
         /\ PinnedAt(t, n).pinned_numa_node = n
         /\ NodeOf[PinnedAt(t, n).pinned_processor] = n
         /\ MaskAfterPin(t, n) = CpusOf(n)
         /\ CanPin(t, n) => t \in alive
<1>1. NodeOf[Least(CpusOf(n))] = n
  BY MachineFacts DEF CpusOf
<1>2. proc[t] \in Proc
  BY BeforeFacts
<1> QED
  BY <1>1, <1>2 DEF PinnedAt, MaskAfterPin, MaskOf, CanPin, SkipsCall, Proc

\* A migration to a node.
LEMMA MoveKeepsPlacement ==
  ASSUME MigrateToNodes, Before, PlacementInv, NEW t \in Tid, NEW place \in Place,
         MoveThread(t, place), UNCHANGED alive
  PROVE  PlacementInv'
<1>1. place \in Node
  BY DEF Place
<1>2. proc \in [Tid -> Proc] /\ affinity \in [Tid -> SUBSET Cpu]
      /\ nodeTids \in [Node -> SUBSET Tid]
  BY DEF Before, TypeOK
<1>3. /\ proc' = [proc EXCEPT ![t] = PinnedAt(t, place)]
      /\ affinity' = [affinity EXCEPT ![t] = CpusOf(place)]
      /\ PinnedAt(t, place).pinned
      /\ PinnedAt(t, place).pinned_numa_node = place
      /\ NodeOf[PinnedAt(t, place).pinned_processor] = place
  BY <1>1, PinnedAtNode DEF MoveThread
<1>4. PinnedRecords'
  BY <1>2, <1>3 DEF PlacementInv, PinnedRecords
<1>5. \A n \in Node : nodeTids'[n] \subseteq nodeTids[n]
  BY MoveMaps DEF Before
<1>6. ASSUME NEW n \in Node, t \in nodeTids'[n]
      PROVE  n = place
  <2>1. t \in nodeTids[n] /\ proc[t].pinned_numa_node = n
    BY <1>5, <1>6 DEF PlacementInv, NodeMapMatchesRecord
  <2>2. NodeOf[proc[t].pinned_processor] = n
    BY <2>1 DEF PlacementInv, PinnedRecords
  <2>3. CASE PinnedAt(t, place).pinned_processor = proc[t].pinned_processor
    BY <1>3, <2>2, <2>3
  <2>4. CASE PinnedAt(t, place).pinned_processor # proc[t].pinned_processor
    <3>1. n \notin NodesToErase(n, place)
      BY <1>2, <1>6, <2>2, <2>4 DEF MoveThread, CpuAfterPin
    <3> QED  BY <3>1 DEF NodesToErase
  <2> QED  BY <2>3, <2>4
<1>7. NodeMapMatchesRecord'
  <2> SUFFICES ASSUME NEW n \in Node, NEW u \in nodeTids'[n]
               PROVE  proc'[u].pinned /\ proc'[u].pinned_numa_node = n
    BY DEF NodeMapMatchesRecord
  <2>1. u \in nodeTids[n] /\ u \in Tid
    BY <1>2, <1>5
  <2>2. CASE u = t
    BY <1>2, <1>3, <1>6, <2>2
  <2>3. CASE u # t
    BY <1>2, <1>3, <2>1, <2>3 DEF PlacementInv, NodeMapMatchesRecord
  <2> QED  BY <2>2, <2>3
<1>8. CountedThreadsAreConfined'
  <2> SUFFICES ASSUME NEW n \in Node, NEW u \in nodeTids'[n] \cap alive'
               PROVE  affinity'[u] = CpusOf(n)
    BY DEF CountedThreadsAreConfined
  <2>1. u \in nodeTids[n] \cap alive /\ u \in Tid
    BY <1>2, <1>5
  <2>2. CASE u = t
    BY <1>2, <1>3, <1>6, <2>2
  <2>3. CASE u # t
    BY <1>2, <1>3, <2>1, <2>3 DEF PlacementInv, CountedThreadsAreConfined
  <2> QED  BY <2>2, <2>3
<1> QED  BY <1>4, <1>7, <1>8 DEF PlacementInv

\* read_stat_file() leaves the place of a pinned record alone.
LEMMA ReadKeepsPlace ==
  ASSUME Before, Update, NEW t \in known \cap known', proc[t].pinned
  PROVE  /\ proc'[t].pinned
         /\ proc'[t].pinned_numa_node = proc[t].pinned_numa_node
         /\ proc'[t].pinned_processor = proc[t].pinned_processor
<1>1. PICK sleeping \in SUBSET known', cpu \in [known' -> Cpu] :
        proc' = [u \in Tid |-> IF u \in known' THEN ReadStat(u, cpu[u], u \in sleeping)
                               ELSE Blank]
  BY ZenonT(60) DEF Update
<1>2. t \in Tid /\ proc[t] \in Proc
  BY BeforeFacts DEF Before, TypeOK
<1>3. proc'[t] = ReadStat(t, cpu[t], t \in sleeping)
  BY <1>1, <1>2
<1> QED  BY <1>2, <1>3 DEF ReadStat, Proc

\* update(): what is erased from the tree leaves the map in the same call,
\* and a record that stays keeps its place.
LEMMA UpdateKeepsPlacement ==
  ASSUME MigrateToNodes, Before, Before', PlacementInv, Update
  PROVE  PlacementInv'
<1> DEFINE gone == Unreadable([t \in Tid |-> IF t \in known THEN parent[t] ELSE kparent[t]])
<1>1. PICK sleeping \in SUBSET known', cpu \in [known' -> Cpu] :
        proc' = [t \in Tid |-> IF t \in known' THEN ReadStat(t, cpu[t], t \in sleeping)
                               ELSE Blank]
  BY ZenonT(60) DEF Update
<1>2. /\ known' = (known \cup alive) \ gone
      /\ affinity' = [t \in Tid |-> IF t \in gone /\ proc[t].pinned THEN Cpu ELSE affinity[t]]
      /\ alive' = alive
  BY DEF Update
<1> HIDE DEF gone
<1>3. known \subseteq Tid /\ known' \subseteq Tid /\ nodeTids \in [Node -> SUBSET Tid]
      /\ alive \subseteq Tid
  BY DEF Before, TypeOK
<1>4. ASSUME NEW t \in known \cap known'
      PROVE  proc[t].pinned => /\ proc'[t].pinned
                               /\ proc'[t].pinned_numa_node = proc[t].pinned_numa_node
                               /\ proc'[t].pinned_processor = proc[t].pinned_processor
  BY ReadKeepsPlace
<1>5. PinnedRecords'
  <2> SUFFICES ASSUME NEW t \in Tid
               PROVE  proc'[t].pinned_numa_node = NodeOf[proc'[t].pinned_processor]
    BY DEF PinnedRecords
  <2>1. CASE t \notin known'
    BY <1>1, <2>1 DEF Blank
  <2>2. CASE t \in known'
    <3>1. PICK r \in Proc : /\ r = IF t \in known THEN proc[t] ELSE Blank
                            /\ r.pinned_numa_node = NodeOf[r.pinned_processor]
      <4>1. CASE t \in known
        BY <4>1, BeforeFacts DEF PlacementInv, PinnedRecords
      <4>2. CASE t \notin known
        BY <4>2, MachineFacts DEF Blank
      <4> QED  BY <4>1, <4>2
    <3>2. proc'[t] = ReadStat(t, cpu[t], t \in sleeping)
      BY <1>1, <2>2
    <3> QED  BY <3>1, <3>2 DEF ReadStat, Proc
  <2> QED  BY <2>1, <2>2
<1>6. \A n \in Node : nodeTids'[n] \subseteq nodeTids[n] \cap (known \cap known')
  <2>1. \A n \in Node : nodeTids'[n] \subseteq nodeTids[n]
    BY <1>3 DEF Update, EraseTids
  <2>2. \A n \in Node : nodeTids[n] \subseteq known
    BY BeforeFacts
  <2>3. known' = Children' /\ \A n \in Node : nodeTids'[n] \subseteq Children'
    BY DEF Before, RecordTree, TreeIsConnected, OnlyListedTids
  <2> QED  BY <2>1, <2>2, <2>3
<1>7. NodeMapMatchesRecord'
  BY <1>4, <1>6 DEF PlacementInv, NodeMapMatchesRecord
<1>8. CountedThreadsAreConfined'
  <2> SUFFICES ASSUME NEW n \in Node, NEW t \in nodeTids'[n] \cap alive'
               PROVE  affinity'[t] = CpusOf(n)
    BY DEF CountedThreadsAreConfined
  <2>1. t \in nodeTids[n] \cap alive /\ t \in known' /\ t \in Tid
    BY <1>2, <1>3, <1>6
  <2>2. affinity'[t] = affinity[t]
    BY <1>2, <2>1
  <2> QED  BY <2>1, <2>2 DEF PlacementInv, CountedThreadsAreConfined
<1> QED  BY <1>5, <1>7, <1>8 DEF PlacementInv

\* A scan that is given up adds records of threads no map holds.
LEMMA ScanKeepsRecords ==
  ASSUME ScanAborted, Before, NEW t \in known
  PROVE  proc'[t] = proc[t]
BY DEF ScanAborted, Before, TypeOK

LEMMA ScanKeepsPlacement ==
  ASSUME Before, PlacementInv, ScanAborted
  PROVE  PlacementInv'
<1>1. UNCHANGED <<alive, affinity, nodeTids>>
  BY DEF ScanAborted, kernel
<1>2. \A n \in Node : nodeTids[n] \subseteq known
  BY BeforeFacts
<1>3. PinnedRecords'
  <2> SUFFICES ASSUME NEW t \in Tid
               PROVE  proc'[t].pinned_numa_node = NodeOf[proc'[t].pinned_processor]
    BY DEF PinnedRecords
  <2>1. PICK found \in SUBSET (alive \ known) :
          \E sleeping \in SUBSET found, cpu \in [found -> Cpu] :
            proc' = [u \in Tid |-> IF u \in found THEN ReadStat(u, cpu[u], u \in sleeping)
                                   ELSE proc[u]]
    BY ScanChoices, Zenon
  <2>2. PICK sleeping \in SUBSET found, cpu \in [found -> Cpu] :
          proc' = [u \in Tid |-> IF u \in found THEN ReadStat(u, cpu[u], u \in sleeping)
                                 ELSE proc[u]]
    BY <2>1, Zenon
  <2>3. CASE t \in found
    <3>1. t \notin known /\ proc'[t] = ReadStat(t, cpu[t], t \in sleeping)
      BY <2>2, <2>3
    <3> QED  BY <3>1 DEF ReadStat, Blank
  <2>4. CASE t \notin found
    BY <2>2, <2>4 DEF PlacementInv, PinnedRecords
  <2> QED  BY <2>3, <2>4
<1>4. NodeMapMatchesRecord' /\ CountedThreadsAreConfined'
  BY <1>1, <1>2, ScanKeepsRecords
  DEF PlacementInv, NodeMapMatchesRecord, CountedThreadsAreConfined
<1> QED  BY <1>3, <1>4 DEF PlacementInv

\* The pass of pinning: a thread is entered where its record has it, its mask
\* set; the ones unpinned leave the map.
LEMMA PinPassKeepsPlacement ==
  ASSUME MigrateToNodes, Before, PlacementInv, PinPass
  PROVE  PlacementInv'
<1> DEFINE listed == Children
           sleeping == {t \in listed \ {Root} : proc[t].idle}
           pins == {t \in listed \ sleeping : CanPin(t, PinnedPlace(t))}
           unpins == {t \in sleeping : proc[t].pinned => t \in alive}
<1>1. /\ proc' = [t \in Tid |-> IF t \in pins THEN PinnedAt(t, PinnedPlace(t)) ELSE proc[t]]
      /\ affinity' = [t \in Tid |-> IF t \in pins THEN MaskAfterPin(t, PinnedPlace(t))
                                    ELSE IF t \in unpins /\ proc[t].pinned THEN Cpu
                                    ELSE affinity[t]]
      /\ nodeTids' = [n \in Node |->
           (nodeTids[n] \ PinnedIn(unpins, n))
             \cup {t \in pins : n = IF MigrateToNodes
                                    THEN NodeOf[proc'[t].pinned_processor]
                                    ELSE proc'[t].pinned_numa_node}]
      /\ alive' = alive
  BY DEF PinPass
<1>2. pins \subseteq Tid /\ \A n \in Node : nodeTids[n] \subseteq Tid
  BY BelowInTid DEF Children, Before, TypeOK
<1>3. pins \cap unpins = {}
  OBVIOUS
<1>4. \A t \in pins : CanPin(t, PinnedPlace(t))
  OBVIOUS
<1> HIDE DEF pins, unpins
<1>5. ASSUME NEW t \in pins
      PROVE  /\ proc'[t].pinned
             /\ proc'[t].pinned_numa_node = proc[t].pinned_numa_node
             /\ NodeOf[proc'[t].pinned_processor] = proc[t].pinned_numa_node
             /\ affinity'[t] = CpusOf(proc[t].pinned_numa_node)
  <2>1. PinnedPlace(t) = proc[t].pinned_numa_node /\ PinnedPlace(t) \in Node
    BY <1>2, BeforeFacts DEF PinnedPlace, Proc
  <2>2. proc'[t] = PinnedAt(t, PinnedPlace(t)) /\ affinity'[t] = MaskAfterPin(t, PinnedPlace(t))
    BY <1>1, <1>2
  <2> QED  BY <1>2, <2>1, <2>2, PinnedAtNode
<1>6. \A t \in Tid \ pins : proc'[t] = proc[t]
  BY <1>1
<1>7. PinnedRecords'
  BY <1>5, <1>6 DEF PlacementInv, PinnedRecords
<1>8. ASSUME NEW n \in Node, NEW t \in nodeTids'[n]
      PROVE  \/ t \in pins /\ proc[t].pinned_numa_node = n
             \/ t \in nodeTids[n] /\ t \notin pins /\ t \notin unpins
  <2>1. CASE t \in pins /\ t \notin nodeTids[n]
    BY <1>1, <1>5, <1>8, <2>1
  <2>2. CASE t \in nodeTids[n]
    <3>1. proc[t].pinned_numa_node = n
      BY <2>2 DEF PlacementInv, NodeMapMatchesRecord
    <3>2. CASE t \notin pins
      BY <1>1, <1>8, <2>2, <3>1, <3>2 DEF PinnedIn
    <3> QED  BY <2>2, <3>1, <3>2
  <2> QED  BY <1>1, <1>8, <2>1, <2>2
<1>9. NodeMapMatchesRecord'
  <2> SUFFICES ASSUME NEW n \in Node, NEW t \in nodeTids'[n]
               PROVE  proc'[t].pinned /\ proc'[t].pinned_numa_node = n
    BY DEF NodeMapMatchesRecord
  <2> QED  BY <1>2, <1>5, <1>6, <1>8 DEF PlacementInv, NodeMapMatchesRecord
<1>10. CountedThreadsAreConfined'
  <2> SUFFICES ASSUME NEW n \in Node, NEW t \in nodeTids'[n] \cap alive'
               PROVE  affinity'[t] = CpusOf(n)
    BY DEF CountedThreadsAreConfined
  <2>1. CASE t \in pins
    BY <1>5, <1>8, <2>1
  <2>2. CASE t \notin pins
    <3>1. t \in nodeTids[n] /\ t \notin unpins /\ t \in alive
      BY <1>1, <1>8, <2>2
    <3>2. affinity'[t] = affinity[t]
      BY <1>1, <1>2, <2>2, <3>1
    <3> QED  BY <3>1, <3>2 DEF PlacementInv, CountedThreadsAreConfined
  <2> QED  BY <2>1, <2>2
<1> QED  BY <1>7, <1>9, <1>10 DEF PlacementInv

LEMMA PlacementStep ==
  MigrateToNodes /\ Before /\ Before' /\ PlacementInv /\ [Next]_vars => PlacementInv'
<1> SUFFICES ASSUME MigrateToNodes, Before, Before', PlacementInv, [Next]_vars
             PROVE  PlacementInv'
  OBVIOUS
<1>1. ASSUME NEW t \in Tid, NEW p \in Tid, Spawn(t, p) PROVE PlacementInv'
  <2>1. /\ t \notin known /\ UNCHANGED <<proc, nodeTids>>
        /\ alive' = alive \cup {t} /\ \A u \in Tid \ {t} : affinity'[u] = affinity[u]
    BY <1>1 DEF Spawn, tables, Before, TypeOK
  <2>2. CountedThreadsAreConfined'
    <3> SUFFICES ASSUME NEW n \in Node, NEW u \in nodeTids'[n] \cap alive'
                 PROVE  affinity'[u] = CpusOf(n)
      BY DEF CountedThreadsAreConfined
    <3>1. u \in nodeTids[n] /\ u \in known /\ u \in Tid
      BY <2>1, BeforeFacts DEF Before, TypeOK
    <3> QED
      BY <2>1, <3>1 DEF PlacementInv, CountedThreadsAreConfined
  <2> QED  BY <2>1, <2>2 DEF PlacementInv, PinnedRecords, NodeMapMatchesRecord
<1>2. ASSUME NEW t \in Tid, Exit(t) PROVE PlacementInv'
  <2>1. /\ UNCHANGED <<proc, nodeTids>>
        /\ alive' = alive \ {t} /\ \A u \in Tid \ {t} : affinity'[u] = affinity[u]
    BY <1>2 DEF Exit, tables, Before, TypeOK
  <2>2. CountedThreadsAreConfined'
    BY <2>1 DEF PlacementInv, CountedThreadsAreConfined, Before, TypeOK
  <2> QED  BY <2>1, <2>2 DEF PlacementInv, PinnedRecords, NodeMapMatchesRecord
<1>3. CASE Update
  BY <1>3, UpdateKeepsPlacement
<1>4. CASE PinPass
  BY <1>4, PinPassKeepsPlacement
<1>5. ASSUME UNCHANGED <<alive, affinity, proc, nodeTids>> PROVE PlacementInv'
  BY <1>5 DEF PlacementInv, PinnedRecords, NodeMapMatchesRecord, CountedThreadsAreConfined
<1>6. CASE SpreadMove
  <2> DEFINE src == Least(Overfull)
             tid == Least(Busy(src))
  <2>1. tid \in Tid /\ LessBusy(src) \subseteq Place
    BY <1>6, SpreadSource DEF SpreadMove, Before
  <2>2. UNCHANGED alive
    BY <1>6 DEF SpreadMove
  <2>3. PICK dst \in LessBusy(src) :
          MoveThread(tid, dst) \/ UNCHANGED <<affinity, proc, cpuTids, nodeTids>>
    BY <1>6 DEF SpreadMove
  <2>4. CASE MoveThread(tid, dst)
    BY <2>1, <2>2, <2>4, MoveKeepsPlacement
  <2>5. CASE UNCHANGED <<affinity, proc, cpuTids, nodeTids>>
    BY <1>5, <2>2, <2>5
  <2> QED  BY <2>3, <2>4, <2>5
<1>7. CASE EndSpread \/ UNCHANGED vars
  BY <1>5, <1>7 DEF EndSpread, vars, kernel, tables
<1>8. ASSUME NEW t \in Children, NEW p \in Place, StrategyMove(t, p) PROVE PlacementInv'
  <2>1. t \in Tid
    BY BelowInTid DEF Children
  <2> QED  BY <1>8, <2>1, MoveKeepsPlacement DEF StrategyMove
<1>9. CASE ScanAborted
  BY <1>9, ScanKeepsPlacement
<1> QED
  BY <1>1, <1>2, <1>3, <1>4, <1>6, <1>7, <1>8, <1>9 DEF Next, Kernel

LEMMA BeforeAlways == Spec => []Before
<1>1. Init => TypeOK /\ KernelTree /\ RecordTree /\ OnlyListedTids
  BY TypeInit, TreesInit, ListedInit
<1>2. TypeOK /\ KernelTree /\ RecordTree /\ OnlyListedTids /\ [Next]_vars
        => (TypeOK /\ KernelTree /\ RecordTree /\ OnlyListedTids)'
  BY TypeStep, TreesStep, ListedStep
<1>3. TypeOK /\ RecordTree /\ OnlyListedTids => Before
  BY DEF Before
<1> QED  BY <1>1, <1>2, <1>3, PTL DEF Spec

LEMMA PlacementAlways == ASSUME MigrateToNodes PROVE Spec => []PlacementInv
<1>1. Init => PlacementInv
  BY PlacementInit
<1>2. Before /\ Before' /\ PlacementInv /\ [Next]_vars => PlacementInv'
  BY PlacementStep
<1> QED  BY <1>1, <1>2, BeforeAlways, PTL DEF Spec

\* With a strategy that migrates to nodes, a thread is counted only on the
\* node its record is pinned to, hence on one node.
THEOREM NodeMapAgrees == ASSUME MigrateToNodes PROVE Spec => []NodeMapMatchesRecord
<1>1. PlacementInv => NodeMapMatchesRecord
  BY DEF PlacementInv
<1> QED  BY <1>1, PlacementAlways, PTL

\* ... and, while it lives, the kernel lets it run on that node only.
THEOREM CountedAreConfined == ASSUME MigrateToNodes PROVE Spec => []CountedThreadsAreConfined
<1>1. PlacementInv => CountedThreadsAreConfined
  BY DEF PlacementInv
<1> QED  BY <1>1, PlacementAlways, PTL

\* A pinned record changes its node only along with the mask of a live task.
THEOREM PlaceFollowsMask == ASSUME MigrateToNodes PROVE Spec => PlaceChangesWithMask
<1> DEFINE step(t) == proc[t].pinned /\ proc'[t].pinned_numa_node # proc[t].pinned_numa_node
                      => t \in alive /\ affinity'[t] = CpusOf(proc'[t].pinned_numa_node)
<1>1. ASSUME Before, NEW u \in Tid, NEW p \in Place, MoveThread(u, p), NEW t \in known
      PROVE  step(t)
  <2>1. /\ proc' = [proc EXCEPT ![u] = PinnedAt(u, p)]
        /\ affinity' = [affinity EXCEPT ![u] = CpusOf(p)]
        /\ PinnedAt(u, p).pinned_numa_node = p /\ u \in alive
    BY <1>1, PinnedAtNode DEF MoveThread, Place
  <2>2. t \in Tid /\ proc \in [Tid -> Proc] /\ affinity \in [Tid -> SUBSET Cpu]
    BY <1>1 DEF Before, TypeOK
  <2> QED  BY <2>1, <2>2
<1>2. ASSUME Before, PinPass, NEW t \in known PROVE step(t)
  <2>1. t \in Tid /\ proc[t] \in Proc /\ PinnedPlace(t) = proc[t].pinned_numa_node
    BY <1>2, BeforeFacts DEF PinnedPlace, Before, TypeOK
  <2>2. proc'[t] = proc[t] \/ proc'[t] = PinnedAt(t, PinnedPlace(t))
    BY <1>2, <2>1 DEF PinPass
  <2> QED  BY <1>2, <2>1, <2>2, PinnedAtNode DEF Proc
<1>3. ASSUME Before, Update, NEW t \in known \cap known' PROVE step(t)
  BY <1>3, ReadKeepsPlace
<1>4. ASSUME Before, SpreadMove, NEW t \in known PROVE step(t)
  <2> DEFINE src == Least(Overfull)
             tid == Least(Busy(src))
  <2>1. tid \in Tid /\ LessBusy(src) \subseteq Place
    BY <1>4, SpreadSource DEF SpreadMove, Before
  <2>2. PICK dst \in LessBusy(src) :
          MoveThread(tid, dst) \/ UNCHANGED <<affinity, proc, cpuTids, nodeTids>>
    BY <1>4 DEF SpreadMove
  <2> QED  BY <1>1, <1>4, <2>1, <2>2
<1>5. ASSUME Before, NEW u \in Children, NEW p \in Place, StrategyMove(u, p), NEW t \in known
      PROVE  step(t)
  <2>1. u \in Tid
    BY BelowInTid DEF Children
  <2> QED  BY <1>1, <1>5, <2>1 DEF StrategyMove
<1>6. ASSUME UNCHANGED proc, NEW t \in known PROVE step(t)
  BY <1>6
<1>7. ASSUME NEW t \in Tid, NEW p \in Tid, Spawn(t, p) \/ Exit(t) PROVE UNCHANGED proc
  BY <1>7 DEF Spawn, Exit, tables
<1>8. ASSUME EndSpread \/ UNCHANGED vars PROVE UNCHANGED proc
  BY <1>8 DEF EndSpread, vars, tables
<1>9. ASSUME Before, ScanAborted, NEW t \in known PROVE step(t)
  BY <1>9, ScanKeepsRecords
<1>10. Before /\ [Next]_vars => \A t \in known \cap known' : step(t)
  <2> SUFFICES ASSUME Before, [Next]_vars, NEW t \in known \cap known' PROVE step(t)
    OBVIOUS
  <2> HIDE DEF step
  <2> QED
    BY <1>2, <1>3, <1>4, <1>5, <1>6, <1>7, <1>8, <1>9, NoParentIsNoTid DEF Next, Kernel
<1>11. Before /\ [Next]_vars =>
         [\A t \in known \cap known' :
            proc[t].pinned /\ proc'[t].pinned_numa_node # proc[t].pinned_numa_node
              => t \in alive /\ affinity'[t] = CpusOf(proc'[t].pinned_numa_node)]_vars
  BY <1>10
<1> QED  BY <1>11, BeforeAlways, PTL DEF Spec, PlaceChangesWithMask

-----------------------------------------------------------------------------
(* Strategies that migrate to CPUs: the map and the record.                *)

LEMMA CpuMapStep ==
  ~MigrateToNodes /\ Before /\ Before' /\ CpuMapMatchesRecord /\ [Next]_vars
    => CpuMapMatchesRecord'
<1> SUFFICES ASSUME ~MigrateToNodes, Before, Before', CpuMapMatchesRecord, [Next]_vars
             PROVE  CpuMapMatchesRecord'
  OBVIOUS
<1>1. /\ proc \in [Tid -> Proc] /\ cpuTids \in [Cpu -> SUBSET Tid]
      /\ \A c \in Cpu : cpuTids[c] \subseteq known
      /\ known = Children
  BY BeforeFacts DEF Before, TypeOK, OnlyListedTids
<1>2. CASE Update
  <2> SUFFICES ASSUME NEW c \in Cpu, NEW t \in cpuTids'[c]
               PROVE  proc'[t].pinned /\ proc'[t].pinned_processor = c
    BY DEF CpuMapMatchesRecord
  <2>1. t \in cpuTids[c]
    BY <1>1, <1>2 DEF Update, EraseTids
  <2>2. known' = Children' /\ cpuTids'[c] \subseteq Children'
    BY DEF Before, RecordTree, TreeIsConnected, OnlyListedTids
  <2>3. t \in known \cap known'
    BY <1>1, <2>1, <2>2
  <2> QED  BY <1>2, <2>1, <2>3, ReadKeepsPlace DEF CpuMapMatchesRecord
<1>3. CASE PinPass
  <2> SUFFICES ASSUME NEW c \in Cpu, NEW t \in cpuTids'[c]
               PROVE  proc'[t].pinned /\ proc'[t].pinned_processor = c
    BY DEF CpuMapMatchesRecord
  <2> DEFINE pinned == PinnedAt(t, PinnedPlace(t))
  <2>1. t \in Tid
    BY DEF Before, TypeOK
  <2>2. pinned.pinned /\ pinned.pinned_processor = proc[t].pinned_processor
    BY <1>1, <2>1 DEF PinnedAt, PinnedPlace, SkipsCall, Proc
  <2>3. CASE t \in cpuTids[c]
    <3>1. proc'[t] = proc[t] \/ proc'[t] = pinned
      BY <1>3, <2>1 DEF PinPass
    <3> QED  BY <2>2, <2>3, <3>1 DEF CpuMapMatchesRecord
  <2>4. CASE t \notin cpuTids[c]
    <3>1. proc'[t] = pinned /\ proc'[t].pinned_processor = c
      BY <1>3, <2>1, <2>4 DEF PinPass
    <3> QED  BY <2>2, <3>1
  <2> QED  BY <2>3, <2>4
<1>4. ASSUME NEW u \in Tid, NEW p \in Place, MoveThread(u, p) PROVE CpuMapMatchesRecord'
  <2> DEFINE old == proc[u].pinned_processor
             new == PinnedAt(u, p).pinned_processor
  <2>1. PinnedAt(u, p).pinned /\ old \in Cpu /\ new \in Cpu
    <3>1. proc[u] \in Proc /\ p \in Cpu
      BY <1>1 DEF Place
    <3> QED  BY <3>1 DEF PinnedAt, SkipsCall, Proc
  <2>2. proc' = [proc EXCEPT ![u] = PinnedAt(u, p)]
    BY <1>4 DEF MoveThread
  <2>3. CASE new = old
    <3>1. cpuTids' = cpuTids
      BY <1>4, <2>3 DEF MoveThread, CpuAfterPin
    <3> QED  BY <1>1, <2>1, <2>2, <2>3, <3>1 DEF CpuMapMatchesRecord
  <2>4. CASE new # old
    <3>1. cpuTids' = [cpuTids EXCEPT ![old] = @ \ {u}, ![new] = @ \cup {u}]
      BY <1>4, <2>4 DEF MoveThread, CpuAfterPin
    <3>2. \A c \in Cpu : u \in cpuTids'[c] => c = new
      BY <1>1, <2>1, <3>1 DEF CpuMapMatchesRecord
    <3>3. \A c \in Cpu : cpuTids'[c] \subseteq cpuTids[c] \cup {u}
      BY <1>1, <3>1
    <3> QED  BY <1>1, <2>1, <2>2, <3>2, <3>3 DEF CpuMapMatchesRecord
  <2> QED  BY <2>3, <2>4
<1>5. ASSUME UNCHANGED <<proc, cpuTids>> PROVE CpuMapMatchesRecord'
  BY <1>5 DEF CpuMapMatchesRecord
<1>6. CASE SpreadMove
  <2> DEFINE src == Least(Overfull)
             tid == Least(Busy(src))
  <2>1. tid \in Tid /\ LessBusy(src) \subseteq Place
    BY <1>6, SpreadSource DEF SpreadMove, Before
  <2>2. PICK dst \in LessBusy(src) :
          MoveThread(tid, dst) \/ UNCHANGED <<affinity, proc, cpuTids, nodeTids>>
    BY <1>6 DEF SpreadMove
  <2> QED  BY <1>4, <1>5, <2>1, <2>2
<1>7. ASSUME NEW t \in Children, NEW p \in Place, StrategyMove(t, p)
      PROVE  CpuMapMatchesRecord'
  BY <1>4, <1>7, BelowInTid DEF StrategyMove, Children
<1>8. ASSUME NEW t \in Tid, NEW p \in Tid, Spawn(t, p) \/ Exit(t)
      PROVE  UNCHANGED <<proc, cpuTids>>
  BY <1>8 DEF Spawn, Exit, tables
<1>9. CASE EndSpread \/ UNCHANGED vars
  BY <1>5, <1>9 DEF EndSpread, vars, tables
<1>10. CASE ScanAborted
  <2>1. UNCHANGED cpuTids
    BY <1>10 DEF ScanAborted
  <2> QED  BY <1>1, <1>10, <2>1, ScanKeepsRecords DEF CpuMapMatchesRecord
<1> QED
  BY <1>2, <1>3, <1>5, <1>6, <1>7, <1>8, <1>9, <1>10, NoParentIsNoTid DEF Next, Kernel

\* With a strategy that migrates to CPUs, a thread is counted only on the CPU
\* its record is pinned to, hence on one CPU.
THEOREM CpuMapAgrees == ASSUME ~MigrateToNodes PROVE Spec => []CpuMapMatchesRecord
<1>1. Init => CpuMapMatchesRecord
  BY DEF Init, CpuMapMatchesRecord
<1>2. Before /\ Before' /\ CpuMapMatchesRecord /\ [Next]_vars => CpuMapMatchesRecord'
  BY CpuMapStep
<1> QED  BY <1>1, <1>2, BeforeAlways, PTL DEF Spec

-----------------------------------------------------------------------------
(* Rounds of migrations.                                                   *)

Phase == {"idle", "search", "spin", "plan", "perform", "undo", "review"}

\* One thread or two.
Cell == {c \in Seq(Half) : Len(c) <= 2}

RoundType ==
  /\ strategy \in Strategy /\ phase \in Phase
  /\ target \in [Tid -> Node]
  /\ moved \subseteq Tid /\ orphans \subseteq Tid
  /\ plan \in Seq(Cell) /\ done \in Seq(Cell)
  /\ cur \in Nat \ {0} /\ half \in 1 .. 3 /\ ok \in BOOLEAN
  /\ perf \in BOOLEAN /\ level \in 0 .. 2

Within(cells, S) == \A i \in 1 .. Len(cells) : TidsOf(cells[i]) \subseteq S

\* Which records the threads of the cells have.
RoundRecords ==
  /\ phase # "idle" => pc = "loop"
  /\ phase \in {"idle", "search", "spin", "review"} => plan = <<>>
  /\ phase \in {"search", "spin", "plan"} => done = <<>>
  /\ Within(plan, known)
  /\ phase \in {"perform", "undo"} => Within(done, known)
  /\ phase = "review" => Within(done, known \cup orphans)
  /\ orphans \cap (known \cup alive) = {}
  /\ \A t \in Tid \ known : proc[t] = Blank

\* What is shown above of every step of ThreadPlacement.
Tables == TypeOK /\ KernelTree /\ RecordTree /\ OnlyListedTids

RoundInv == Tables /\ RoundType /\ RoundRecords

LEMMA TablesInit == Init => Tables
BY TypeInit, TreesInit, ListedInit DEF Tables

LEMMA TablesStep == Tables /\ [Next]_vars => Tables'
<1> SUFFICES ASSUME Tables, [Next]_vars PROVE Tables'
  OBVIOUS
<1>1. TypeOK'
  BY TypeStep DEF Tables
<1>2. KernelTree' /\ RecordTree'
  BY TreesStep DEF Tables
<1>3. OnlyListedTids'
  BY <1>2, ListedStep DEF Tables
<1> QED  BY <1>1, <1>2, <1>3 DEF Tables

-----------------------------------------------------------------------------
(* The cells a strategy can make.                                          *)

\* Every number of a node is a node, the first among them.
LEMMA NodesFromZero == 0 \in Node /\ Node \subseteq Nat
<1>1. Cardinality(Node) \in Nat /\ Cardinality(Node) # 0
  BY MachineAssumption, FS_CardinalityType, FS_EmptySet
<1> QED  BY <1>1, MigrationAssumption

LEMMA TidsOfOne ==
  ASSUME NEW h PROVE TidsOf(<<h>>) = {h.tid}
BY DEF TidsOf

LEMMA TidsOfTwo ==
  ASSUME NEW h, NEW k PROVE TidsOf(<<h, k>>) = {h.tid, k.tid}
<1> DEFINE c == <<h, k>>
<1>1. Len(c) = 2 /\ c[1] = h /\ c[2] = k /\ 1 .. 2 = {1, 2}
  OBVIOUS
<1> QED  BY <1>1 DEF TidsOf

LEMMA OneIsCell ==
  ASSUME NEW h \in Half PROVE <<h>> \in Cell
BY DEF Cell

LEMMA TwoIsCell ==
  ASSUME NEW h \in Half, NEW k \in Half PROVE <<h, k>> \in Cell
BY DEF Cell

LEMMA HalfMade ==
  ASSUME NEW t \in Tid, NEW d \in Place, NEW p \in Place
  PROVE  [tid |-> t, dest |-> d, prev |-> p] \in Half
BY DEF Half

\* A cell is of the thread it was made for and of threads that are in no other.
GoodCell(t, cell) ==
  /\ cell \in Cell
  /\ TidsOf(cell) \subseteq known
  /\ TidsOf(cell) \cap moved = {}

LEMMA ChildFacts ==
  ASSUME Tables
  PROVE  /\ Children = known /\ known \subseteq Tid
         /\ \A p \in Place : TidsAt(p) \subseteq known
         /\ \A p \in Place : SwapsAt(p) \subseteq known \ moved
         /\ \A c \in Cpu : cpuTids[c] \subseteq known
<1>1. Children = known /\ known \subseteq Tid
  BY DEF Tables, RecordTree, TreeIsConnected, TypeOK
<1>2. \A p \in Place : TidsAt(p) \subseteq known
  BY <1>1 DEF Tables, OnlyListedTids, TidsAt, Place
<1>3. \A p \in Place : SwapsAt(p) \subseteq known \ moved
  BY <1>2 DEF SwapsAt, NotIdle
<1>4. \A c \in Cpu : cpuTids[c] \subseteq known
  BY <1>1 DEF Tables, OnlyListedTids
<1> QED  BY <1>1, <1>2, <1>3, <1>4

LEMMA SimpleIsGood ==
  ASSUME Tables, NEW t \in Children \ moved, NEW p \in Place
  PROVE  GoodCell(t, Simple(t, p))
<1> DEFINE h == [tid |-> t, dest |-> p, prev |-> PinnedPlace(t)]
<1>1. t \in Tid /\ t \in known \ moved
  BY ChildFacts
<1>2. PinnedPlace(t) \in Place
  BY <1>1, PinnedPlaceTyped DEF Tables
<1>3. h \in Half /\ h.tid = t
  BY <1>1, <1>2, HalfMade
<1>4. Simple(t, p) = <<h>>
  BY DEF Simple
<1> HIDE DEF h
<1>5. Simple(t, p) \in Cell
  BY <1>3, <1>4, OneIsCell
<1>6. TidsOf(Simple(t, p)) = {t}
  BY <1>3, <1>4, TidsOfOne
<1> QED  BY <1>1, <1>5, <1>6 DEF GoodCell

LEMMA InterchangeIsGood ==
  ASSUME Tables, NEW t \in Children \ moved, NEW p \in Place, NEW s \in known \ moved
  PROVE  GoodCell(t, Interchange(t, s, p))
<1> DEFINE h == [tid |-> t, dest |-> p, prev |-> PinnedPlace(t)]
           k == [tid |-> s, dest |-> PinnedPlace(t), prev |-> p]
<1>1. t \in Tid /\ t \in known \ moved /\ s \in Tid
  BY ChildFacts
<1>2. PinnedPlace(t) \in Place
  BY <1>1, PinnedPlaceTyped DEF Tables
<1>3. h \in Half /\ k \in Half /\ h.tid = t /\ k.tid = s
  BY <1>1, <1>2, HalfMade
<1>4. Interchange(t, s, p) = <<h, k>>
  BY DEF Interchange
<1> HIDE DEF h, k
<1> QED  BY <1>1, <1>3, <1>4, TwoIsCell, TidsOfTwo DEF GoodCell

LEMMA MovesAndSwapsAreGood ==
  ASSUME Tables, NEW t \in Children \ moved, NEW free, NEW dsts \in SUBSET Place,
         NEW cell \in MovesAndSwaps(t, free, dsts)
  PROVE  GoodCell(t, cell)
BY ChildFacts, SimpleIsGood, InterchangeIsGood DEF MovesAndSwaps

\* A strategy of nodes migrates to nodes, one of CPUs to CPUs.
LEMMA KindOfStrategy ==
  ASSUME strategy \in Strategy
  PROVE  /\ strategy \in NodeStrategy => MigrateToNodes /\ Place = Node
         /\ strategy \in CpuStrategy => ~MigrateToNodes /\ Place = Cpu
BY MigrationAssumption DEF NodeStrategy, CpuStrategy, Place

LEMMA ScheduleIsGood ==
  ASSUME Tables, RoundType, strategy \in {"RM3D", "ANNEALING"},
         NEW t \in Children \ moved, NEW cell \in ScheduleCells(t)
  PROVE  GoodCell(t, cell)
<1> DEFINE dst == target[t]
           src == SourceNode(t)
           h == [tid |-> t, dest |-> dst, prev |-> src]
           k(s) == [tid |-> s, dest |-> src, prev |-> dst]
<1>1. t \in Tid /\ t \in known \ moved
  BY ChildFacts
<1>2. Place = Node
  BY KindOfStrategy DEF RoundType, NodeStrategy
<1>3. dst \in Place /\ src \in Place
  BY <1>1, <1>2, MachineAssumption DEF RoundType, SourceNode, Tables, TypeOK, Proc
<1>4. h \in Half /\ h.tid = t
  BY <1>1, <1>3, HalfMade
<1>5. cell = <<h>> \/ \E s \in SwapsAt(dst) : cell = <<h, k(s)>>
  BY DEF ScheduleCells
<1>6. CASE cell = <<h>>
  <2> HIDE DEF h
  <2> QED  BY <1>1, <1>4, <1>6, OneIsCell, TidsOfOne DEF GoodCell
<1>7. CASE \E s \in SwapsAt(dst) : cell = <<h, k(s)>>
  <2>1. PICK s \in SwapsAt(dst) : cell = <<h, k(s)>>
    BY <1>7
  <2>2. s \in known \ moved /\ s \in Tid
    BY <1>3, ChildFacts
  <2>3. k(s) \in Half /\ k(s).tid = s
    BY <1>3, <2>2, HalfMade
  <2> HIDE DEF h, k
  <2> QED  BY <1>1, <1>4, <2>1, <2>2, <2>3, TwoIsCell, TidsOfTwo DEF GoodCell
<1> QED  BY <1>5, <1>6, <1>7

-----------------------------------------------------------------------------
(* Sequences of cells.                                                     *)

LEMMA AppendWithin ==
  ASSUME NEW cells \in Seq(Cell), NEW cell \in Cell, NEW S,
         Within(cells, S), TidsOf(cell) \subseteq S
  PROVE  Append(cells, cell) \in Seq(Cell) /\ Within(Append(cells, cell), S)
<1>1. /\ Append(cells, cell) \in Seq(Cell)
      /\ Len(Append(cells, cell)) = Len(cells) + 1
      /\ \A i \in 1 .. Len(cells) : Append(cells, cell)[i] = cells[i]
      /\ Append(cells, cell)[Len(cells) + 1] = cell
      /\ Len(cells) \in Nat
  OBVIOUS
<1>2. \A i \in 1 .. Len(cells) + 1 : i \in 1 .. Len(cells) \/ i = Len(cells) + 1
  BY <1>1
<1> QED  BY <1>1, <1>2 DEF Within

LEMMA EmptyWithin == ASSUME NEW S PROVE <<>> \in Seq(Cell) /\ Within(<<>>, S)
BY DEF Within

LEMMA WiderWithin ==
  ASSUME NEW cells, NEW S, NEW T, Within(cells, S), S \subseteq T
  PROVE  Within(cells, T)
BY DEF Within

\* The half that comes next.
LEMMA NextHalf ==
  ASSUME NEW cells \in Seq(Cell), NEW S, Within(cells, S),
         NEW i \in Nat \ {0}, NEW k \in 1 .. 3, i <= Len(cells), k <= Len(cells[i])
  PROVE  /\ cells[i][k] \in Half /\ cells[i][k].tid \in S
         /\ k + 1 \in 1 .. 3
<1>1. i \in 1 .. Len(cells) /\ cells[i] \in Cell
  OBVIOUS
<1>2. cells[i] \in Seq(Half) /\ Len(cells[i]) <= 2 /\ Len(cells[i]) \in Nat
  BY <1>1 DEF Cell
<1>3. k \in 1 .. Len(cells[i]) /\ k <= 2
  BY <1>2
<1>4. cells[i][k] \in Half
  BY <1>2, <1>3
<1>5. cells[i][k].tid \in TidsOf(cells[i])
  BY <1>3 DEF TidsOf
<1> QED  BY <1>1, <1>3, <1>4, <1>5 DEF Within

-----------------------------------------------------------------------------
(* Every step is one of ThreadPlacement.                                   *)

LEMMA BelowTransitive ==
  ASSUME NEW par, NEW p \in Tid, NEW t \in Below(par, p)
  PROVE  Below(par, t) \subseteq Below(par, p)
<1>1. t \in Tid /\ Below(par, p) \in SUBSET Tid
  BY BelowInTid
<1>2. \A u \in Tid : par[u] \in Below(par, p) => u \in Below(par, p)
  BY BelowClosed
<1> QED  BY <1>1, <1>2, BelowInClosed

\* The parent of a task of the program is one too.
LEMMA ParentLives ==
  ASSUME TypeOK, KernelTree, NEW t \in alive, t # Root
  PROVE  kparent[t] \in alive
<1> DEFINE S == {Root} \cup {u \in alive : kparent[u] \in alive}
<1>1. alive \subseteq Tid /\ Root \in alive /\ alive = Below(kparent, Root) /\ Root \in Tid
  BY TidAssumption DEF TypeOK, KernelTree
<1>2. \A u \in Tid : kparent[u] \in S => u \in S
  <2> SUFFICES ASSUME NEW u \in Tid, kparent[u] \in S PROVE u \in S
    OBVIOUS
  <2>1. kparent[u] \in alive
    BY <1>1
  <2>2. u \in alive
    BY <1>1, <2>1, BelowClosed
  <2> QED  BY <2>1, <2>2
<1>3. alive \subseteq S
  <2>1. S \in SUBSET Tid /\ Root \in S
    BY <1>1
  <2> HIDE DEF S
  <2> QED  BY <1>1, <1>2, <2>1, BelowInClosed
<1> QED  BY <1>3

\* What compare_last_migrations() does to the tree is what a scan that is
\* given up does, or nothing.
LEMMA RecallStep ==
  ASSUME Tables, pc = "loop", RecallLast
  PROVE  /\ [Next]_vars
         /\ known \subseteq known' /\ known' \subseteq known \cup alive
         /\ UNCHANGED <<alive, pc>>
         /\ \A t \in Tid \ known' : proc'[t] = proc[t]
         /\ Within(done, known' \cup orphans')
         /\ orphans' \subseteq orphans \cup ((UNION {TidsOf(done[i]) : i \in 1 .. Len(done)}) \ (known \cup alive))
<1> DEFINE tids == UNION {TidsOf(done[i]) : i \in 1 .. Len(done)}
           found == {t \in alive \ known : Below(kparent, t) \cap tids \cap alive # {}}
<1>1. /\ orphans' = orphans \cup (tids \ (known \cup alive))
      /\ known' = known \cup found
      /\ parent' = [t \in Tid |-> IF t \in found THEN kparent[t] ELSE parent[t]]
      /\ UNCHANGED <<kernel, cpuTids, nodeTids, control>>
  BY DEF RecallLast
<1>2. PICK sleeping \in SUBSET found, cpu \in [found -> Cpu] :
        /\ \A t \in found : cpu[t] \in RanOn(t)
        /\ proc' = [t \in Tid |-> IF t \in found THEN ReadStat(t, cpu[t], t \in sleeping)
                                  ELSE proc[t]]
  BY DEF RecallLast
<1>3. /\ alive \subseteq Tid /\ Root \in known
      /\ proc = [t \in Tid |-> proc[t]] /\ parent = [t \in Tid |-> parent[t]]
  <2>1. Root \in known
    BY BelowHoldsRoot, TidAssumption
    DEF Tables, RecordTree, TreeIsConnected, Children
  <2> QED  BY <2>1 DEF Tables, TypeOK
<1>4. \A t \in found : kparent[t] \in known \cup found
  <2> SUFFICES ASSUME NEW t \in found PROVE kparent[t] \in known \cup found
    OBVIOUS
  <2>1. t \in alive /\ t # Root /\ t \in Tid
    BY <1>3
  <2>2. kparent[t] \in alive /\ kparent[t] \in Tid
    BY <1>3, <2>1, ParentLives DEF Tables
  <2>3. kparent[t] \in Below(kparent, kparent[t])
    BY <2>2, BelowHoldsRoot
  <2>4. t \in Below(kparent, kparent[t])
    BY <2>1, <2>2, <2>3, BelowClosed
  <2>5. Below(kparent, t) \subseteq Below(kparent, kparent[t])
    BY <2>2, <2>4, BelowTransitive
  <2> QED  BY <2>2, <2>5
<1>5. [Next]_vars
  <2>1. CASE found = {}
    <3>1. UNCHANGED <<known, parent, proc>>
      BY <1>1, <1>2, <1>3, <2>1
    <3> QED  BY <1>1, <3>1 DEF vars, tables
  <2>2. CASE found # {}
    <3>1. found \in SUBSET (alive \ known)
      OBVIOUS
    <3>2. ScanAborted
      <4> HIDE DEF found
      <4> QED  BY <1>1, <1>2, <1>4, <2>2, <3>1 DEF ScanAborted
    <3> QED  BY <3>2 DEF Next
  <2> QED  BY <2>1, <2>2
<1>6. Within(done, known' \cup orphans')
  <2> SUFFICES ASSUME NEW i \in 1 .. Len(done), NEW t \in TidsOf(done[i])
               PROVE  t \in known' \cup orphans'
    BY DEF Within
  <2>1. t \in tids
    OBVIOUS
  <2>2. CASE t \in alive
    <3>1. t \in Below(kparent, t)
      BY <1>3, <2>2, BelowHoldsRoot
    <3> QED  BY <1>1, <2>1, <2>2, <3>1
  <2>3. CASE t \notin alive
    BY <1>1, <2>1, <2>3
  <2> QED  BY <2>2, <2>3
<1>7. /\ known \subseteq known' /\ known' \subseteq known \cup alive
      /\ UNCHANGED <<alive, pc>>
  BY <1>1 DEF kernel, control
<1>8. \A t \in Tid \ known' : proc'[t] = proc[t]
  BY <1>1, <1>2
<1>9. orphans' \subseteq orphans
         \cup ((UNION {TidsOf(done[i]) : i \in 1 .. Len(done)}) \ (known \cup alive))
  BY <1>1
<1> QED  BY <1>5, <1>6, <1>7, <1>8, <1>9

\* A half that is performed or undone moves a thread with a record, or fails.
LEMMA HalfStep ==
  ASSUME RoundInv, phase # "idle", NEW h \in Half, h.tid \in known \cup orphans,
         NEW place \in Place, MoveHalf(h.tid, place),
         UNCHANGED <<alive, kparent, known, parent, control>>
  PROVE  /\ [Next]_vars
         /\ \A t \in Tid \ known : proc'[t] = proc[t]
<1>1. pc = "loop" /\ h.tid \in Tid
  BY DEF RoundInv, RoundRecords, Half
<1>2. CASE MoveThread(h.tid, place)
  <2>1. h.tid \in known
    <3> SUFFICES ASSUME h.tid \in orphans, h.tid \notin known PROVE FALSE
      OBVIOUS
    <3>1. h.tid \notin alive /\ proc[h.tid] = Blank
      BY <1>1 DEF RoundInv, RoundRecords
    <3>2. ~CanPin(h.tid, place)
      BY <3>1 DEF CanPin, SkipsCall, Blank
    <3> QED  BY <1>2, <3>2 DEF MoveThread
  <2>2. h.tid \in Children
    BY <2>1, ChildFacts DEF RoundInv
  <2>3. StrategyMove(h.tid, place)
    BY <1>1, <1>2 DEF StrategyMove
  <2>4. \A t \in Tid \ known : proc'[t] = proc[t]
    BY <1>2, <2>1 DEF MoveThread, RoundInv, Tables, TypeOK
  <2> QED  BY <2>2, <2>3, <2>4 DEF Next
<1>3. CASE UNCHANGED <<affinity, proc, cpuTids, nodeTids>>
  BY <1>3 DEF vars, kernel, tables
<1> QED  BY <1>2, <1>3 DEF MoveHalf

\* The two actions that move halves, and what they move.
LEMMA PerformedHalf ==
  ASSUME RoundInv, PerformHalf
  PROVE  /\ [Next]_vars /\ half' \in 1 .. 3 /\ ok' \in BOOLEAN
         /\ \A t \in Tid \ known : proc'[t] = proc[t]
<1> DEFINE h == plan[cur][half]
<1>1. h \in Half /\ h.tid \in known /\ half + 1 \in 1 .. 3
  BY NextHalf DEF RoundInv, RoundType, RoundRecords, PerformHalf
<1>2. h.dest \in Place
  BY <1>1 DEF Half
<1>3. phase # "idle" /\ MoveHalf(h.tid, h.dest) /\ half' = half + 1
      /\ UNCHANGED <<alive, kparent, known, parent, control>>
  BY DEF PerformHalf
<1>4. ok' \in BOOLEAN
  BY <1>3 DEF MoveHalf, RoundInv, RoundType
<1> HIDE DEF h
<1> QED  BY <1>1, <1>2, <1>3, <1>4, HalfStep

LEMMA UndoneHalf ==
  ASSUME RoundInv, UndoHalf
  PROVE  /\ [Next]_vars /\ half' \in 1 .. 3 /\ ok' \in BOOLEAN
         /\ \A t \in Tid \ known : proc'[t] = proc[t]
<1> DEFINE h == done[cur][half]
<1>1. Within(done, known \cup orphans)
  BY WiderWithin DEF RoundInv, RoundRecords, UndoHalf
<1>2. h \in Half /\ h.tid \in known \cup orphans /\ half + 1 \in 1 .. 3
  BY <1>1, NextHalf DEF RoundInv, RoundType, UndoHalf
<1>3. h.prev \in Place
  BY <1>2 DEF Half
<1>4. phase # "idle" /\ MoveHalf(h.tid, h.prev) /\ half' = half + 1
      /\ UNCHANGED <<alive, kparent, known, parent, control>>
  BY DEF UndoHalf
<1>5. ok' \in BOOLEAN
  BY <1>4 DEF MoveHalf, RoundInv, RoundType
<1> HIDE DEF h
<1> QED  BY <1>2, <1>3, <1>4, <1>5, HalfStep

\* The actions of a round that leave the tables alone.
Thinking ==
  \/ BeginNimar \/ BeginCimar \/ BeginLbma \/ BeginRandom \/ BeginAnnealing \/ BeginRm3d
  \/ Search \/ EndSearch \/ Plan \/ EndCell \/ NextUndo \/ EndRound

LEMMA ThinkingStep == Thinking => UNCHANGED vars
<1>1. BeginNimar \/ BeginCimar \/ BeginLbma \/ BeginRandom \/ BeginAnnealing \/ BeginRm3d
        => UNCHANGED vars
  BY DEF BeginNimar, BeginCimar, BeginLbma, BeginRandom, BeginAnnealing, BeginRm3d, Begin
<1>2. Search \/ EndSearch => UNCHANGED vars
  BY DEF Search, Spin, Neighbour, EndSearch, mvars
<1>3. Plan => UNCHANGED vars
  BY DEF Plan, PlanNimar, PlanCimar, PlanImar2, PlanLbma, PlanRandom, PlanSchedule, EndPlan, AddCell
<1>4. EndCell \/ NextUndo \/ EndRound => UNCHANGED vars
  BY DEF EndCell, NextUndo, EndRound
<1> QED  BY <1>1, <1>2, <1>3, <1>4 DEF Thinking

LEMMA RoundSteps ==
  MNext => KernelStep \/ MainLoop \/ BeginImar2 \/ PerformHalf \/ UndoHalf \/ Thinking
BY DEF MNext, BeginRound, Perform, Thinking

LEMMA StepIsPlacement == RoundInv /\ [MNext]_mvars => [Next]_vars
<1> SUFFICES ASSUME RoundInv, [MNext]_mvars PROVE [Next]_vars
  OBVIOUS
<1>1. CASE KernelStep
  BY <1>1 DEF KernelStep, Next
<1>2. CASE MainLoop
  BY <1>2 DEF MainLoop, Next
<1>3. CASE BeginImar2
  BY <1>3, RecallStep DEF BeginImar2, RoundInv
<1>4. CASE Thinking
  BY <1>4, ThinkingStep
<1>5. CASE UNCHANGED mvars
  BY <1>5 DEF mvars
<1> QED  BY <1>1, <1>2, <1>3, <1>4, <1>5, PerformedHalf, UndoneHalf, RoundSteps

-----------------------------------------------------------------------------
(* The invariant of a round is one.                                        *)

LEMMA RoundInit == MInit => RoundInv
<1> SUFFICES ASSUME MInit PROVE RoundInv
  OBVIOUS
<1>1. Tables
  BY TablesInit DEF MInit
<1>2. RoundType
  <2>1. /\ strategy \in Strategy /\ phase = "idle"
        /\ target = [t \in Tid |-> 0] /\ moved = {} /\ plan = <<>> /\ done = <<>>
        /\ cur = 1 /\ half = 1 /\ ok = TRUE /\ perf = FALSE /\ level = 0 /\ orphans = {}
    BY DEF MInit, InitRound
  <2>2. target \in [Tid -> Node]
    BY <2>1, NodesFromZero
  <2>3. plan \in Seq(Cell) /\ done \in Seq(Cell)
    BY <2>1, EmptyWithin
  <2>4. cur \in Nat \ {0} /\ half \in 1 .. 3 /\ level \in 0 .. 2
    BY <2>1
  <2> QED  BY <2>1, <2>2, <2>3, <2>4 DEF RoundType, Phase
<1>3. RoundRecords
  <2>1. \A t \in Tid \ known : proc[t] = Blank
    BY DEF MInit, Init
  <2> QED  BY <2>1, EmptyWithin DEF MInit, Init, InitRound, RoundRecords
<1> QED  BY <1>1, <1>2, <1>3 DEF RoundInv

\* The kernel, and the calls of the main loop between rounds.
LEMMA KernelKeepsRound ==
  ASSUME RoundInv, KernelStep PROVE RoundType' /\ RoundRecords'
<1>1. UNCHANGED <<round, tables, control>> /\ alive' \cap orphans = {}
  BY DEF KernelStep, Kernel, Spawn, Exit
<1>2. RoundType'
  BY <1>1 DEF RoundInv, RoundType, round, choice, progress, history
<1>3. RoundRecords'
  BY <1>1
  DEF RoundInv, RoundRecords, round, choice, progress, history, tables, control, Within
<1> QED  BY <1>2, <1>3

LEMMA SameRound ==
  ASSUME RoundInv, UNCHANGED mvars PROVE RoundType' /\ RoundRecords'
<1>1. UNCHANGED <<strategy, phase, target, moved, plan, done, cur, half, ok, perf, level, orphans,
                  alive, known, proc, pc>>
  BY DEF mvars, vars, kernel, tables, control, round, choice, progress, history
<1>2. RoundType'
  BY <1>1 DEF RoundInv, RoundType
<1>3. RoundRecords'
  BY <1>1 DEF RoundInv, RoundRecords, Within
<1> QED  BY <1>2, <1>3

LEMMA LoopKeepsRecords ==
  ASSUME RoundInv, MainLoop
  PROVE  /\ \A t \in Tid \ known' : proc'[t] = Blank
         /\ orphans' \cap (known' \cup alive') = {}
<1>1. /\ \A t \in Tid \ known : proc[t] = Blank
      /\ orphans \cap (known \cup alive) = {}
  BY DEF RoundInv, RoundRecords
<1>2. TypeOK
  BY DEF RoundInv, Tables
<1>3. CASE Update /\ orphans' = {}
  BY <1>3 DEF Update
<1>4. CASE ScanAborted /\ UNCHANGED orphans
  BY <1>1, <1>2, <1>4 DEF ScanAborted, kernel
<1>5. CASE PinPass /\ UNCHANGED orphans
  <2>1. \A t \in Tid \ known : proc'[t] = proc[t]
    BY <1>5, ChildFacts DEF PinPass, RoundInv
  <2> QED  BY <1>1, <1>5, <2>1 DEF PinPass
<1>6. CASE SpreadMove /\ UNCHANGED orphans
  <2> DEFINE src == Least(Overfull)
             tid == Least(Busy(src))
  <2>1. tid \in Busy(src) /\ src \in Place
    BY <1>2, <1>6, SpreadSource DEF SpreadMove
  <2>2. tid \in known
    BY <2>1, ChildFacts DEF Busy, NotIdle, RoundInv
  <2>3. PICK dst \in LessBusy(src) :
          MoveThread(tid, dst) \/ UNCHANGED <<affinity, proc, cpuTids, nodeTids>>
    BY <1>6 DEF SpreadMove
  <2>4. \A t \in Tid \ known : proc'[t] = proc[t]
    <3> HIDE DEF tid, src
    <3> QED  BY <1>2, <2>2, <2>3 DEF MoveThread, TypeOK
  <2> QED  BY <1>1, <1>6, <2>4 DEF SpreadMove
<1>7. CASE EndSpread /\ UNCHANGED orphans
  BY <1>1, <1>7 DEF EndSpread, kernel, tables
<1> QED  BY <1>3, <1>4, <1>5, <1>6, <1>7 DEF MainLoop

LEMMA LoopKeepsRound ==
  ASSUME RoundInv, MainLoop PROVE RoundType' /\ RoundRecords'
<1>1. /\ phase = "idle" /\ orphans' \subseteq orphans
      /\ UNCHANGED <<strategy, phase, target, moved, plan, cur, half, ok, done, perf, level>>
  BY DEF MainLoop, choice, progress
<1>2. RoundType'
  BY <1>1 DEF RoundInv, RoundType
<1>3. plan' = <<>>
  BY <1>1 DEF RoundInv, RoundRecords
<1> QED
  BY <1>1, <1>2, <1>3, LoopKeepsRecords, EmptyWithin DEF RoundRecords

\* The start of a round.
LEMMA BeginKeepsRound ==
  ASSUME RoundInv, NEW s \in Strategy, NEW on \in {"idle", "search", "plan"}, Begin(s, on),
         target' \in [Tid -> Node]
  PROVE  RoundType' /\ RoundRecords'
<1>1. /\ phase = "idle" /\ pc = "loop" /\ plan = <<>>
      /\ UNCHANGED <<vars, strategy, moved, plan, cur, half, ok, level, orphans>>
      /\ \/ perf' = FALSE /\ UNCHANGED <<phase, done>>
         \/ perf' = TRUE /\ phase' = on /\ done' = <<>>
  BY DEF Begin, RoundInv, RoundRecords, progress
<1>2. RoundType'
  BY <1>1, EmptyWithin DEF RoundInv, RoundType, Phase
<1>3. RoundRecords'
  BY <1>1, EmptyWithin DEF RoundInv, RoundRecords, vars, kernel, tables, control
<1> QED  BY <1>2, <1>3

LEMMA BeginsKeepRound ==
  ASSUME RoundInv,
         BeginNimar \/ BeginCimar \/ BeginLbma \/ BeginRandom \/ BeginAnnealing \/ BeginRm3d
  PROVE  RoundType' /\ RoundRecords'
<1>1. target \in [Tid -> Node] /\ strategy \in Strategy
  BY DEF RoundInv, RoundType
<1>2. \A t \in Tid : SourceNode(t) \in Node
  BY MachineAssumption DEF SourceNode, RoundInv, Tables, TypeOK, Proc
<1>3. FirstSchedule => target' \in [Tid -> Node]
  BY <1>2 DEF FirstSchedule
<1>4. \A s, on : Begin(s, on) => s = strategy
  BY DEF Begin
<1>5. CASE BeginNimar \/ BeginCimar \/ BeginLbma \/ BeginRandom
  BY <1>1, <1>4, <1>5, BeginKeepsRound DEF BeginNimar, BeginCimar, BeginLbma, BeginRandom
<1>6. CASE BeginAnnealing \/ BeginRm3d
  BY <1>1, <1>3, <1>4, <1>6, BeginKeepsRound DEF BeginAnnealing, BeginRm3d, SearchIfNodes
<1> QED  BY <1>5, <1>6

LEMMA ReviewKeepsRound ==
  ASSUME RoundInv, BeginImar2 PROVE RoundType' /\ RoundRecords'
<1>1. /\ phase = "idle" /\ pc = "loop" /\ plan = <<>> /\ RecallLast
      /\ UNCHANGED <<strategy, target, moved, plan, cur, half, ok>>
  BY DEF BeginImar2, choice, progress, RoundInv, RoundRecords
<1>2. /\ known \subseteq known' /\ known' \subseteq known \cup alive
      /\ UNCHANGED <<alive, pc>>
      /\ \A t \in Tid \ known' : proc'[t] = proc[t]
      /\ Within(done, known' \cup orphans')
      /\ orphans' \subseteq orphans
           \cup ((UNION {TidsOf(done[i]) : i \in 1 .. Len(done)}) \ (known \cup alive))
  BY <1>1, RecallStep DEF RoundInv
<1>3. (UNION {TidsOf(done[i]) : i \in 1 .. Len(done)}) \subseteq Tid
  <2> SUFFICES ASSUME NEW i \in 1 .. Len(done), NEW k \in 1 .. Len(done[i])
               PROVE  done[i][k].tid \in Tid
    BY DEF TidsOf
  <2>1. done[i] \in Seq(Half)
    BY DEF RoundInv, RoundType, Cell
  <2>2. done[i][k] \in Half
    BY <2>1
  <2> QED  BY <2>2 DEF Half
<1>4. /\ \/ perf' \in BOOLEAN /\ UNCHANGED <<phase, done, level>>
         \/ /\ phase' = "review" /\ level' \in 0 .. 2
            /\ UNCHANGED <<perf, done>>
         \/ /\ phase' = "plan" /\ done' = <<>> /\ level' \in 0 .. 2
            /\ UNCHANGED perf
  <2>1. level \in 0 .. 2
    BY DEF RoundInv, RoundType
  <2>2. TimeGoUp \/ TimeGoDown => level' \in 0 .. 2
    BY <2>1 DEF TimeGoUp, TimeGoDown
  <2> HIDE DEF TimeGoUp, TimeGoDown
  <2>3. \/ perf' = FALSE /\ UNCHANGED <<phase, done, level>>
        \/ perf' = TRUE /\ UNCHANGED <<phase, done, level>>
        \/ phase' = "review" /\ TimeGoUp /\ UNCHANGED <<perf, done>>
        \/ phase' = "plan" /\ done' = <<>> /\ (TimeGoUp \/ TimeGoDown) /\ UNCHANGED perf
    BY Zenon DEF BeginImar2
  <2> QED  BY <2>2, <2>3
<1>5. orphans' \subseteq Tid /\ orphans' \cap (known' \cup alive') = {}
  BY <1>2, <1>3 DEF RoundInv, RoundType, RoundRecords
<1>6. RoundType'
  BY <1>1, <1>4, <1>5, EmptyWithin DEF RoundInv, RoundType, Phase
<1>7. \A t \in Tid \ known' : proc'[t] = Blank
  BY <1>2 DEF RoundInv, RoundRecords
<1>8. RoundRecords'
  BY <1>1, <1>2, <1>4, <1>5, <1>7, EmptyWithin DEF RoundRecords
<1> QED  BY <1>6, <1>8

\* The search changes where threads are to go, the choice adds a cell.
LEMMA SearchKeepsRound ==
  ASSUME RoundInv, Search \/ EndSearch PROVE RoundType' /\ RoundRecords'
<1>1. CASE Spin
  BY <1>1, SameRound DEF Spin
<1>2. CASE EndSearch
  BY <1>2 DEF EndSearch, vars, kernel, tables, control, choice, progress, history,
              RoundInv, RoundType, RoundRecords, Phase, Within
<1>3. ASSUME NEW t \in Tid, Neighbour(t) PROVE RoundType' /\ RoundRecords'
  <2>1. /\ phase = "search" /\ plan = <<>> /\ phase' \in {"search", "spin", "idle"}
        /\ done = <<>> /\ pc = "loop"
        /\ UNCHANGED <<vars, strategy, moved, plan, cur, half, ok, done, perf, level, orphans>>
    BY <1>3 DEF Neighbour, progress, history, RoundInv, RoundRecords
  <2>2. target' \in [Tid -> Node]
    <3>1. target \in [Tid -> Node] /\ 0 \in Node /\ DrawForThread(t) \subseteq Node
      BY NodesFromZero DEF RoundInv, RoundType, DrawForThread, DrawnNodes
    <3>2. \/ UNCHANGED target
          \/ target' = [u \in Tid |-> 0]
          \/ \E n \in DrawForThread(t) : target' = [target EXCEPT ![t] = n]
          \/ \E n \in DrawForThread(t) : \E s \in Scheduled(n) :
                target' = [target EXCEPT ![t] = n, ![s] = target[t]]
      BY <1>3, Zenon DEF Neighbour
    <3> HIDE DEF DrawForThread, Scheduled
    <3> QED  BY <3>1, <3>2
  <2>3. RoundType'
    BY <2>1, <2>2 DEF RoundInv, RoundType, Phase
  <2>4. RoundRecords'
    BY <2>1 DEF RoundInv, RoundRecords, vars, kernel, tables, control, Within
  <2> QED  BY <2>3, <2>4
<1> QED  BY <1>1, <1>2, <1>3 DEF Search

LEMMA AddedIsGood ==
  ASSUME RoundInv, Plan, ~EndPlan
  PROVE  \E t \in Children \ moved, cell \in Cell :
           /\ GoodCell(t, cell) /\ phase = "plan"
           /\ plan' = Append(plan, cell) /\ moved' = moved \cup TidsOf(cell)
           /\ UNCHANGED <<vars, strategy, phase, target, progress, history>>
<1>1. Tables /\ RoundType /\ strategy \in Strategy
  BY DEF RoundInv, RoundType
<1>2. ASSUME NEW t \in Children \ moved, NEW cells, AddCell(t, cells), phase = "plan",
             \A cell \in cells : GoodCell(t, cell)
      PROVE  \E u \in Children \ moved, cell \in Cell :
               /\ GoodCell(u, cell) /\ phase = "plan"
               /\ plan' = Append(plan, cell) /\ moved' = moved \cup TidsOf(cell)
               /\ UNCHANGED <<vars, strategy, phase, target, progress, history>>
  BY <1>2 DEF AddCell, GoodCell
<1>3. NodeStrategy \cap CpuStrategy = {} /\ Node \subseteq Nat
  BY NodesFromZero DEF NodeStrategy, CpuStrategy
<1>4. \A t : /\ CpusElsewhere(t) \subseteq Cpu
             /\ Node \ {PinnedPlace(t)} \subseteq Node
  BY DEF CpusElsewhere
<1>5. CASE PlanNimar
  <2>1. Place = Node
    BY <1>1, <1>5, KindOfStrategy DEF PlanNimar, PlanFor, NodeStrategy
  <2>2. \A t \in Children \ moved : \A cell \in NimarCells(t) : GoodCell(t, cell)
    BY <1>1, <1>4, <2>1, MovesAndSwapsAreGood DEF NimarCells
  <2> QED  BY <1>2, <1>5, <2>2 DEF PlanNimar, PlanFor
<1>6. CASE PlanCimar \/ PlanImar2 \/ PlanLbma
  <2>1. Place = Cpu
    BY <1>1, <1>6, KindOfStrategy DEF PlanCimar, PlanImar2, PlanLbma, PlanFor, CpuStrategy
  <2>2. \A t \in Children \ moved : \A cell \in MovesAndSwaps(t, FreeCpus, CpusElsewhere(t)) :
          GoodCell(t, cell)
    BY <1>1, <1>4, <2>1, MovesAndSwapsAreGood
  <2> QED
    BY <1>2, <1>6, <2>2
    DEF PlanCimar, PlanImar2, PlanLbma, PlanFor, CimarCells, Imar2Cells, LbmaCells
<1>7. CASE PlanRandom
  <2>1. Place = Cpu
    BY <1>1, <1>7, KindOfStrategy DEF PlanRandom, PlanFor, CpuStrategy
  <2>2. \A t \in Children \ moved : \A cell \in RandomCells(t) : GoodCell(t, cell)
    <3> SUFFICES ASSUME NEW t \in Children \ moved, NEW cell \in RandomCells(t)
                 PROVE  GoodCell(t, cell)
      OBVIOUS
    <3>1. CASE \E c \in Cpu : cell = Simple(t, c)
      BY <1>1, <2>1, <3>1, SimpleIsGood
    <3>2. CASE \E c \in Cpu : \E s \in cpuTids[c] \ moved : cell = Interchange(t, s, c)
      BY <1>1, <2>1, <3>2, InterchangeIsGood, ChildFacts
    <3> QED  BY <3>1, <3>2 DEF RandomCells
  <2> QED  BY <1>2, <1>7, <2>2 DEF PlanRandom, PlanFor
<1>8. CASE PlanSchedule
  <2>1. strategy \in {"RM3D", "ANNEALING"} /\ phase = "plan"
    BY <1>8 DEF PlanSchedule, PlanFor
  <2>2. \A t \in Children \ moved : \A cell \in ScheduleCells(t) : GoodCell(t, cell)
    BY <1>1, <2>1, ScheduleIsGood
  <2> QED  BY <1>2, <1>8, <2>1, <2>2 DEF PlanSchedule
<1> QED  BY <1>5, <1>6, <1>7, <1>8 DEF Plan

LEMMA PlanKeepsRound ==
  ASSUME RoundInv, Plan PROVE RoundType' /\ RoundRecords'
<1>1. CASE EndPlan
  <2>1. /\ phase = "plan" /\ phase' = "perform" /\ plan' \in {plan, <<>>} /\ done = <<>>
        /\ pc = "loop"
        /\ UNCHANGED <<vars, strategy, target, moved, cur, half, ok, done, perf, level, orphans>>
    BY <1>1 DEF EndPlan, progress, history, RoundInv, RoundRecords
  <2>2. plan' \in Seq(Cell) /\ Within(plan', known)
    BY <2>1, EmptyWithin DEF RoundInv, RoundType, RoundRecords
  <2>3. RoundType'
    BY <2>1, <2>2 DEF RoundInv, RoundType, Phase
  <2>4. RoundRecords'
    BY <2>1, <2>2, EmptyWithin DEF RoundInv, RoundRecords, vars, kernel, tables, control
  <2> QED  BY <2>3, <2>4
<1>2. CASE ~EndPlan
  <2>1. PICK t \in Children \ moved, cell \in Cell :
           /\ GoodCell(t, cell) /\ phase = "plan"
           /\ plan' = Append(plan, cell) /\ moved' = moved \cup TidsOf(cell)
           /\ UNCHANGED <<vars, strategy, phase, target, progress, history>>
    BY <1>2, AddedIsGood
  <2>2. plan' \in Seq(Cell) /\ Within(plan', known)
    BY <2>1, AppendWithin DEF RoundInv, RoundType, RoundRecords, GoodCell
  <2>3. moved' \subseteq Tid
    BY <2>1, ChildFacts DEF RoundInv, RoundType, GoodCell
  <2>4. RoundType'
    BY <2>1, <2>2, <2>3 DEF RoundInv, RoundType, progress, history
  <2>5. RoundRecords'
    BY <2>1, <2>2, EmptyWithin DEF RoundInv, RoundRecords, vars, kernel, tables, control, history
  <2> QED  BY <2>4, <2>5
<1> QED  BY <1>1, <1>2

\* The halves of a cell, and the steps between the cells.
LEMMA HalvesKeepRound ==
  ASSUME RoundInv, PerformHalf \/ UndoHalf PROVE RoundType' /\ RoundRecords'
<1>1. /\ half' \in 1 .. 3 /\ ok' \in BOOLEAN
      /\ \A t \in Tid \ known : proc'[t] = proc[t]
  BY PerformedHalf, UndoneHalf
<1>2. UNCHANGED <<alive, known, pc, strategy, phase, target, moved, plan, cur, done, perf, level, orphans>>
  BY DEF PerformHalf, UndoHalf, control, choice, history
<1>3. RoundType'
  BY <1>1, <1>2 DEF RoundInv, RoundType
<1>4. RoundRecords'
  BY <1>1, <1>2 DEF RoundInv, RoundRecords, Within
<1> QED  BY <1>3, <1>4

LEMMA CellsKeepRound ==
  ASSUME RoundInv, EndCell \/ NextUndo \/ EndRound PROVE RoundType' /\ RoundRecords'
<1> USE DEF RoundInv
<1>1. CASE EndCell
  <2>1. /\ phase = "perform" /\ cur \in 1 .. Len(plan)
        /\ half' = 1 /\ ok' = TRUE
        /\ UNCHANGED <<alive, known, proc, pc, strategy, target, moved, plan, perf, level, orphans>>
    BY <1>1 DEF EndCell, vars, kernel, tables, control, choice, RoundType
  <2>2. \/ cur' = cur + 1 /\ done' = Append(done, plan[cur]) /\ phase' = phase
        \/ phase' = "undo" /\ cur' = 1 /\ done' = done
    BY <1>1 DEF EndCell
  <2>3. plan[cur] \in Cell /\ TidsOf(plan[cur]) \subseteq known
    BY <2>1 DEF RoundType, RoundRecords, Within
  <2>4. done' \in Seq(Cell) /\ Within(done', known)
    BY <2>1, <2>2, <2>3, AppendWithin, ZenonT(60) DEF RoundType, RoundRecords
  <2>5. RoundType'
    BY <2>1, <2>2, <2>4 DEF RoundType, Phase
  <2>6. RoundRecords'
    BY <2>1, <2>2, <2>4 DEF RoundRecords, Within
  <2> QED  BY <2>5, <2>6
<1>2. CASE NextUndo
  <2>1. /\ cur' = cur + 1 /\ half' = 1 /\ ok' = TRUE
        /\ UNCHANGED <<alive, known, proc, pc, strategy, phase, target, moved, plan, done, perf, level,
                      orphans>>
    BY <1>2 DEF NextUndo, vars, kernel, tables, control, choice, history
  <2>2. RoundType'
    BY <2>1 DEF RoundType
  <2>3. RoundRecords'
    BY <2>1 DEF RoundRecords, Within
  <2> QED  BY <2>2, <2>3
<1>3. CASE EndRound
  <2>1. /\ phase' = "idle" /\ (done' = done \/ done' = <<>>)
        /\ moved' = {} /\ plan' = <<>> /\ target' = [t \in Tid |-> 0]
        /\ cur' = 1 /\ half' = 1 /\ ok' = TRUE
        /\ UNCHANGED <<alive, known, proc, pc, strategy, perf, level, orphans>>
    BY <1>3 DEF EndRound, vars, kernel, tables, control
  <2>2. target' \in [Tid -> Node] /\ plan' \in Seq(Cell) /\ done' \in Seq(Cell)
    BY <2>1, NodesFromZero, EmptyWithin DEF RoundType
  <2>3. RoundType'
    BY <2>1, <2>2 DEF RoundType, Phase
  <2>4. RoundRecords'
    BY <2>1, EmptyWithin DEF RoundRecords
  <2> QED  BY <2>3, <2>4
<1> QED  BY <1>1, <1>2, <1>3

LEMMA RoundStep == RoundInv /\ [MNext]_mvars => RoundInv'
<1> SUFFICES ASSUME RoundInv, [MNext]_mvars PROVE RoundInv'
  OBVIOUS
<1>1. Tables'
  BY StepIsPlacement, TablesStep DEF RoundInv
<1>2. RoundType' /\ RoundRecords'
  BY KernelKeepsRound, LoopKeepsRound, BeginsKeepRound, ReviewKeepsRound, SearchKeepsRound,
     PlanKeepsRound, HalvesKeepRound, CellsKeepRound, SameRound
  DEF MNext, BeginRound, Perform
<1> QED  BY <1>1, <1>2 DEF RoundInv

LEMMA RoundInvariant == MSpec => []RoundInv
<1> QED  BY RoundInit, RoundStep, PTL DEF MSpec

-----------------------------------------------------------------------------
(* Theorems.                                                               *)

\* Every variable of a round has its type, in every round of every strategy:
\* among them the cells, which are of one thread or of two.
THEOREM RoundTypeCorrect == MSpec => []MTypeOK
<1>1. RoundInv => MTypeOK
  <2> SUFFICES ASSUME RoundInv PROVE MTypeOK
    OBVIOUS
  <2>1. target \in [Tid -> Nat]
    BY NodesFromZero DEF RoundInv, RoundType
  <2>2. plan \in Seq(Seq(Half)) /\ done \in Seq(Seq(Half))
    BY DEF RoundInv, RoundType, Cell
  <2> QED  BY <2>1, <2>2 DEF RoundInv, Tables, RoundType, MTypeOK, Phase
<1> QED  BY <1>1, RoundInvariant, PTL

\* A round of migrations, with its undo and its review, is a series of steps
\* of the tables, the maps and the kernel that ThreadPlacement allows.
THEOREM RoundsArePlacement == MSpec => Init /\ StepsOfPlacement
<1>1. MInit => Init
  BY DEF MInit
<1> QED  BY <1>1, RoundInvariant, StepIsPlacement, PTL DEF MSpec, StepsOfPlacement

\* In the middle of a round as well, whatever failed and whoever ended, the
\* placement maps hold only threads that have a record.
THEOREM RoundsListThreads == MSpec => []OnlyListedTids
<1>1. RoundInv => OnlyListedTids
  BY DEF RoundInv, Tables
<1> QED  BY <1>1, RoundInvariant, PTL

\* Rounds of a strategy that migrates to nodes keep the map of nodes and the
\* records in agreement, and the threads it counts confined.
THEOREM RoundsKeepNodeMap ==
  ASSUME MigrateToNodes
  PROVE  MSpec => [](NodeMapMatchesRecord /\ CountedThreadsAreConfined)
BY RoundsArePlacement, NodeMapAgrees, CountedAreConfined, PTL DEF Spec, StepsOfPlacement

\* Rounds of one that migrates to CPUs keep the map of CPUs and the records in
\* agreement, also in the middle of an undo.
THEOREM RoundsKeepCpuMap == ASSUME ~MigrateToNodes PROVE MSpec => []CpuMapMatchesRecord
BY RoundsArePlacement, CpuMapAgrees, PTL DEF Spec, StepsOfPlacement

\* A thread that is in a cell is in migrated_pids_, and no strategy takes one
\* from there.
Once == Within(plan, moved) /\ EachThreadOnce

LEMMA AppendOnce ==
  ASSUME NEW cells \in Seq(Cell), NEW cell \in Cell, NEW S, Within(cells, S), TidsOf(cell) \cap S = {},
         \A i, j \in 1 .. Len(cells) : i # j => TidsOf(cells[i]) \cap TidsOf(cells[j]) = {}
  PROVE  \A i, j \in 1 .. Len(Append(cells, cell)) :
           i # j => TidsOf(Append(cells, cell)[i]) \cap TidsOf(Append(cells, cell)[j]) = {}
<1> DEFINE more == Append(cells, cell)
           n == Len(cells)
<1>1. /\ Len(more) = n + 1 /\ n \in Nat
      /\ \A i \in 1 .. n : more[i] = cells[i]
      /\ more[n + 1] = cell
  OBVIOUS
<1>2. \A i \in 1 .. n + 1 : i \in 1 .. n \/ i = n + 1
  BY <1>1
<1> HIDE DEF more, n
<1>3. \A i \in 1 .. n : TidsOf(more[i]) \subseteq S
  BY <1>1 DEF Within, n
<1>4. \A i, j \in 1 .. n : i # j => TidsOf(more[i]) \cap TidsOf(more[j]) = {}
  BY <1>1 DEF n
<1>5. \A i, j \in 1 .. n + 1 : i # j => TidsOf(more[i]) \cap TidsOf(more[j]) = {}
  BY <1>1, <1>2, <1>3, <1>4
<1> QED  BY <1>1, <1>5 DEF more

LEMMA OnceStep == RoundInv /\ Once /\ [MNext]_mvars => Once'
<1> SUFFICES ASSUME RoundInv, Once, [MNext]_mvars PROVE Once'
  OBVIOUS
<1>1. CASE UNCHANGED <<plan, moved>>
  BY <1>1 DEF Once, Within, EachThreadOnce
<1>2. CASE plan' = <<>>
  BY <1>2 DEF Once, Within, EachThreadOnce
<1>3. CASE Plan /\ ~EndPlan
  <2>1. PICK t \in Children \ moved, cell \in Cell :
           /\ GoodCell(t, cell)
           /\ plan' = Append(plan, cell) /\ moved' = moved \cup TidsOf(cell)
    BY <1>3, AddedIsGood
  <2>2. plan \in Seq(Cell) /\ TidsOf(cell) \cap moved = {}
    BY <2>1 DEF RoundInv, RoundType, GoodCell
  <2>3. Within(plan, moved \cup TidsOf(cell))
    BY WiderWithin DEF Once
  <2>4. Within(plan', moved')
    BY <2>1, <2>2, <2>3, AppendWithin
  <2>5. EachThreadOnce'
    <3>1. \A i, j \in 1 .. Len(plan') : i # j => TidsOf(plan'[i]) \cap TidsOf(plan'[j]) = {}
      BY <2>1, <2>2, AppendOnce DEF Once, EachThreadOnce
    <3> QED  BY <3>1 DEF EachThreadOnce, TidsOf
  <2> QED  BY <2>4, <2>5 DEF Once, Within, TidsOf
<1>4. CASE EndPlan
  BY <1>1, <1>2, <1>4 DEF EndPlan
<1>5. CASE EndRound
  BY <1>2, <1>5 DEF EndRound
<1>6. KernelStep \/ MainLoop \/ UNCHANGED mvars => UNCHANGED <<plan, moved>>
  BY DEF KernelStep, MainLoop, mvars, round, choice
<1>7. BeginRound => UNCHANGED <<plan, moved>>
  BY DEF BeginRound, BeginNimar, BeginCimar, BeginLbma, BeginRandom, BeginAnnealing, BeginRm3d,
         BeginImar2, Begin, choice
<1>8. Search \/ EndSearch => UNCHANGED <<plan, moved>>
  BY DEF Search, Spin, Neighbour, EndSearch, mvars, round, choice
<1>9. PerformHalf \/ EndCell \/ UndoHalf \/ NextUndo => UNCHANGED <<plan, moved>>
  BY DEF PerformHalf, EndCell, UndoHalf, NextUndo, choice
<1> QED  BY <1>1, <1>3, <1>4, <1>5, <1>6, <1>7, <1>8, <1>9 DEF MNext, Perform

\* No thread is in two cells of a round, whatever the strategy.
THEOREM ThreadsMoveOnce == MSpec => []EachThreadOnce
<1>1. MInit => Once
  BY DEF MInit, InitRound, Once, Within, EachThreadOnce
<1>2. Once => EachThreadOnce
  BY DEF Once
<1> QED  BY <1>1, <1>2, RoundInvariant, OnceStep, PTL DEF MSpec
-----------------------------------------------------------------------------
(* The cells of a plan: who is in them, and from where.                    *)

\* What the maps and the records say of each other, by kind of strategy.
MapsAgree ==
  /\ MigrateToNodes => PlacementInv
  /\ ~MigrateToNodes => CpuMapMatchesRecord

LEMMA MapsAlways == MSpec => []MapsAgree
<1>1. MSpec => Spec
  BY RoundsArePlacement, PTL DEF Spec, StepsOfPlacement
<1>2. CASE MigrateToNodes
  <2>1. PlacementInv => MapsAgree
    BY <1>2 DEF MapsAgree
  <2> QED  BY <1>1, <1>2, <2>1, PlacementAlways, PTL
<1>3. CASE ~MigrateToNodes
  <2>1. CpuMapMatchesRecord => MapsAgree
    BY <1>3 DEF MapsAgree
  <2> QED  BY <1>1, <1>3, <2>1, CpuMapAgrees, PTL
<1> QED  BY <1>2, <1>3

Real(cell) ==
  \A k \in 1 .. Len(cell) : cell[k].tid \in Children /\ PinnedPlace(cell[k].tid) = cell[k].prev

Apart(cell) == \A k, l \in 1 .. Len(cell) : cell[k].tid = cell[l].tid => k = l

LEMMA OneIsReal ==
  ASSUME NEW h, h.tid \in Children, PinnedPlace(h.tid) = h.prev
  PROVE  Real(<<h>>) /\ Apart(<<h>>)
BY DEF Real, Apart

LEMMA TwoAreReal ==
  ASSUME NEW h, NEW k, h.tid \in Children, PinnedPlace(h.tid) = h.prev,
         k.tid \in Children, PinnedPlace(k.tid) = k.prev
  PROVE  Real(<<h, k>>) /\ (h.tid # k.tid => Apart(<<h, k>>))
<1> DEFINE c == <<h, k>>
<1>1. Len(c) = 2 /\ c[1] = h /\ c[2] = k /\ \A i \in 1 .. 2 : i = 1 \/ i = 2
  OBVIOUS
<1> QED  BY <1>1 DEF Real, Apart

\* Who is counted at a place is pinned there.
LEMMA CountedThere ==
  ASSUME Tables, MapsAgree
  PROVE  /\ \A p \in Place : \A s \in TidsAt(p) : s \in Children /\ PinnedPlace(s) = p
         /\ ~MigrateToNodes => \A c \in Cpu : cpuTids[c] = TidsAt(c)
BY ChildFacts
DEF MapsAgree, PlacementInv, NodeMapMatchesRecord, CpuMapMatchesRecord, TidsAt, PinnedPlace, Place

LEMMA SimpleIsReal ==
  ASSUME NEW t \in Children, NEW p
  PROVE  Real(Simple(t, p)) /\ Apart(Simple(t, p))
BY OneIsReal DEF Simple

LEMMA InterchangeIsReal ==
  ASSUME NEW t \in Children, NEW p, NEW s \in Children, PinnedPlace(s) = p
  PROVE  Real(Interchange(t, s, p)) /\ (t # s => Apart(Interchange(t, s, p)))
BY TwoAreReal DEF Interchange

LEMMA MovesAndSwapsAreReal ==
  ASSUME Tables, MapsAgree, NEW t \in Children, NEW free, NEW dsts \in SUBSET Place,
         PinnedPlace(t) \notin dsts, NEW cell \in MovesAndSwaps(t, free, dsts)
  PROVE  Real(cell) /\ Apart(cell)
<1>1. CASE \E p \in free \cap dsts : cell = Simple(t, p)
  BY <1>1, SimpleIsReal
<1>2. CASE \E p \in dsts : \E s \in SwapsAt(p) : cell = Interchange(t, s, p)
  <2>1. PICK p \in dsts : \E s \in SwapsAt(p) : cell = Interchange(t, s, p)
    BY <1>2
  <2>2. PICK s \in SwapsAt(p) : cell = Interchange(t, s, p)
    BY <2>1
  <2>3. s \in Children /\ PinnedPlace(s) = p /\ t # s
    BY CountedThere DEF SwapsAt, NotIdle
  <2> QED  BY <2>2, <2>3, InterchangeIsReal
<1> QED  BY <1>1, <1>2 DEF MovesAndSwaps

\* A schedule takes a thread from the node of its CPU, which is the one its
\* record has it on.
LEMMA ScheduleIsReal ==
  ASSUME Tables, RoundType, MapsAgree, strategy \in {"RM3D", "ANNEALING"},
         NEW t \in Children, NEW cell \in ScheduleCells(t)
  PROVE  Real(cell) /\ Apart(cell)
<1> DEFINE dst == target[t]
           src == SourceNode(t)
           h == [tid |-> t, dest |-> dst, prev |-> src]
           k(s) == [tid |-> s, dest |-> src, prev |-> dst]
<1>1. MigrateToNodes /\ Place = Node
  BY KindOfStrategy DEF RoundType, NodeStrategy
<1>2. t \in Tid /\ PinnedPlace(t) = src
  BY <1>1, ChildFacts DEF MapsAgree, PlacementInv, PinnedRecords, PinnedPlace, SourceNode
<1>3. dst \in Place /\ dst # src
  BY <1>1, <1>2 DEF RoundType, ScheduleCells
<1>4. h.tid = t /\ h.prev = src
  OBVIOUS
<1>5. cell = <<h>> \/ \E s \in SwapsAt(dst) : cell = <<h, k(s)>>
  BY DEF ScheduleCells
<1>6. CASE cell = <<h>>
  <2> HIDE DEF h, src
  <2> QED  BY <1>2, <1>4, <1>6, OneIsReal
<1>7. CASE \E s \in SwapsAt(dst) : cell = <<h, k(s)>>
  <2>1. PICK s \in SwapsAt(dst) : cell = <<h, k(s)>>
    BY <1>7
  <2>2. s \in Children /\ PinnedPlace(s) = dst
    BY <1>3, CountedThere DEF SwapsAt, NotIdle
  <2>3. k(s).tid = s /\ k(s).prev = dst /\ s # t
    BY <1>2, <1>3, <2>2
  <2> HIDE DEF h, k, src, dst
  <2> QED  BY <1>2, <1>4, <2>1, <2>2, <2>3, TwoAreReal
<1> QED  BY <1>5, <1>6, <1>7

LEMMA AddedIsReal ==
  ASSUME RoundInv, MapsAgree, Plan, ~EndPlan
  PROVE  \E cell \in Cell :
           /\ Real(cell) /\ (strategy # "RANDOM" => Apart(cell))
           /\ plan' = Append(plan, cell)
           /\ UNCHANGED <<vars, strategy, phase>>
<1>1. Tables /\ RoundType /\ strategy \in Strategy
  BY DEF RoundInv, RoundType
<1>2. PICK good \in Cell : plan' = Append(plan, good) /\ UNCHANGED <<vars, strategy, phase>>
  BY AddedIsGood
<1>3. \A other : plan' = Append(plan, other) => other = good
  <2>1. plan \in Seq(Cell)
    BY DEF RoundInv, RoundType
  <2>2. \A c : Append(plan, c)[Len(plan) + 1] = c
    BY <2>1
  <2> SUFFICES ASSUME NEW other, plan' = Append(plan, other) PROVE other = good
    OBVIOUS
  <2>3. Append(plan, other)[Len(plan) + 1] = Append(plan, good)[Len(plan) + 1]
    BY <1>2, Zenon
  <2>4. Append(plan, other)[Len(plan) + 1] = other /\ Append(plan, good)[Len(plan) + 1] = good
    BY <2>2, Zenon
  <2> QED  BY <2>3, <2>4, Zenon
<1>4. ASSUME NEW cells, NEW t, AddCell(t, cells),
             \A cell \in cells : Real(cell) /\ (strategy # "RANDOM" => Apart(cell))
      PROVE  Real(good) /\ (strategy # "RANDOM" => Apart(good))
  BY <1>3, <1>4 DEF AddCell
<1>5. Real(good) /\ (strategy # "RANDOM" => Apart(good))
  <2>1. CASE PlanNimar
    <3>1. Place = Node
      BY <1>1, <2>1, KindOfStrategy DEF PlanNimar, PlanFor, NodeStrategy
    <3>2. \A t \in Children \ moved : \A cell \in NimarCells(t) : Real(cell) /\ Apart(cell)
      BY <1>1, <3>1, MovesAndSwapsAreReal DEF NimarCells
    <3> QED  BY <1>4, <2>1, <3>2 DEF PlanNimar
  <2>2. CASE PlanCimar \/ PlanImar2 \/ PlanLbma
    <3>1. Place = Cpu
      BY <1>1, <2>2, KindOfStrategy DEF PlanCimar, PlanImar2, PlanLbma, PlanFor, CpuStrategy
    <3>2. \A t \in Children \ moved : \A cell \in MovesAndSwaps(t, FreeCpus, CpusElsewhere(t)) :
            Real(cell) /\ Apart(cell)
      <4> SUFFICES ASSUME NEW t \in Children \ moved,
                          NEW cell \in MovesAndSwaps(t, FreeCpus, CpusElsewhere(t))
                   PROVE  Real(cell) /\ Apart(cell)
        OBVIOUS
      <4>1. CpusElsewhere(t) \in SUBSET Place /\ PinnedPlace(t) \notin CpusElsewhere(t)
        BY <3>1 DEF CpusElsewhere
      <4> QED  BY <1>1, <4>1, MovesAndSwapsAreReal
    <3> QED
      BY <1>4, <2>2, <3>2 DEF PlanCimar, PlanImar2, PlanLbma, CimarCells, Imar2Cells, LbmaCells
  <2>3. CASE PlanRandom
    <3>1. Place = Cpu /\ ~MigrateToNodes /\ strategy = "RANDOM"
      BY <1>1, <2>3, KindOfStrategy DEF PlanRandom, PlanFor, CpuStrategy
    <3>2. \A t \in Children \ moved : \A cell \in RandomCells(t) : Real(cell)
      <4> SUFFICES ASSUME NEW t \in Children \ moved, NEW cell \in RandomCells(t)
                   PROVE  Real(cell)
        OBVIOUS
      <4>1. CASE \E c \in Cpu : cell = Simple(t, c)
        BY <4>1, SimpleIsReal
      <4>2. CASE \E c \in Cpu : \E s \in cpuTids[c] \ moved : cell = Interchange(t, s, c)
        BY <1>1, <3>1, <4>2, CountedThere, InterchangeIsReal
      <4> QED  BY <4>1, <4>2 DEF RandomCells
    <3> QED  BY <1>4, <2>3, <3>1, <3>2 DEF PlanRandom
  <2>4. CASE PlanSchedule
    <3>1. strategy \in {"RM3D", "ANNEALING"}
      BY <2>4 DEF PlanSchedule, PlanFor
    <3>2. \A t \in Children \ moved : \A cell \in ScheduleCells(t) : Real(cell) /\ Apart(cell)
      BY <1>1, <3>1, ScheduleIsReal
    <3> QED  BY <1>4, <2>4, <3>2 DEF PlanSchedule
  <2> QED  BY <2>1, <2>2, <2>3, <2>4 DEF Plan
<1> QED  BY <1>2, <1>5

RealInv ==
  /\ strategy # "RANDOM" => \A i \in 1 .. Len(plan) : Apart(plan[i])
  /\ phase = "plan" => \A i \in 1 .. Len(plan) : Real(plan[i])

\* The steps that leave the choice alone, and those that end or start one.
LEMMA OtherSteps ==
  ASSUME RoundInv, [MNext]_mvars, ~(Plan /\ ~EndPlan)
  PROVE  /\ strategy' = strategy
         /\ plan' = plan \/ plan' = <<>>
         /\ phase = "plan" /\ phase' = "plan" => UNCHANGED <<plan, tables>>
         /\ phase # "plan" /\ phase' = "plan" => plan' = <<>>
<1>1. CASE KernelStep
  BY <1>1 DEF KernelStep, Kernel, Spawn, Exit, round, choice
<1>2. CASE MainLoop
  BY <1>2 DEF MainLoop, choice
<1>3. CASE BeginImar2
  BY <1>3 DEF BeginImar2, choice, RoundInv, RoundRecords
<1>4. CASE BeginNimar \/ BeginCimar \/ BeginLbma \/ BeginRandom \/ BeginAnnealing \/ BeginRm3d
  BY <1>4 DEF BeginNimar, BeginCimar, BeginLbma, BeginRandom, BeginAnnealing, BeginRm3d, Begin,
              RoundInv, RoundRecords
<1>5. CASE Search
  BY <1>5 DEF Search, Spin, Neighbour, mvars, round, choice
<1>6. CASE EndSearch
  BY <1>6 DEF EndSearch, choice, RoundInv, RoundRecords
<1>7. CASE EndPlan
  BY <1>7 DEF EndPlan
<1>8. CASE PerformHalf \/ EndCell \/ UndoHalf \/ NextUndo
  BY <1>8 DEF PerformHalf, EndCell, UndoHalf, NextUndo, choice
<1>9. CASE EndRound
  BY <1>9 DEF EndRound
<1>10. CASE UNCHANGED mvars
  BY <1>10 DEF mvars, vars, round, choice
<1> QED
  BY <1>1, <1>2, <1>3, <1>4, <1>5, <1>6, <1>7, <1>8, <1>9, <1>10 DEF MNext, BeginRound, Perform

LEMMA RealStep == RoundInv /\ MapsAgree /\ RealInv /\ [MNext]_mvars => RealInv'
<1> SUFFICES ASSUME RoundInv, MapsAgree, RealInv, [MNext]_mvars PROVE RealInv'
  OBVIOUS
<1>1. \A cell : UNCHANGED tables => (Real(cell) <=> Real(cell)')
  BY DEF Real, Children, PinnedPlace, tables
<1>2. CASE Plan /\ ~EndPlan
  <2>1. PICK cell \in Cell :
           /\ Real(cell) /\ (strategy # "RANDOM" => Apart(cell))
           /\ plan' = Append(plan, cell)
           /\ UNCHANGED <<vars, strategy, phase>>
    BY <1>2, AddedIsReal
  <2>2. phase = "plan"
    BY <1>2, AddedIsGood
  <2>3. plan \in Seq(Cell)
    BY DEF RoundInv, RoundType
  <2>4. /\ Len(plan') = Len(plan) + 1 /\ Len(plan) \in Nat
        /\ \A i \in 1 .. Len(plan) : plan'[i] = plan[i]
        /\ plan'[Len(plan) + 1] = cell
    BY <2>1, <2>3
  <2>5. \A i \in 1 .. Len(plan') : i \in 1 .. Len(plan) \/ i = Len(plan) + 1
    BY <2>4
  <2>6. \A i \in 1 .. Len(plan') : Real(plan'[i]) /\ (strategy # "RANDOM" => Apart(plan'[i]))
    BY <2>1, <2>2, <2>4, <2>5 DEF RealInv
  <2>7. UNCHANGED tables
    BY <2>1 DEF vars
  <2> QED  BY <1>1, <2>1, <2>6, <2>7, SMTT(60) DEF RealInv, Real, Apart, Children, PinnedPlace, tables
<1>3. CASE ~(Plan /\ ~EndPlan)
  <2>1. /\ strategy' = strategy
        /\ plan' = plan \/ plan' = <<>>
        /\ phase = "plan" /\ phase' = "plan" => UNCHANGED <<plan, tables>>
        /\ phase # "plan" /\ phase' = "plan" => plan' = <<>>
    BY <1>3, OtherSteps
  <2>2. CASE plan' = <<>>
    BY <2>2 DEF RealInv
  <2>3. CASE plan' = plan
    BY <2>1, <2>2, <2>3 DEF RealInv, Real, Apart, Children, PinnedPlace, tables
  <2> QED  BY <2>1, <2>2, <2>3
<1> QED  BY <1>2, <1>3

LEMMA CountApart ==
  ASSUME NEW cell \in Cell, Apart(cell)
  PROVE  Cardinality(TidsOf(cell)) = Len(cell)
<1>1. cell \in Seq(Half) /\ Len(cell) \in Nat /\ Len(cell) <= 2
  BY DEF Cell
<1>2. CASE Len(cell) = 0
  BY <1>2, FS_EmptySet, SMTT(60) DEF TidsOf
<1>3. CASE Len(cell) = 1
  <2>1. TidsOf(cell) = {cell[1].tid}
    BY <1>3 DEF TidsOf
  <2> QED  BY <1>3, <2>1, FS_Singleton
<1>4. CASE Len(cell) = 2
  <2>1. 1 .. 2 = {1, 2}
    OBVIOUS
  <2>2. TidsOf(cell) = {cell[1].tid} \cup {cell[2].tid} /\ cell[2].tid \notin {cell[1].tid}
    BY <1>4, <2>1 DEF TidsOf, Apart
  <2> DEFINE A == {cell[1].tid}
             b == cell[2].tid
  <2>3. IsFiniteSet(A) /\ Cardinality(A) = 1
    BY FS_Singleton
  <2>4. TidsOf(cell) = A \cup {b} /\ b \notin A
    BY <2>2
  <2> HIDE DEF A, b
  <2>5. Cardinality(A \cup {b}) = Cardinality(A) + 1
    BY <2>3, <2>4, FS_AddElement
  <2> QED  BY <1>4, <2>3, <2>4, <2>5
<1>5. Len(cell) = 0 \/ Len(cell) = 1 \/ Len(cell) = 2
  <2>1. \A n \in Nat : n <= 2 => n = 0 \/ n = 1 \/ n = 2
    OBVIOUS
  <2> QED  BY <1>1, <2>1, Zenon
<1> QED  BY <1>2, <1>3, <1>4, <1>5

LEMMA RealAlways == MSpec => []RealInv
<1>1. MInit => RealInv
  BY DEF MInit, InitRound, RealInv
<1> QED  BY <1>1, RoundInvariant, MapsAlways, RealStep, PTL DEF MSpec

\* When a plan is made, every thread in it is one of the program's and is
\* where the plan takes it from, and an interchange is of two threads (that
\* of the random strategy excepted, which may draw one twice).
THEOREM SwapsAreOfRealThreads == MSpec => []SwapsAreReal
<1>1. RoundInv /\ RealInv => SwapsAreReal
  <2> SUFFICES ASSUME RoundInv, RealInv, phase = "plan", NEW i \in 1 .. Len(plan)
               PROVE  /\ strategy # "RANDOM" => Cardinality(TidsOf(plan[i])) = Len(plan[i])
                      /\ \A k \in 1 .. Len(plan[i]) :
                           /\ plan[i][k].tid \in Children
                           /\ PinnedPlace(plan[i][k].tid) = plan[i][k].prev
    BY Zenon DEF SwapsAreReal
  <2>1. plan[i] \in Cell
    BY DEF RoundInv, RoundType
  <2> QED  BY <2>1, CountApart DEF RealInv, Real
<1> QED  BY <1>1, RoundInvariant, RealAlways, PTL

-----------------------------------------------------------------------------
(* How a round of migrations to nodes ends.                                *)

Arrived(cell) == \A k \in 1 .. Len(cell) : PinnedPlace(cell[k].tid) = cell[k].dest

\* What has been performed: every cell of `done', and of the cell in hand, as
\* long as nothing has failed, the halves before the next.
PerformedSoFar ==
  /\ Len(done) = cur - 1 /\ cur <= Len(plan) + 1
  /\ \A i \in 1 .. Len(done) : done[i] = plan[i] /\ Arrived(done[i])
  /\ ok /\ cur <= Len(plan) =>
       \A k \in 1 .. Len(plan[cur]) :
         k < half => PinnedPlace(plan[cur][k].tid) = plan[cur][k].dest

\* What has been taken back: the cells before the one in hand, and the halves
\* of it before the next.
UndoneSoFar ==
  /\ Len(done) <= Len(plan)
  /\ \A i \in 1 .. Len(done) : done[i] = plan[i]
  /\ \A i \in 1 .. Len(done) : \A k \in 1 .. Len(done[i]) :
       i < cur \/ (i = cur /\ k < half) =>
         (done[i][k].tid \in alive => PinnedPlace(done[i][k].tid) = done[i][k].prev)

EndsInv ==
  /\ phase \in {"idle", "search", "spin", "plan"} => cur = 1 /\ half = 1 /\ ok
  /\ phase = "perform" => PerformedSoFar
  /\ phase = "undo" => UndoneSoFar

\* Two halves of a plan are of two threads.
LEMMA HalvesApart ==
  ASSUME RoundInv, Once, RealInv, MigrateToNodes,
         NEW i \in 1 .. Len(plan), NEW j \in 1 .. Len(plan),
         NEW k \in 1 .. Len(plan[i]), NEW l \in 1 .. Len(plan[j]),
         plan[i][k].tid = plan[j][l].tid
  PROVE  i = j /\ k = l
<1>1. plan[i][k].tid \in TidsOf(plan[i]) /\ plan[j][l].tid \in TidsOf(plan[j])
  BY DEF TidsOf
<1>2. i = j
  BY <1>1 DEF Once, EachThreadOnce
<1>3. strategy # "RANDOM"
  BY MigrationAssumption DEF RoundInv, RoundType, NodeStrategy
<1> QED  BY <1>2, <1>3 DEF RealInv, Apart

LEMMA PlannedHalf ==
  ASSUME RoundInv, NEW i \in 1 .. Len(plan), NEW k \in 1 .. Len(plan[i])
  PROVE  plan[i][k] \in Half /\ plan[i][k].tid \in known
<1>1. plan[i] \in Seq(Half) /\ TidsOf(plan[i]) \subseteq known
  BY DEF RoundInv, RoundType, RoundRecords, Within, Cell
<1>2. plan[i][k].tid \in TidsOf(plan[i])
  BY DEF TidsOf
<1> QED  BY <1>1, <1>2

\* pin_node() leaves the record of a live thread at the node asked for, and
\* a call that fails leaves the records alone.
LEMMA MovedToNode ==
  ASSUME RoundInv, MigrateToNodes, NEW t \in Tid, NEW place \in Place, MoveHalf(t, place)
  PROVE  /\ \A u \in Tid \ {t} : proc'[u].pinned_numa_node = proc[u].pinned_numa_node
         /\ ok' => ok /\ proc'[t].pinned_numa_node = place
         /\ t \in alive => proc'[t].pinned_numa_node = place
<1>1. proc \in [Tid -> Proc]
  BY DEF RoundInv, Tables, TypeOK
<1>2. CanPin(t, place) <=> t \in alive
  BY DEF CanPin, SkipsCall
<1>3. PinnedAt(t, place).pinned_numa_node = place
  BY <1>1 DEF PinnedAt, SkipsCall, Proc
<1>4. CASE MoveThread(t, place) /\ ok' = ok
  <2>1. proc' = [proc EXCEPT ![t] = PinnedAt(t, place)]
    BY <1>4 DEF MoveThread
  <2> QED  BY <1>1, <1>3, <1>4, <2>1 DEF PinnedPlace
<1>5. CASE ~CanPin(t, place) /\ ok' = FALSE /\ UNCHANGED proc
  BY <1>2, <1>5 DEF PinnedPlace
<1> QED  BY <1>4, <1>5 DEF MoveHalf

\* Only the kernel and the moves act while cells are performed or undone, and
\* only the end of the choice leads there.
LEMMA StepsOfMoves ==
  ASSUME [MNext]_mvars, phase \in {"perform", "undo"}
  PROVE  KernelStep \/ Perform \/ UNCHANGED mvars
<1>1. ~MainLoop /\ ~BeginRound
  BY DEF MainLoop, BeginRound, BeginNimar, BeginCimar, BeginLbma, BeginRandom, BeginAnnealing,
         BeginRm3d, BeginImar2, Begin
<1>2. ~Search /\ ~EndSearch
  BY DEF Search, Spin, Neighbour, EndSearch
<1>3. ~Plan
  BY DEF Plan, PlanNimar, PlanCimar, PlanImar2, PlanLbma, PlanRandom, PlanSchedule, PlanFor, EndPlan
<1> QED  BY <1>1, <1>2, <1>3 DEF MNext

LEMMA StepsToMoves ==
  ASSUME RoundInv, [MNext]_mvars, phase \notin {"perform", "undo"}, ~EndPlan
  PROVE  /\ phase' \notin {"perform", "undo"}
         /\ \/ phase' = "review"
            \/ phase' = "idle" /\ cur' = 1 /\ half' = 1 /\ ok'
            \/ phase # "review" /\ UNCHANGED <<cur, half, ok>>
<1> USE DEF RoundInv, RoundType, Phase
<1>1. CASE KernelStep \/ UNCHANGED mvars
  BY <1>1 DEF KernelStep, mvars, round, progress
<1>2. CASE MainLoop
  BY <1>2 DEF MainLoop, progress
<1>3. CASE BeginImar2
  BY <1>3 DEF BeginImar2, progress
<1>4. CASE BeginNimar \/ BeginCimar \/ BeginLbma \/ BeginRandom \/ BeginAnnealing \/ BeginRm3d
  BY <1>4 DEF BeginNimar, BeginCimar, BeginLbma, BeginRandom, BeginAnnealing, BeginRm3d, Begin,
              SearchIfNodes, progress
<1>5. CASE Search
  BY <1>5 DEF Search, Spin, Neighbour, mvars, round, progress
<1>6. CASE EndSearch
  BY <1>6 DEF EndSearch, progress
<1>7. CASE Plan /\ ~EndPlan
  BY <1>7, AddedIsGood DEF progress
<1>8. CASE Perform
  BY <1>8 DEF Perform, PerformHalf, EndCell, UndoHalf, NextUndo, EndRound
<1> QED  BY <1>1, <1>2, <1>3, <1>4, <1>5, <1>6, <1>7, <1>8 DEF MNext, BeginRound

\* A thread of a plan that has ended stays away: its record keeps the number.
LEMMA KernelKeepsEnds ==
  ASSUME RoundInv, EndsInv, KernelStep \/ UNCHANGED mvars PROVE EndsInv'
<1>1. UNCHANGED <<phase, plan, done, cur, half, ok, proc>>
  BY DEF KernelStep, Kernel, Spawn, Exit, mvars, vars, tables, round, choice, progress, history
<1>2. \A t \in known : t \in alive' => t \in alive
  BY DEF KernelStep, Kernel, Spawn, Exit, mvars, vars, kernel
<1>3. CASE phase = "undo"
  <2>1. \A i \in 1 .. Len(done) : \A k \in 1 .. Len(done[i]) : done[i][k].tid \in known
    BY <1>3, PlannedHalf DEF EndsInv, UndoneSoFar, RoundInv, RoundType
  <2> QED
    BY <1>1, <1>2, <1>3, <2>1 DEF EndsInv, UndoneSoFar, PinnedPlace
<1>4. CASE phase # "undo"
  BY <1>1, <1>4 DEF EndsInv, PerformedSoFar, Arrived, PinnedPlace
<1> QED  BY <1>3, <1>4

LEMMA PerformKeepsEnds ==
  ASSUME RoundInv, Once, RealInv, EndsInv, MigrateToNodes, PerformHalf PROVE EndsInv'
<1> DEFINE h == plan[cur][half]
<1>1. /\ phase = "perform" /\ cur \in 1 .. Len(plan) /\ half \in 1 .. Len(plan[cur])
      /\ MoveHalf(h.tid, h.dest) /\ half' = half + 1
      /\ UNCHANGED <<phase, plan, done, cur>>
  BY DEF PerformHalf, choice, history, RoundInv, RoundType
<1>2. h \in Half /\ h.tid \in Tid /\ h.dest \in Place
  BY <1>1, PlannedHalf DEF Half
<1>3. /\ \A u \in Tid \ {h.tid} : proc'[u].pinned_numa_node = proc[u].pinned_numa_node
      /\ ok' => ok /\ proc'[h.tid].pinned_numa_node = h.dest
  <2> HIDE DEF h
  <2> QED  BY <1>1, <1>2, MovedToNode
<1>4. \A i \in 1 .. Len(plan) : \A k \in 1 .. Len(plan[i]) :
        ~(i = cur /\ k = half) =>
           proc'[plan[i][k].tid].pinned_numa_node = proc[plan[i][k].tid].pinned_numa_node
  <2> SUFFICES ASSUME NEW i \in 1 .. Len(plan), NEW k \in 1 .. Len(plan[i]), ~(i = cur /\ k = half)
               PROVE  proc'[plan[i][k].tid].pinned_numa_node = proc[plan[i][k].tid].pinned_numa_node
    OBVIOUS
  <2>1. plan[i][k].tid # h.tid
    BY <1>1, HalvesApart
  <2>2. plan[i][k].tid \in Tid
    BY PlannedHalf DEF Half
  <2> QED  BY <1>3, <2>1, <2>2
<1>5. PerformedSoFar
  BY <1>1 DEF EndsInv
<1>6. cur \in Nat /\ half \in Nat /\ Len(done) \in Nat /\ Len(plan) \in Nat
  BY DEF RoundInv, RoundType
<1>7. \A i \in 1 .. Len(done) :
        /\ done[i] = plan[i]
        /\ \A k \in 1 .. Len(done[i]) : proc'[done[i][k].tid].pinned_numa_node = done[i][k].dest
  <2> SUFFICES ASSUME NEW i \in 1 .. Len(done)
               PROVE  /\ done[i] = plan[i]
                      /\ \A k \in 1 .. Len(done[i]) :
                           proc'[done[i][k].tid].pinned_numa_node = done[i][k].dest
    OBVIOUS
  <2>1. done[i] = plan[i] /\ Arrived(plan[i])
    BY <1>5 DEF PerformedSoFar
  <2>2. i \in 1 .. Len(plan) /\ i # cur
    BY <1>5, <1>6 DEF PerformedSoFar
  <2>3. \A k \in 1 .. Len(plan[i]) : proc[plan[i][k].tid].pinned_numa_node = plan[i][k].dest
    BY <2>1 DEF Arrived, PinnedPlace
  <2> QED  BY <1>4, <2>1, <2>2, <2>3
<1>8. ok' => \A k \in 1 .. Len(plan[cur]) :
                k < half + 1 => proc'[plan[cur][k].tid].pinned_numa_node = plan[cur][k].dest
  <2> SUFFICES ASSUME ok', NEW k \in 1 .. Len(plan[cur]), k < half + 1
               PROVE  proc'[plan[cur][k].tid].pinned_numa_node = plan[cur][k].dest
    OBVIOUS
  <2>1. CASE k = half
    BY <1>3, <2>1
  <2>2. CASE k < half
    BY <1>1, <1>3, <1>4, <1>5, <1>6, <2>2, SMTT(60) DEF PerformedSoFar, PinnedPlace
  <2> QED  BY <1>6, <2>1, <2>2
<1>9. PerformedSoFar'
  BY <1>1, <1>5, <1>7, <1>8 DEF PerformedSoFar, Arrived, PinnedPlace
<1> QED  BY <1>1, <1>9 DEF EndsInv

LEMMA UndoKeepsEnds ==
  ASSUME RoundInv, Once, RealInv, EndsInv, MigrateToNodes, UndoHalf PROVE EndsInv'
<1> DEFINE h == done[cur][half]
<1>1. /\ phase \in {"undo", "review"} /\ cur \in 1 .. Len(done) /\ half \in 1 .. Len(done[cur])
      /\ MoveHalf(h.tid, h.prev) /\ half' = half + 1
      /\ UNCHANGED <<alive, phase, plan, done, cur>>
  BY DEF UndoHalf, choice, history, RoundInv, RoundType
<1>2. CASE phase = "review"
  BY <1>1, <1>2 DEF EndsInv
<1>3. CASE phase = "undo"
  <2>1. /\ Len(done) <= Len(plan) /\ Len(done) \in Nat /\ Len(plan) \in Nat
        /\ \A i \in 1 .. Len(done) : done[i] = plan[i] /\ i \in 1 .. Len(plan)
    BY <1>3 DEF EndsInv, UndoneSoFar, RoundInv, RoundType
  <2>2. h \in Half /\ h.tid \in Tid /\ h.prev \in Place
    BY <1>1, <2>1, PlannedHalf DEF Half
  <2>3. /\ \A u \in Tid \ {h.tid} : proc'[u].pinned_numa_node = proc[u].pinned_numa_node
        /\ h.tid \in alive => proc'[h.tid].pinned_numa_node = h.prev
    <3> HIDE DEF h
    <3> QED  BY <1>1, <2>2, MovedToNode
  <2>4. \A i \in 1 .. Len(done) : \A k \in 1 .. Len(done[i]) :
          i < cur \/ (i = cur /\ k < half + 1) =>
            (done[i][k].tid \in alive => proc'[done[i][k].tid].pinned_numa_node = done[i][k].prev)
    <3> SUFFICES ASSUME NEW i \in 1 .. Len(done), NEW k \in 1 .. Len(done[i]),
                        i < cur \/ (i = cur /\ k < half + 1), done[i][k].tid \in alive
                 PROVE  proc'[done[i][k].tid].pinned_numa_node = done[i][k].prev
      OBVIOUS
    <3>1. CASE i = cur /\ k = half
      BY <2>3, <3>1
    <3>2. CASE ~(i = cur /\ k = half)
      <4>1. i < cur \/ (i = cur /\ k < half)
        BY <1>1, <3>2 DEF RoundInv, RoundType
      <4>2. PinnedPlace(done[i][k].tid) = done[i][k].prev
        BY <1>3, <4>1 DEF EndsInv, UndoneSoFar
      <4>3. done[i][k].tid # h.tid
        BY <1>1, <2>1, <3>2, HalvesApart, SMTT(60)
      <4>4. done[i][k].tid \in Tid
        BY <2>1, PlannedHalf DEF Half
      <4> QED  BY <2>3, <4>2, <4>3, <4>4 DEF PinnedPlace
    <3> QED  BY <3>1, <3>2
  <2>5. UndoneSoFar'
    BY <1>1, <2>1, <2>4 DEF UndoneSoFar, PinnedPlace
  <2> QED  BY <1>1, <1>3, <2>5 DEF EndsInv
<1> QED  BY <1>1, <1>2, <1>3

LEMMA CellsKeepEnds ==
  ASSUME RoundInv, EndsInv, EndCell \/ NextUndo \/ EndRound PROVE EndsInv'
<1>1. CASE EndCell
  <2>1. /\ phase = "perform" /\ cur \in 1 .. Len(plan) /\ half > Len(plan[cur])
        /\ half' = 1 /\ UNCHANGED <<alive, proc, plan>>
    BY <1>1 DEF EndCell, vars, kernel, tables, choice, RoundInv, RoundType
  <2>2. PerformedSoFar /\ Len(plan) \in Nat /\ half \in Nat /\ plan[cur] \in Cell /\ done \in Seq(Cell)
    BY <2>1 DEF EndsInv, RoundInv, RoundType
  <2>3. CASE ok /\ cur' = cur + 1 /\ done' = Append(done, plan[cur]) /\ phase' = phase
    <3>1. /\ Len(done') = cur /\ done'[cur] = plan[cur]
          /\ \A i \in 1 .. Len(done) : done'[i] = done[i]
          /\ \A i \in 1 .. cur : i = cur \/ i \in 1 .. Len(done)
      BY <2>1, <2>2, <2>3, SMTT(60) DEF PerformedSoFar
    <3>2. Arrived(plan[cur])
      <4>1. Len(plan[cur]) \in Nat
        BY <2>2 DEF Cell
      <4>2. ok /\ cur <= Len(plan) /\ \A k \in 1 .. Len(plan[cur]) : k < half
        BY <2>1, <2>2, <2>3, <4>1
      <4>3. \A k \in 1 .. Len(plan[cur]) : PinnedPlace(plan[cur][k].tid) = plan[cur][k].dest
        BY <2>2, <4>2 DEF PerformedSoFar
      <4> QED  BY <4>3 DEF Arrived
    <3>3. \A i \in 1 .. Len(done') : done'[i] = plan[i] /\ Arrived(done'[i])
      BY <2>2, <3>1, <3>2 DEF PerformedSoFar
    <3>4. \A k \in 1 .. Len(plan[cur']) : ~(k < 1)
      OBVIOUS
    <3>5. PerformedSoFar'
      BY <2>1, <2>2, <2>3, <3>1, <3>3, <3>4, SMTT(60) DEF PerformedSoFar, Arrived, PinnedPlace
    <3> QED  BY <2>1, <2>3, <3>5 DEF EndsInv
  <2>4. CASE phase' = "undo" /\ cur' = 1 /\ done' = done
    <3>1. \A i \in 1 .. Len(done) : ~(i < 1)
      OBVIOUS
    <3>2. \A i : \A k \in 1 .. Len(done[i]) : ~(k < 1)
      OBVIOUS
    <3>3. UndoneSoFar'
      BY <2>1, <2>2, <2>4, <3>1, <3>2, SMTT(60) DEF UndoneSoFar, PerformedSoFar
    <3> QED  BY <2>4, <3>3 DEF EndsInv
  <2> QED  BY <1>1, <2>3, <2>4 DEF EndCell
<1>2. CASE NextUndo
  <2>1. /\ phase \in {"undo", "review"} /\ cur \in 1 .. Len(done)
        /\ phase = "undo" => half > Len(done[cur])
        /\ cur' = cur + 1 /\ half' = 1 /\ UNCHANGED <<alive, proc, phase, plan, done>>
    BY <1>2 DEF NextUndo, vars, kernel, tables, choice, history, RoundInv, RoundType
  <2>2. CASE phase = "review"
    BY <2>1, <2>2 DEF EndsInv
  <2>3. CASE phase = "undo"
    <3>1. UndoneSoFar
      BY <2>3 DEF EndsInv
    <3>2. \A i \in 1 .. Len(done) : \A k \in 1 .. Len(done[i]) :
            i < cur + 1 \/ (i = cur + 1 /\ k < 1) => i < cur \/ (i = cur /\ k < half)
      <4> SUFFICES ASSUME NEW i \in 1 .. Len(done), NEW k \in 1 .. Len(done[i]),
                          i < cur + 1 \/ (i = cur + 1 /\ k < 1)
                   PROVE  i < cur \/ (i = cur /\ k < half)
        OBVIOUS
      <4>1. done[i] \in Cell /\ half \in Nat
        BY DEF RoundInv, RoundType
      <4>2. Len(done[i]) \in Nat
        BY <4>1 DEF Cell
      <4>3. i = cur => k < half
        BY <2>1, <2>3, <4>1, <4>2
      <4> QED  BY <2>1, <4>3
    <3>3. UndoneSoFar'
      BY <2>1, <3>1, <3>2 DEF UndoneSoFar, PinnedPlace
    <3> QED  BY <2>1, <2>3, <3>3 DEF EndsInv
  <2> QED  BY <2>1, <2>2, <2>3
<1>3. CASE EndRound
  BY <1>3 DEF EndRound, EndsInv
<1> QED  BY <1>1, <1>2, <1>3

LEMMA EndsStep ==
  ASSUME MigrateToNodes
  PROVE  RoundInv /\ Once /\ RealInv /\ EndsInv /\ [MNext]_mvars => EndsInv'
<1> SUFFICES ASSUME RoundInv, Once, RealInv, EndsInv, [MNext]_mvars PROVE EndsInv'
  OBVIOUS
<1>1. CASE phase \in {"perform", "undo"}
  BY <1>1, StepsOfMoves, KernelKeepsEnds, PerformKeepsEnds, UndoKeepsEnds, CellsKeepEnds DEF Perform
<1>2. CASE EndPlan
  <2>1. /\ cur' = 1 /\ half' = 1 /\ phase' = "perform" /\ done' = <<>>
        /\ plan' \in Seq(Cell)
    BY <1>2, EmptyWithin DEF EndPlan, EndsInv, progress, history, RoundInv, RoundType, RoundRecords
  <2>2. \A k \in 1 .. Len(plan'[1]) : ~(k < 1)
    OBVIOUS
  <2> QED  BY <2>1, <2>2 DEF EndsInv, PerformedSoFar
<1>3. CASE phase \notin {"perform", "undo"} /\ ~EndPlan
  <2>1. phase # "review" /\ UNCHANGED <<cur, half, ok>> => cur' = 1 /\ half' = 1 /\ ok'
    BY <1>3 DEF EndsInv, RoundInv, RoundType, Phase
  <2> QED  BY <1>3, <2>1, StepsToMoves DEF EndsInv
<1> QED  BY <1>1, <1>2, <1>3

\* A round of migrations to nodes ends with every thread of its cells that is
\* alive on the node its cell says, or, when one has failed, with those of the
\* cells that were performed on the node they came from, whoever ends, appears
\* or fails to move meanwhile.  (pin() of a CPU may leave a record as it is, see
\* SkipsCall, so that of a strategy of CPUs no more than the runs show is said.)
THEOREM NodeRoundsEndAsRecorded == ASSUME MigrateToNodes PROVE MSpec => RoundEndsAsRecorded
<1> DEFINE EndsWell ==
      phase' = "idle" /\ phase \in {"perform", "undo"} =>
        \A i \in 1 .. Len(done) : \A k \in 1 .. Len(done[i]) :
          done[i][k].tid \in alive => PinnedPlace(done[i][k].tid) = PlaceRecorded(done[i][k])
<1>1. MInit => EndsInv
  BY DEF MInit, InitRound, EndsInv
<1>2. MInit => Once
  BY DEF MInit, InitRound, Once, Within, EachThreadOnce
<1>3. RoundInv /\ EndsInv /\ [MNext]_mvars => [EndsWell]_mvars
  <2> SUFFICES ASSUME RoundInv, EndsInv, MNext, phase' = "idle", phase \in {"perform", "undo"},
                      NEW i \in 1 .. Len(done), NEW k \in 1 .. Len(done[i]), done[i][k].tid \in alive
               PROVE  PinnedPlace(done[i][k].tid) = PlaceRecorded(done[i][k])
    OBVIOUS
  <2>1. EndRound
    <3>1. KernelStep \/ UNCHANGED mvars \/ PerformHalf \/ UndoHalf \/ NextUndo => phase' = phase
      BY DEF KernelStep, mvars, round, PerformHalf, UndoHalf, NextUndo
    <3>2. EndCell => phase' \in {phase, "undo"}
      BY DEF EndCell
    <3> QED  BY <3>1, <3>2, StepsOfMoves DEF Perform
  <2>2. CASE phase = "perform"
    BY <2>2 DEF EndsInv, PerformedSoFar, Arrived, PlaceRecorded
  <2>3. CASE phase = "undo"
    <3>1. i < cur
      BY <2>1, <2>3 DEF EndRound, RoundInv, RoundType
    <3> QED  BY <2>3, <3>1 DEF EndsInv, UndoneSoFar, PlaceRecorded
  <2> QED  BY <2>2, <2>3
<1>4. RoundEndsAsRecorded <=> [][EndsWell]_mvars
  BY DEF RoundEndsAsRecorded
<1> HIDE DEF EndsWell
<1> QED
  BY <1>1, <1>2, <1>3, <1>4, RoundInvariant, RealAlways, OnceStep, EndsStep, PTL DEF MSpec
=============================================================================
