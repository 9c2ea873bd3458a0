------------------------------ MODULE PerfTable ------------------------------
(***************************************************************************)
(* The performances of the threads (tid_perf_table.hpp, rm3d.hpp): who     *)
(* gets a row of the table and loses it, and what a performance kept for a *)
(* node rests on.  Samples are read long after they were written, of       *)
(* threads that may have moved or ended since; the process tree, the rows  *)
(* and the list of threads to accept are brought up to date one after the  *)
(* other, in an order that a balance or an exception may break.            *)
(*                                                                         *)
(* Amounts are left out: of instructions with their time, and of requests, *)
(* only whether there are any.  So are the decay and all averages.         *)
(***************************************************************************)
EXTENDS Integers, FiniteSets

CONSTANTS
  Tid, Root,        \* the threads of the program, and its first
  MaxNode,          \* the nodes are 0 .. MaxNode
  Grades,           \* the performances that may come out
  Busy,             \* the threads that have samples
  MaxWaiting        \* bound: kinds of samples waiting to be read

Nodes == 0 .. MaxNode
Invalid == -1

ASSUME PerfAssumption == Root \in Tid /\ MaxNode \in Nat /\ Grades \subseteq Nat \ {0}

VARIABLES
  alive,            \* the threads that exist
  known,            \* the threads with a record in the process tree
  filter,           \* PIDs_to_filter
  buffer,           \* samples not read yet
  table,            \* table_
  phase,            \* where the main loop is
  since,            \* history: what each thread has had samples of, and on
                    \* which node, since the rows were cleared
  measured          \* history: where it has had enough between two clearings

loop == <<known, filter, table, phase>>
history == <<since, measured>>
tvars == <<alive, buffer, loop, history>>

Kinds == {"INS", "REQ", "MEM"}
Sample == [tid : Tid, node : Nodes, kind : Kinds]
Counted == {"INS", "REQ"}
Enough(samples) == {n \in Nodes : {<<"INS", n>>, <<"REQ", n>>} \subseteq samples}

Row == [running : BOOLEAN, times : [Nodes -> BOOLEAN], total_reqs : [Nodes -> BOOLEAN],
        perfs : [Nodes -> Grades \cup {Invalid}], perfs_update : [Nodes -> BOOLEAN]]

NoData == [n \in Nodes |-> FALSE]
NewRow == [running |-> FALSE, times |-> NoData, total_reqs |-> NoData,
           perfs |-> [n \in Nodes |-> Invalid], perfs_update |-> NoData]

\* row.add_data() of the samples `of' its thread.  A memory sample changes
\* nothing that is kept here, but marks the node it was taken on.
AddData(row, of) ==
  LET Some(kind, n) == <<kind, n>> \in of
  IN [row EXCEPT
        !.running = @ \/ of # {},
        !.times = [n \in Nodes |-> row.times[n] \/ Some("INS", n)],
        !.total_reqs = [n \in Nodes |-> row.total_reqs[n] \/ Some("REQ", n)],
        !.perfs_update = [n \in Nodes |-> row.perfs_update[n] \/ \E k \in Kinds : Some(k, n)]]

HasData(row, n) == row.times[n] /\ row.total_reqs[n]

\* row.calc_perf(): a marked node without enough data loses the performance it
\* had, and stays marked; one with enough data may have none to speak of.
CalcFromTimes(row, grade) ==                \* mutant: requests are not asked for
  [row EXCEPT !.perfs = [n \in Nodes |-> IF ~row.perfs_update[n] THEN row.perfs[n]
                                         ELSE IF row.times[n] THEN grade[n] ELSE Invalid]]
CalcPerf(row, grade) ==
  [row EXCEPT
     !.perfs = [n \in Nodes |-> IF ~row.perfs_update[n] THEN row.perfs[n]
                                ELSE IF HasData(row, n) THEN grade[n] ELSE Invalid],
     !.perfs_update = [n \in Nodes |-> row.perfs_update[n] /\ ~HasData(row, n)]]

\* row.clear(): performances and marks stay.
ClearedReqs(row) == [row EXCEPT !.running = FALSE, !.total_reqs = NoData]   \* mutant: not the times
Cleared(row) == [row EXCEPT !.running = FALSE, !.times = NoData, !.total_reqs = NoData]

\* table_[tid] makes the rows it does not find.
WithRows(rows, tids) ==
  [t \in DOMAIN rows \cup tids |-> IF t \in DOMAIN rows THEN rows[t] ELSE NewRow]

\* update(): rows of threads whose records say they run are marked, and the
\* performances of those and of threads with samples are calculated.
UpdateRows(rows, runs, grade) ==
  [t \in DOMAIN rows |->
     IF rows[t].running \/ t \in runs
     THEN CalcPerf([rows[t] EXCEPT !.running = TRUE], grade[t]) ELSE rows[t]]

Updated(rows) ==
  {UpdateRows(rows, runs, grade) :
     runs \in SUBSET DOMAIN rows, grade \in [Tid -> [Nodes -> Grades \cup {Invalid}]]}

-----------------------------------------------------------------------------
(* The program and its samples.                                            *)

\* An identifier comes back only when nothing of its last thread is left.
Start(t) ==
  /\ t \notin alive \cup known
  /\ \A s \in buffer : s.tid # t
  /\ alive' = alive \cup {t}
  /\ since' = [since EXCEPT ![t] = {}] /\ measured' = [measured EXCEPT ![t] = {}]
  /\ UNCHANGED <<buffer, loop>>

Exit(t) ==
  /\ t \in alive \ {Root}
  /\ alive' = alive \ {t}
  /\ UNCHANGED <<buffer, loop, history>>

Sampled(s) ==
  /\ s.tid \in alive \cap Busy /\ Cardinality(buffer) < MaxWaiting
  /\ buffer' = buffer \cup {s}
  /\ UNCHANGED <<alive, loop, history>>

-----------------------------------------------------------------------------
(* A turn of the main loop.                                                *)

\* system_info::update(): records of ended threads go, with those below them,
\* and new ones are made.
UpdateTree ==
  /\ phase = "turn"
  /\ \E gone \in SUBSET (known \ {Root}) :
       /\ known \ alive \subseteq gone
       /\ known' = (known \cup alive) \ gone
  /\ phase' = "remove"
  /\ UNCHANGED <<alive, filter, buffer, table, history>>

\* The scan throws when some new ones are made: the turn ends.
ScanAborted ==
  /\ phase = "turn"
  /\ \E found \in SUBSET (alive \ known) : known' = known \cup found
  /\ UNCHANGED <<alive, filter, buffer, table, phase, history>>

\* remove_invalid_pids(): the rows of those that were in the tree and are not.
RowsOfEnded == DOMAIN table \ alive         \* mutant: also before the tree knows
RowsToRemove == DOMAIN table \ known

RemoveRows ==
  /\ phase = "remove"
  /\ table' = [t \in DOMAIN table \ RowsToRemove |-> table[t]]
  /\ phase' \in IF RowsToRemove = {} THEN {"add"} ELSE {"balance", "add"}
  /\ UNCHANGED <<alive, known, filter, buffer, history>>

\* balance(): asks for rows of the threads it looks at, and updates when it has
\* moved any.  It also comes on its own, after the samples.
Balance ==
  /\ phase \in {"balance", "rebalance"}
  /\ \E seen \in SUBSET known :
       LET rows == WithRows(table, seen)
       IN table' \in {rows} \cup Updated(rows)
  /\ phase' = IF phase = "balance" THEN "add" ELSE "migrate"
  /\ UNCHANGED <<alive, known, filter, buffer, history>>

AddTids ==
  /\ phase = "add"
  /\ table' = WithRows(table, known)
  /\ phase' = "filter"
  /\ UNCHANGED <<alive, known, filter, buffer, history>>

FilterGrows == filter \cup known            \* mutant: nobody is purged
NewFilter == known

UpdateFilter ==
  /\ phase = "filter"
  /\ filter' = NewFilter
  /\ phase' = "read"
  /\ UNCHANGED <<alive, known, buffer, table, history>>

\* secs_update_proc have not gone by.
SkipUpdate ==
  /\ phase = "turn"
  /\ phase' = "read"
  /\ UNCHANGED <<alive, known, filter, buffer, table, history>>

\* read_samples() and process_samples(): the buffers are emptied, samples of
\* others are dropped, and some of the rest too (the first of a group, those
\* of pages that are nowhere).
Of(taken, t) == {<<s.kind, s.node>> : s \in {r \in taken : r.tid = t}}
Recent(taken, t) == since[t] \cup (Of(taken, t) \cap (Counted \X Nodes))

ReadSamples ==
  /\ phase = "read"
  /\ \E taken \in SUBSET {s \in buffer : s.tid \in filter} :
       LET rows == WithRows(table, {s.tid : s \in taken})
       IN /\ table' = [t \in DOMAIN rows |-> AddData(rows[t], Of(taken, t))]
          /\ since' = [t \in Tid |-> Recent(taken, t)]
          /\ measured' = [t \in Tid |-> measured[t] \cup Enough(Recent(taken, t))]
  /\ buffer' = {}
  /\ phase' \in {"rebalance", "migrate"}
  /\ UNCHANGED <<alive, known, filter>>

SkipRead ==
  /\ phase = "read"
  /\ phase' \in {"rebalance", "migrate"}
  /\ UNCHANGED <<alive, known, filter, buffer, table, history>>

\* perform_strategy(): an update, a strategy that asks for rows (those of ended
\* threads do not outlive the clearing), clear_it().
Migrate ==
  /\ phase = "migrate"
  /\ \E rows \in {table} \cup Updated(table), asked \in SUBSET known :
       table' = [t \in (DOMAIN rows \cup asked) \cap known |->
                   Cleared(WithRows(rows, asked)[t])]
  /\ since' = [t \in Tid |-> {}]
  /\ phase' = "turn"
  /\ UNCHANGED <<alive, known, filter, buffer, measured>>

SkipMigrate ==
  /\ phase = "migrate"
  /\ phase' = "turn"
  /\ UNCHANGED <<alive, known, filter, buffer, table, history>>

-----------------------------------------------------------------------------
TableInit ==
  /\ alive = {Root} /\ known = {Root} /\ filter = {Root}
  /\ buffer = {} /\ table = [t \in {} |-> NewRow] /\ phase = "turn"
  /\ since = [t \in Tid |-> {}] /\ measured = [t \in Tid |-> {}]

Program == (\E t \in Tid : Start(t) \/ Exit(t)) \/ (\E s \in Sample : Sampled(s))

Tool ==
  \/ UpdateTree \/ ScanAborted \/ RemoveRows \/ Balance \/ AddTids \/ UpdateFilter \/ SkipUpdate
  \/ ReadSamples \/ SkipRead \/ Migrate \/ SkipMigrate

TableNext == Program \/ Tool

TableSpec == TableInit /\ [][TableNext]_tvars

-----------------------------------------------------------------------------
(* Properties.                                                             *)

TableTypeOK ==
  /\ alive \subseteq Tid /\ known \subseteq Tid /\ filter \subseteq Tid
  /\ buffer \subseteq Sample
  /\ DOMAIN table \subseteq Tid /\ \A t \in DOMAIN table : table[t] \in Row
  /\ phase \in {"turn", "remove", "balance", "add", "filter", "read", "rebalance", "migrate"}
  /\ since \in [Tid -> SUBSET (Counted \X Nodes)]
  /\ measured \in [Tid -> SUBSET Nodes]

\* Whenever the table is updated, its rows are of threads with a record.
\* update() asks for the record of every row, and retrieve() would put an ended
\* thread back into the process tree; samples that waited in a buffer while
\* their thread ended must not make such a row.
RowsHaveRecords == phase # "remove" => DOMAIN table \subseteq known

\* A performance kept for a node rests on instructions and on requests that
\* this thread, and no earlier one of its number, had on that node between two
\* clearings of the table.
MeasuredThere ==
  phase # "remove" =>
    \A t \in DOMAIN table : \A n \in Nodes :
      table[t].perfs[n] # Invalid => n \in measured[t]
=============================================================================
