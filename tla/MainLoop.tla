------------------------------ MODULE MainLoop ------------------------------
(***************************************************************************)
(* What the options leave of the settings (main()), and when the main loop *)
(* does what it does: seven tasks, each with a period, are looked at in    *)
(* turns.  A turn decides by the time of its start, sleeps for what is     *)
(* left of secs_between_iter, and is given up, with its sleep, when a task *)
(* throws.                                                                 *)
(*                                                                         *)
(* Time is counted in ticks, from the start of the turn: age[t] is how     *)
(* long before it t was last begun (last_proc_update and its like), `spent'*)
(* how much of the turn is over.  The defaults keep their order, not their *)
(* ratio: 0.1, 0.5 and 1 second are 1, 2 and 3 ticks.                      *)
(***************************************************************************)
EXTENDS Integers

CONSTANTS
  Given,       \* the times that options ask for
  MaxOptions,  \* bound: how many options there are
  MaxDelay,    \* bound: ticks of work, and of waking up late, in all
  MaxThrows,   \* bound: how many tasks throw
  MaxAge       \* bound: ages above it are not told apart

ASSUME LoopAssumption ==
  Given \subseteq Nat /\ MaxOptions \in Nat /\ MaxDelay \in Nat /\ MaxThrows \in Nat /\ MaxAge \in Nat

Shorter(a, b) == IF a < b THEN a ELSE b
Longer(a, b) == IF a < b THEN b ELSE a

\* The places of the tasks in a turn, and of its sleep; "mem" updates the
\* memory regions, "memory" migrates pages.
Place == [proc |-> 1, mem |-> 2, samples |-> 3, chart |-> 4, balance |-> 5, threads |-> 6, memory |-> 7, sleep |-> 8]
Task == DOMAIN Place \ {"sleep"}

VARIABLES
  asked,       \* history: the periods as the options leave them
  period,      \* secs_update_proc, secs_between_samples, ...
  charts,      \* what the charts are made of: threads, memory
  migrates,    \* what is migrated, as max_thread_migrations and
               \* portion_memory_migrations say: threads, memory
  update_mem,
  fake_thp,    \* is fake_thp_size above zero?
  options,     \* number of options read
  iter,        \* secs_between_iter
  at,          \* the task the loop is at
  age, spent,
  speed,       \* current_time_value, counted from 1
  slow,        \* history: work of the last turn that was not given up,
  lost,        \* and how late the tool woke since, or what turns given up took
  delay, throws   \* what is left of MaxDelay and MaxThrows

settings == <<asked, period, charts, migrates, update_mem, fake_thp, options, iter>>
lvars == <<settings, at, age, spent, speed, slow, lost, delay, throws>>

DefaultPeriod ==
  [proc |-> 1, mem |-> 3, samples |-> 1, chart |-> 3, balance |-> 2, threads |-> 3, memory |-> 3]

LoopInit ==
  /\ asked = DefaultPeriod /\ period = DefaultPeriod
  /\ charts = {} /\ migrates = {"threads", "memory"}
  /\ update_mem = FALSE /\ fake_thp = FALSE
  /\ options = 0 /\ iter = 1
  /\ at = "options" /\ age = [t \in Task |-> 0] /\ spent = 0 /\ speed = 1
  /\ slow = 0 /\ lost = 0 /\ delay = MaxDelay /\ throws = MaxThrows

-----------------------------------------------------------------------------
(* Options.                                                                *)

Option ==
  /\ at = "options" /\ options < MaxOptions
  /\ options' = options + 1
  /\ UNCHANGED <<period, iter, age, spent, speed, slow, lost, delay, throws>>

\* The task whose period an option gives.
TaskOf == [b |-> "balance", r |-> "samples", t |-> "threads", T |-> "memory", u |-> "proc", U |-> "mem"]

PeriodOption ==
  /\ Option
  /\ \E opt \in DOMAIN TaskOf, secs \in Given :
       /\ asked' = [asked EXCEPT ![TaskOf[opt]] = secs]
       /\ update_mem' = (update_mem \/ opt = "U")
  /\ UNCHANGED <<charts, migrates, fake_thp, at>>

ChartOption ==
  /\ Option
  /\ \E what \in {"threads", "memory"} :
       /\ charts' = charts \cup {what}
       /\ update_mem' = (update_mem \/ what = "memory")
  /\ UNCHANGED <<asked, migrates, fake_thp, at>>

\* -m and -M; a portion that is not in [0, 1] changes nothing.
MigrationOption ==
  /\ Option
  /\ \E what \in {"threads", "memory"} : migrates' \in {migrates \ {what}, migrates \cup {what}}
  /\ UNCHANGED <<asked, charts, update_mem, fake_thp, at>>

\* --thp=0 has the regions updated as well.
HugePagesOption ==
  /\ Option
  /\ fake_thp' \in BOOLEAN
  /\ update_mem' = TRUE
  /\ UNCHANGED <<asked, charts, migrates, at>>

\* The options that change nothing here: files, strategies, frequencies...
OtherOption == Option /\ UNCHANGED <<asked, charts, migrates, update_mem, fake_thp, at>>

\* -h, an unknown option, -w, which getopt is told of and the switch is not,
\* or a value that is not a number.
BadOption ==
  /\ Option
  /\ at' = "exit"
  /\ UNCHANGED <<asked, charts, migrates, update_mem, fake_thp>>

\* Memory that is migrated is to be looked at as often.
AsAsked(p) == p                     \* mutant: it is not
ForMigration(p) ==
  IF "memory" \in migrates THEN [p EXCEPT !.mem = Shorter(p.mem, p.memory)] ELSE p

\* And what is exported, to be as recent as the chart tells.
ForCharts(p) ==
  [p EXCEPT !.proc = IF "threads" \in charts THEN Shorter(p.chart, p.proc) ELSE p.proc,
            !.mem = IF "memory" \in charts THEN Shorter(p.chart, p.mem) ELSE p.mem]

\* secs_between_iter is the shortest of the periods.
ButMemory(secs, p) == \A t \in Task \ {"mem"} : secs <= p[t]   \* mutant: of some of them
NoLonger(secs, p) == \A t \in Task : secs <= p[t]

StartLoop ==
  /\ at = "options"
  /\ at' = "wait"
  /\ LET p == ForMigration(asked)
     IN  /\ period' = ForCharts(p)
         /\ iter' \in {p[t] : t \in Task} /\ NoLonger(iter', p)
  /\ update_mem' = (update_mem \/ "memory" \in migrates)
  /\ options' = 0
  /\ UNCHANGED <<asked, charts, migrates, fake_thp, age, spent, speed, slow, lost, delay, throws>>

-----------------------------------------------------------------------------
(* The turns.                                                              *)

\* time_go_up() and time_go_down(), that IMAR2 may call.
sys_time_values == <<1, 2, 4>>
Speeds == {s \in {speed - 1, speed, speed + 1} : s \in DOMAIN sys_time_values}

\* The period of a task, and whether it has any.
Every(t, value) == IF t = "threads" THEN sys_time_values[value] * period[t] ELSE period[t]
Active(t) == (t = "mem" => update_mem) /\ (t = "balance" => "threads" \in migrates)

Due(t, ages, value) == Active(t) /\ ages[t] > Every(t, value)

\* The first task after some place that is due, or the sleep.
FirstDue(place, ages, value) ==
  {next \in DOMAIN Place :
     /\ Place[next] > place
     /\ next # "sleep" => Due(next, ages, value)
     /\ \A t \in Task : Place[t] \in place + 1 .. Place[next] - 1 => ~Due(t, ages, value)}

\* A turn of some length ends and another starts.
NextTurn(ages, length, value) ==
  LET older == [t \in Task |-> Shorter(MaxAge, ages[t] + length)]
  IN  age' = older /\ at' \in FirstDue(0, older, value) /\ spent' = 0

\* The turn goes on with the next task that is due, or this one throws.
Perform(t, value) ==
  LET ages == [age EXCEPT ![t] = 0]
  IN  /\ at = t
      /\ speed' = value
      /\ \E work \in 0 .. delay :
           /\ delay' = delay - work
           /\ \/ /\ at' \in FirstDue(Place[t], ages, value)
                 /\ age' = ages /\ spent' = spent + work
                 /\ UNCHANGED <<lost, throws>>
              \/ /\ throws > 0 /\ throws' = throws - 1
                 /\ NextTurn(ages, spent + work, value)
                 /\ lost' = lost + spent + work
      /\ UNCHANGED <<settings, slow>>

\* Migrations are counted from the start of the tool, all else from that of
\* its program; then the tool sleeps for secs_before_migr.
FirstTurn ==
  /\ at = "wait"
  /\ \E secs_before_migr \in Given, start \in 0 .. delay :
       /\ NextTurn([t \in Task |-> IF t \in {"threads", "memory"} THEN start ELSE 0], secs_before_migr, speed)
       /\ lost' = secs_before_migr + start
       /\ delay' = delay - start
  /\ UNCHANGED <<settings, speed, slow, throws>>

UpdateProcesses == Perform("proc", speed)
UpdateMemory == Perform("mem", speed)
ProcessSamples == Perform("samples", speed)
ExportCharts == Perform("chart", speed)
BalanceCPUs == Perform("balance", speed)

MigrateThreads ==
  \E value \in IF "threads" \in migrates THEN Speeds ELSE {speed} : Perform("threads", value)

MigratePages == Perform("memory", speed)

Sleep ==
  /\ at = "sleep"
  /\ \E late \in IF iter > spent THEN 0 .. delay ELSE {0} :
       /\ NextTurn(age, Longer(iter, spent) + late, speed)
       /\ slow' = spent /\ lost' = late
       /\ delay' = delay - late
  /\ UNCHANGED <<settings, speed, throws>>

LoopNext ==
  \/ PeriodOption \/ ChartOption \/ MigrationOption \/ HugePagesOption \/ OtherOption \/ BadOption
  \/ StartLoop \/ FirstTurn
  \/ UpdateProcesses \/ UpdateMemory \/ ProcessSamples \/ ExportCharts \/ BalanceCPUs
  \/ MigrateThreads \/ MigratePages
  \/ Sleep

LoopSpec == LoopInit /\ [][LoopNext]_lvars

-----------------------------------------------------------------------------
(* Properties.                                                             *)

LoopTypeOK ==
  /\ asked \in [Task -> Nat] /\ period \in [Task -> Nat] /\ iter \in Nat
  /\ charts \subseteq {"threads", "memory"} /\ migrates \subseteq {"threads", "memory"}
  /\ update_mem \in BOOLEAN /\ fake_thp \in BOOLEAN
  /\ options \in 0 .. MaxOptions
  /\ at \in Task \cup {"options", "wait", "sleep", "exit"}
  /\ age \in [Task -> Nat] /\ spent \in Nat
  /\ speed \in DOMAIN sys_time_values
  /\ slow \in Nat /\ lost \in Nat
  /\ delay \in 0 .. MaxDelay /\ throws \in 0 .. MaxThrows

\* What somebody makes use of.
Needed ==
  {"proc", "samples"}
  \cup (IF charts # {} THEN {"chart"} ELSE {})
  \cup (IF "threads" \in migrates THEN {"balance", "threads"} ELSE {})
  \cup (IF "memory" \in migrates THEN {"memory"} ELSE {})
  \cup (IF "memory" \in migrates \cup charts \/ fake_thp THEN {"mem"} ELSE {})

\* Whose periods it is to keep to: its own, and of those who make use of it.
Uses(u, t) ==
  \/ u = t
  \/ u = "chart" /\ t = "proc" /\ "threads" \in charts
  \/ u = "chart" /\ t = "mem" /\ "memory" \in charts
  \/ u = "memory" /\ t = "mem" /\ "memory" \in migrates

Wanted(u) == IF u = "threads" THEN sys_time_values[speed] * asked[u] ELSE asked[u]

\* Whatever the options, a task that is needed is late by no more than its own
\* period, or the tool's own work where that takes longer: a turn never sleeps
\* while something gets due, what is migrated is looked at as often, and only
\* the time of turns that were given up comes on top.
TasksOnTime ==
  at \notin {"options", "wait", "exit"} =>
    \A t \in Needed, u \in Task :
      Uses(u, t) => age[t] <= Wanted(u) + lost + Longer(Wanted(u), slow)
=============================================================================
