-------------------------- MODULE MCThreadMigration --------------------------
(* Small machines and programs for ThreadMigration.                         *)
EXTENDS ThreadMigration

\* Two nodes of one CPU, and two nodes of which one has two.
TwoCpus == 0 .. 1
TwoCpusNode == [c \in TwoCpus |-> c]
ThreeCpus == 0 .. 2
ThreeCpusNode == [c \in ThreeCpus |-> IF c < 2 THEN 0 ELSE 1]

TwoNodes == [m \in 0 .. 1 |-> [n \in 0 .. 1 |-> IF m = n THEN 10 ELSE 21]]

\* After the first update, which finds every thread somewhere, busy or idle,
\* and the pass of pinning that follows, for strategies that migrate to nodes.
Found(place, idle) ==
  [t \in Tid |-> [processor |-> Least(CpusOf(place[t])), pinned |-> ~idle[t],
                  pinned_processor |-> Least(CpusOf(place[t])),
                  pinned_numa_node |-> place[t], idle |-> idle[t]]]

Last == CHOOSE t \in Tid : \A u \in Tid : u <= t

Settled ==
  /\ alive = Tid /\ known = Tid
  /\ kparent = [t \in Tid |-> IF t = Root THEN NoParent ELSE Root]
  /\ parent = kparent
  /\ proc \in {Found(place, idle) : place \in [Tid -> Node],
                                    idle \in {f \in [Tid -> BOOLEAN] : \A t \in Tid : f[t] => t = Last}}
  /\ affinity = [t \in Tid |-> IF proc[t].idle THEN Cpu ELSE CpusOf(proc[t].pinned_numa_node)]
  /\ cpuTids = [c \in Cpu |-> {}]
  /\ nodeTids = [n \in Node |-> {t \in Tid : ~proc[t].idle /\ proc[t].pinned_numa_node = n}]
  /\ pc = "loop" /\ left = {} /\ share = 0

SettledInit == Settled /\ InitRound

SettledSpec == SettledInit /\ [][MNext]_mvars

\* Bounds on the program: it starts no thread after the tool has started, and
\* a thread stays as busy as it was when it was found.
SteadyProgram ==
  /\ alive' \subseteq alive
  /\ \A t \in known \cap known' : proc'[t].idle = proc[t].idle

\* IMAR2 alone looks back on threads of earlier rounds: for the others the
\* program is kept steady.
SteadyButForImar2 == strategy = "IMAR2" \/ SteadyProgram
=============================================================================
