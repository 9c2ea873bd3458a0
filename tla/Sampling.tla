------------------------------ MODULE Sampling ------------------------------
(***************************************************************************)
(* Sampling with the groups of counters, one for each event, of which the  *)
(* processor counts MaxHw at a time: rotate_enabled_counters() gives each  *)
(* its turn, read_samples() reads the buffers of all, and starts sampling  *)
(* anew when too many samples were not understood.  The buffer that is     *)
(* followed (SampleBuffer) is the one of the group Watched on some CPU.    *)
(***************************************************************************)
EXTENDS SampleBuffer

CONSTANTS
  NumGroups,     \* NUM_GROUPS
  MaxHw,         \* MAX_HW_COUNTERS
  Watched,       \* the group of the buffer
  MaxFailures    \* MAX_FAILURES_BEFORE_REBOOT

Group == 0 .. NumGroups - 1

ASSUME GroupAssumption ==
  /\ NumGroups \in Nat \ {0} /\ MaxHw \in Nat \ {0} /\ MaxFailures \in Nat
  /\ Watched \in Group

VARIABLES
  enabled,    \* the groups that count
  lastHwc,    \* LAST_HWC_ENABLED
  failures,   \* NUM_FAILURES
  turn        \* where the main loop is: "rotate", "read", or "check"

groups == <<enabled, lastHwc>>
svars == <<vars, groups, failures, turn>>

Multiplexing == NumGroups > MaxHw

ToEnable == IF Multiplexing THEN MaxHw ELSE NumGroups

\* enable_counters(): the groups from one on, around the end.
GroupsFrom(begin) == {(begin + i) % NumGroups : i \in 0 .. ToEnable - 1}

FirstToEnableSame == lastHwc                          \* mutant: the last one again
FirstToEnable == (lastHwc + 1) % NumGroups

Rotate ==
  /\ pc = "loop" /\ turn = "rotate"
  /\ turn' = "read"
  /\ IF Multiplexing
     THEN /\ enabled' = GroupsFrom(FirstToEnable)
          /\ lastHwc' = (FirstToEnable + ToEnable - 1) % NumGroups
     ELSE UNCHANGED groups
  /\ UNCHANGED <<vars, failures>>

\* It is not yet time to read.
NoRead == pc = "loop" /\ turn = "read" /\ turn' = "rotate" /\ UNCHANGED <<vars, groups, failures>>

Read ==
  /\ turn = "read"
  /\ \/ (StartRead \/ ReadStep) /\ pc' # "loop" /\ UNCHANGED turn
     \/ EndRead /\ turn' = "check"
  /\ failures' = IF SampleFails THEN failures + 1 ELSE failures
  /\ UNCHANGED groups

\* The other buffers may have had failures too.  init() enables the groups
\* that are next, and then sets where the rotation goes on.
Check ==
  /\ turn = "check" /\ turn' = "rotate"
  /\ \E others \in 0 .. 1 :
       IF failures + others > MaxFailures
       THEN /\ Reboot
            /\ enabled' = GroupsFrom(IF Multiplexing THEN FirstToEnable ELSE 0)
            /\ lastHwc' = MaxHw - 1
            /\ failures' = 0
       ELSE failures' = failures + others /\ UNCHANGED <<vars, groups>>

Filter == turn = "rotate" /\ UpdateFilter /\ UNCHANGED <<groups, failures, turn>>

\* Only a group that is enabled gives samples.
Kernel == Watched \in enabled /\ KernelStep /\ UNCHANGED <<groups, failures, turn>>

SInit ==
  /\ Init
  /\ turn = "rotate" /\ failures = 0
  /\ lastHwc = MaxHw - 1
  /\ enabled = GroupsFrom(IF Multiplexing THEN 1 ELSE 0)

SNext == Rotate \/ NoRead \/ Read \/ Check \/ Filter \/ Kernel

SSpec == SInit /\ [][SNext]_svars

\* The main loop goes round, and never blocks in a read.
SFairSpec == SSpec /\ WF_svars(Rotate \/ Read \/ Check)

-----------------------------------------------------------------------------
(* Properties.                                                             *)

\* Every read comes to its end (the kernel writes at most MaxHead bytes more).
ReadEnds == pc # "loop" ~> pc = "loop"

\* Every group counts again and again, unless sampling starts anew for ever,
\* which takes the rotation back to the same group each time.
GroupsTakeTurns == []<><<Check /\ Reboot>>_svars \/ \A g \in Group : []<>(g \in enabled)
=============================================================================
