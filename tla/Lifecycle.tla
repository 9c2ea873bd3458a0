------------------------------ MODULE Lifecycle ------------------------------
(***************************************************************************)
(* How the tool starts its child program, and ends with it (main.cpp): the *)
(* handler clean_end(), installed for five signals with an empty mask, may *)
(* interrupt the main loop anywhere, and itself for another signal.        *)
(*                                                                         *)
(* `frames' holds the handlers that have been entered, the running one     *)
(* last; the main program is at `main' and goes on when there are none.    *)
(* SIGCHLD also comes from the ps commands (process.hpp) that the tool     *)
(* runs for each new task.  Of two SIGCHLD that are pending together the   *)
(* kernel keeps the first, with its si_pid.                                *)
(*                                                                         *)
(* A program that cannot be executed is one that ends at once: the copy of *)
(* the tool in it calls clean_end() on its own copies and exits.           *)
(***************************************************************************)
EXTENDS Naturals, Sequences

CONSTANTS
  UserSignal,      \* signals from outside: SIGINT, SIGTERM, SIGALRM, SIGABRT
  MaxUserSignals,  \* bound: how many of them come
  Buffer           \* the sampling buffers, one for each group and CPU

ASSUME LifecycleAssumption ==
  /\ "CHLD" \notin UserSignal
  /\ MaxUserSignals \in Nat
  /\ Buffer \subseteq Nat

VARIABLES
  child,         \* the program: "none", "running", or "ended" (and not waited for)
  helper,        \* the ps command the tool waits for
  pending,       \* for each signal, who sent the one that is pending
  sent,          \* number of signals from outside
  childProcess,  \* has child_process the pid of the program?
  listed,        \* is PIDs_to_filter not empty?
  fds,           \* all_fds: what is known of each sampling buffer
  main,          \* what the main program is at
  todo,          \* buffers that the main program has still to free or set up
  frames         \* the handlers that run, the last one on top

processes == <<child, helper>>
signals == <<pending, sent>>
vars == <<processes, signals, childProcess, listed, fds, main, todo, frames>>

Signal == UserSignal \cup {"CHLD"}
Sender == {"child", "helper", "user", "call"}   \* "call": clean_end() called directly

Frame == [sig : Signal \cup {"TERM"}, from : Sender, pc : {"entry", "end"},
          todo : SUBSET Buffer]

Least(S) == CHOOSE x \in S : \A y \in S : x <= y

Top == frames[Len(frames)]
Pop == SubSeq(frames, 1, Len(frames) - 1)
Push(sig, from) ==
  Append(frames, [sig |-> sig, from |-> from, pc |-> "entry", todo |-> {}])

\* The main program runs when no handler does.
MainAt(label) == main = label /\ frames = <<>>

-----------------------------------------------------------------------------
(* The kernel, the program and the ps commands.                            *)

\* SIGCHLD is not queued: one that is pending hides the next.
Raise(who) ==
  pending' = IF pending["CHLD"] = "none" THEN [pending EXCEPT !["CHLD"] = who] ELSE pending

ChildEnds ==
  /\ child = "running"
  /\ child' = "ended"
  /\ Raise("child")
  /\ UNCHANGED <<helper, sent, childProcess, listed, fds, main, todo, frames>>

HelperEnds ==
  /\ helper = "running"
  /\ helper' = "ended"
  /\ Raise("helper")
  /\ UNCHANGED <<child, sent, childProcess, listed, fds, main, todo, frames>>

Interrupt(s) ==
  /\ sent < MaxUserSignals
  /\ sent' = sent + 1
  /\ pending' = [pending EXCEPT ![s] = "user"]
  /\ UNCHANGED <<processes, childProcess, listed, fds, main, todo, frames>>

\* A signal interrupts whatever the tool does but its own handler.
Deliver(s) ==
  /\ main # "exited"
  /\ pending[s] # "none"
  /\ \A i \in 1 .. Len(frames) : frames[i].sig # s \/ frames[i].from = "call"
  /\ frames' = Push(s, pending[s])
  /\ pending' = [pending EXCEPT ![s] = "none"]
  /\ UNCHANGED <<processes, sent, childProcess, listed, fds, main, todo>>

-----------------------------------------------------------------------------
(* The main program.                                                       *)

\* run_program().  When fork() fails the main program calls clean_end().
Fork ==
  /\ MainAt("fork")
  /\ \/ child' = "running" /\ main' = "forked" /\ UNCHANGED frames
     \/ UNCHANGED child /\ main' = "loop" /\ frames' = Push("TERM", "call")
  /\ UNCHANGED <<helper, signals, childProcess, listed, fds, todo>>

\* fork() returns and its result is stored.
StoreChild ==
  /\ MainAt("forked")
  /\ childProcess' = TRUE
  /\ main' = "stored"
  /\ UNCHANGED <<processes, signals, listed, fds, todo, frames>>

InsertPID ==
  /\ MainAt("stored")
  /\ listed' = TRUE
  /\ main' = "loop"
  /\ UNCHANGED <<processes, signals, childProcess, fds, todo, frames>>

\* obtain_cmdline() of a task that a scan has found: popen("ps ...").
RunHelper ==
  /\ MainAt("loop")
  /\ helper = "none"
  /\ helper' = "running"
  /\ main' = "ps"
  /\ UNCHANGED <<child, signals, childProcess, listed, fds, todo, frames>>

\* pclose() waits for it, even when a signal has ended the reading.
CloseHelper ==
  /\ MainAt("ps")
  /\ helper = "ended"
  /\ helper' = "none"
  /\ main' = "loop"
  /\ UNCHANGED <<child, signals, childProcess, listed, fds, todo, frames>>

\* update_PIDs_to_filter() clears the list, and then fills it.
ClearList ==
  /\ MainAt("loop")
  /\ listed' = FALSE
  /\ main' = "cleared"
  /\ UNCHANGED <<processes, signals, childProcess, fds, todo, frames>>

FillList ==
  /\ MainAt("cleared")
  /\ listed' = TRUE
  /\ main' = "loop"
  /\ UNCHANGED <<processes, signals, childProcess, fds, todo, frames>>

\* rotate_enabled_counters() fails: clean_end() is called, and may return.
RotateFails ==
  /\ MainAt("loop")
  /\ frames' = Push("TERM", "call")
  /\ UNCHANGED <<processes, signals, childProcess, listed, fds, main, todo>>

\* samples::end() frees what it takes for open: what is not empty.
Freed(b) == [fds EXCEPT ![b] = IF @ = "empty" THEN "empty" ELSE "freed"]

\* emergency_reboot() after too many bad samples: end(), then init().
Reboot ==
  /\ MainAt("loop")
  /\ main' = "end"
  /\ todo' = Buffer
  /\ UNCHANGED <<processes, signals, childProcess, listed, fds, frames>>

RebootFrees ==
  /\ MainAt("end")
  /\ IF todo # {}
     THEN /\ fds' = Freed(Least(todo))
          /\ todo' = todo \ {Least(todo)}
          /\ UNCHANGED main
     ELSE /\ fds' = [b \in Buffer |-> "empty"]
          /\ todo' = Buffer
          /\ main' = "init"
  /\ UNCHANGED <<processes, signals, childProcess, listed, frames>>

\* init() may give up before it opens the buffers; whether it did is not looked at.
RebootOpens ==
  /\ MainAt("init")
  /\ todo \in {{}, Buffer} /\ (todo = Buffer => \A b \in Buffer : fds[b] = "empty")
  /\ main' = "loop" /\ todo' = {}
  /\ UNCHANGED <<processes, signals, childProcess, listed, fds, frames>>

\* setup_cpu_group() puts the events of the next buffer into all_fds before it
\* opens them; when there are none to count the tool ends.
ListEvents ==
  /\ MainAt("init") /\ todo # {} /\ fds[Least(todo)] = "empty"
  /\ \/ fds' = [fds EXCEPT ![Least(todo)] = "listed"] /\ UNCHANGED main
     \/ main' = "exited" /\ UNCHANGED fds
  /\ UNCHANGED <<processes, signals, childProcess, listed, todo, frames>>

\* setup_group() opens the events of the group, of which the first leads, or the
\* tool ends.
SetupGroup ==
  /\ MainAt("init") /\ todo # {} /\ fds[Least(todo)] = "listed"
  /\ \/ fds' = [fds EXCEPT ![Least(todo)] = "attached"] /\ UNCHANGED main
     \/ main' = "exited" /\ UNCHANGED fds
  /\ UNCHANGED <<processes, signals, childProcess, listed, todo, frames>>

\* The rest of setup_cpu_group() maps the buffer of the leader, sends the samples
\* of the other events to it and reads their identities, or the tool ends.
MapBuffer ==
  /\ MainAt("init") /\ todo # {} /\ fds[Least(todo)] = "attached"
  /\ \/ fds' = [fds EXCEPT ![Least(todo)] = "open"] /\ todo' = todo \ {Least(todo)} /\ UNCHANGED main
     \/ main' = "exited" /\ UNCHANGED <<fds, todo>>
  /\ UNCHANGED <<processes, signals, childProcess, listed, frames>>

\* The counters cannot be enabled: the tool ends.
EnablingFails ==
  /\ MainAt("init") /\ todo = {}
  /\ main' = "exited"
  /\ UNCHANGED <<processes, signals, childProcess, listed, fds, todo, frames>>

-----------------------------------------------------------------------------
(* clean_end().                                                            *)

\* A SIGCHLD that is not of child_process is of a ps command.
NeverIgnored(f) == FALSE                    \* mutant: si_pid is not compared
Ignored(f) ==
  f.sig = "CHLD" /\ ~(f.from = "child" /\ childProcess)

\* A signal that does not end the tool goes to the threads of the program, if
\* any is known; the end of the program then ends the tool.
ForwardsAll(f) == listed                    \* mutant: SIGCHLD is forwarded, too
NeverForwards(f) == FALSE                   \* mutant: the program is left alone
Forwarded(f) == f.sig # "CHLD" /\ listed

Enter ==
  /\ frames # <<>> /\ main # "exited"
  /\ Top.pc = "entry"
  /\ frames' = IF Ignored(Top) \/ Forwarded(Top) THEN Pop
               ELSE [frames EXCEPT ![Len(frames)].pc = "end", ![Len(frames)].todo = Buffer]
  /\ UNCHANGED <<processes, signals, childProcess, listed, fds, main, todo>>

EndFrees ==
  /\ frames # <<>> /\ main # "exited"
  /\ Top.pc = "end" /\ Top.todo # {}
  /\ fds' = Freed(Least(Top.todo))
  /\ frames' = [frames EXCEPT ![Len(frames)].todo = @ \ {Least(@)}]
  /\ UNCHANGED <<processes, signals, childProcess, listed, main, todo>>

\* The rest of clean_end(): migration::end(), system_info::end(), the tickets
\* file and exit().
EndExits ==
  /\ frames # <<>> /\ main # "exited"
  /\ Top.pc = "end" /\ Top.todo = {}
  /\ main' = "exited"
  /\ UNCHANGED <<processes, signals, childProcess, listed, fds, todo, frames>>

-----------------------------------------------------------------------------
\* After setup_signals().
Init ==
  /\ child = "none"
  /\ helper = "none"
  /\ pending = [s \in Signal |-> "none"]
  /\ sent = 0
  /\ childProcess = FALSE
  /\ listed = FALSE
  /\ fds = [b \in Buffer |-> "open"]
  /\ main = "fork"
  /\ todo = {}
  /\ frames = <<>>

Handler == Enter \/ EndFrees \/ EndExits

Main ==
  \/ Fork \/ StoreChild \/ InsertPID
  \/ RunHelper \/ CloseHelper
  \/ ClearList \/ FillList
  \/ RotateFails
  \/ Reboot \/ RebootFrees \/ ListEvents \/ SetupGroup \/ MapBuffer \/ EnablingFails \/ RebootOpens

Exited == main = "exited" /\ UNCHANGED vars

Next ==
  \/ ChildEnds
  \/ HelperEnds
  \/ \E s \in UserSignal : Interrupt(s)
  \/ \E s \in Signal : Deliver(s)
  \/ Main
  \/ Handler
  \/ Exited

Spec == Init /\ [][Next]_vars

\* The tool is scheduled, a pending signal interrupts it, and ps ends.
Fairness ==
  /\ WF_vars(Main \/ Handler)
  /\ WF_vars(HelperEnds)
  /\ \A s \in Signal : WF_vars(Deliver(s))

FairSpec == Spec /\ Fairness

-----------------------------------------------------------------------------
(* Properties.                                                             *)

TypeOK ==
  /\ child \in {"none", "running", "ended"}
  /\ helper \in {"none", "running", "ended"}
  /\ pending \in [Signal -> Sender \cup {"none"}]
  /\ sent \in 0 .. MaxUserSignals
  /\ childProcess \in BOOLEAN
  /\ listed \in BOOLEAN
  /\ fds \in [Buffer -> {"empty", "listed", "attached", "open", "freed"}]
  /\ main \in {"fork", "forked", "stored", "loop", "ps", "cleared", "end", "init", "exited"}
  /\ todo \subseteq Buffer
  /\ frames \in Seq(Frame)

\* No ps command that ends, alone or behind a signal of another kind, makes
\* the tool end: a SIGCHLD does so only when the program has ended.
EndsWithProgram ==
  \A i \in 1 .. Len(frames) :
    frames[i].sig = "CHLD" /\ frames[i].pc = "end" => child = "ended"

\* The tool does not end before the program, in whatever order signals come
\* and nest, except while its list of threads is empty (as it is between the
\* clearing and the filling of every update), or when the counters cannot be
\* opened again.
OutlivesProgram ==
  [][main # "exited" /\ main' = "exited" /\ child = "running" => ~listed \/ main = "init"]_vars

\* A SIGCHLD of the program that is pending, when child_process is known,
\* makes the tool end, whatever it interrupts and is interrupted by.
PendingEndIsSeen == (pending["CHLD"] = "child" /\ childProcess) ~> main = "exited"

\* The tool captures the signal of its child program to make a clean end
\* (main.cpp:87): it ends when its program has ended.
EndOfProgramIsSeen == child = "ended" ~> main = "exited"

=============================================================================
