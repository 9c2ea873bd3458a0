-------------------------- MODULE Lifecycle_proofs --------------------------
(***************************************************************************)
(* Proofs about the life cycle, for any signals from outside, any number   *)
(* of them and any set of buffers; about the main loop, for any number of  *)
(* options, any periods, and any delays and exceptions; and about the      *)
(* table of performances that the loop fills, for any threads, nodes and   *)
(* samples.  The three modules share no variable: what is proved of one    *)
(* says nothing of the others.                                             *)
(*                                                                         *)
(* The invariant of the life cycle says of each handler that runs what was *)
(* true when it was entered and still is: handlers nest, but while one is  *)
(* there the main program does not go on, so nothing changes `listed'      *)
(* under it, and a program that has ended does not start again.            *)
(*                                                                         *)
(* In a turn of the loop no task behind the present one is due, and none   *)
(* has waited for longer than its period and a turn (TurnOK).              *)
(*                                                                         *)
(* RowsHaveRecords rests on the list of threads to accept: whenever        *)
(* samples are read, all on the list have a record (FilterIsKnown).        *)
(* MeasuredThere rests on what the rows say they have: data that came      *)
(* since the last clearing (DataIsRecent).                                 *)
(***************************************************************************)
EXTENDS Lifecycle, MainLoop, PerfTable, SequenceTheorems, TLAPS

\* Of a handler f, when the program is c and the list has threads if l.
FrameOK(f, c, l) ==
  /\ f.from = "child" => c = "ended"
  /\ f.sig = "CHLD" /\ f.pc = "end" => f.from = "child"
  /\ f.sig # "CHLD" /\ f.pc = "end" => ~l

FramesOK == \A i \in 1 .. Len(frames) : FrameOK(frames[i], child, listed)

EndInv ==
  /\ main = "fork" => child = "none"
  /\ \A s \in Signal : pending[s] = "child" => child = "ended"
  /\ FramesOK

-----------------------------------------------------------------------------
(* The stack of handlers.                                                  *)

\* A new handler on top of those there are.
LEMMA PushFrame ==
  ASSUME frames \in Seq(Frame), NEW sig \in Signal \cup {"TERM"}, NEW from \in Sender,
         frames' = Push(sig, from)
  PROVE  /\ frames' \in Seq(Frame)
         /\ Len(frames') = Len(frames) + 1
         /\ \A i \in 1 .. Len(frames) : frames'[i] = frames[i]
         /\ frames'[Len(frames) + 1] = [sig |-> sig, from |-> from, pc |-> "entry", todo |-> {}]
<1> DEFINE f == [sig |-> sig, from |-> from, pc |-> "entry", todo |-> {}]
<1>1. f \in Frame
  BY DEF Frame
<1>2. frames' = Append(frames, f)
  BY DEF Push
<1> HIDE DEF f
<1>3. /\ frames' \in Seq(Frame)
      /\ Len(frames') = Len(frames) + 1
      /\ \A i \in 1 .. Len(frames) : frames'[i] = frames[i]
      /\ frames'[Len(frames) + 1] = f
  BY <1>1, <1>2
<1> QED  BY <1>3 DEF f

\* The top of a stack that is not empty.
LEMMA TopFrame ==
  ASSUME frames \in Seq(Frame), frames # <<>>
  PROVE  Len(frames) \in 1 .. Len(frames) /\ Top \in Frame
<1>1. Len(frames) \in Nat /\ Len(frames) > 0
  BY EmptySeq
<1> QED  BY <1>1, ElementOfSeq DEF Top

\* The stack without its top.
LEMMA PopFrame ==
  ASSUME frames \in Seq(Frame), frames # <<>>, frames' = Pop
  PROVE  /\ frames' \in Seq(Frame)
         /\ Len(frames') = Len(frames) - 1
         /\ \A i \in 1 .. Len(frames') : frames'[i] = frames[i]
<1>1. Len(frames) \in Nat /\ Len(frames) > 0
  BY TopFrame
<1>2. frames' = SubSeq(frames, 1, Len(frames) - 1)
  BY DEF Pop
<1>3. \A i \in 1 .. Len(frames) - 1 : frames[i] \in Frame
  BY <1>1, ElementOfSeq
<1> DEFINE n == Len(frames) - 1
<1>4. n \in Nat /\ n = Len(frames) - 1 /\ n - 1 + 1 = n
  BY <1>1
<1>5. \A i \in 1 .. n : frames[1 + i - 1] = frames[i]
  BY <1>4
<1> HIDE DEF n
<1>6. /\ frames' \in Seq(Frame)
      /\ Len(frames') = IF 1 <= n THEN n - 1 + 1 ELSE 0
      /\ \A i \in 1 .. n - 1 + 1 : frames'[i] = frames[1 + i - 1]
  BY <1>2, <1>3, <1>4, SubSeqProperties
<1>7. Len(frames') = n
  BY <1>4, <1>6, SMTT(60)
<1> QED  BY <1>4, <1>5, <1>6, <1>7

\* The stack with another top.
LEMMA ChangeTop ==
  ASSUME frames \in Seq(Frame), frames # <<>>, NEW f \in Frame,
         frames' = [frames EXCEPT ![Len(frames)] = f]
  PROVE  /\ frames' \in Seq(Frame)
         /\ Len(frames') = Len(frames)
         /\ frames'[Len(frames)] = f
         /\ \A i \in 1 .. Len(frames) : i # Len(frames) => frames'[i] = frames[i]
<1>1. Len(frames) \in 1 .. Len(frames)
  BY TopFrame
<1>2. frames' \in Seq(Frame) /\ Len(frames') = Len(frames)
  BY <1>1, ExceptSeq
<1>3. DOMAIN frames = 1 .. Len(frames)
  OBVIOUS
<1> QED  BY <1>1, <1>2, <1>3, ZenonT(60)

\* What Enter and EndFrees make of the top.
LEMMA EnterTop ==
  ASSUME frames \in Seq(Frame), frames # <<>>,
         frames' = [frames EXCEPT ![Len(frames)].pc = "end", ![Len(frames)].todo = Buffer]
  PROVE  /\ frames' \in Seq(Frame)
         /\ Len(frames') = Len(frames)
         /\ frames'[Len(frames)] = [Top EXCEPT !.pc = "end", !.todo = Buffer]
         /\ \A i \in 1 .. Len(frames) : i # Len(frames) => frames'[i] = frames[i]
<1> DEFINE f == [Top EXCEPT !.pc = "end", !.todo = Buffer]
<1>1. f \in Frame
  BY TopFrame DEF Frame
<1>2. DOMAIN frames = 1 .. Len(frames) /\ Len(frames) \in 1 .. Len(frames)
  BY TopFrame
<1>3. frames' = [frames EXCEPT ![Len(frames)] = f]
  BY <1>2 DEF Top
<1> HIDE DEF f
<1>4. /\ frames' \in Seq(Frame)
      /\ Len(frames') = Len(frames)
      /\ frames'[Len(frames)] = f
      /\ \A i \in 1 .. Len(frames) : i # Len(frames) => frames'[i] = frames[i]
  BY <1>1, <1>3, ChangeTop
<1> QED  BY <1>4 DEF f

LEMMA FreeTop ==
  ASSUME frames \in Seq(Frame), frames # <<>>,
         frames' = [frames EXCEPT ![Len(frames)].todo = @ \ {Least(@)}]
  PROVE  /\ frames' \in Seq(Frame)
         /\ Len(frames') = Len(frames)
         /\ frames'[Len(frames)] = [Top EXCEPT !.todo = @ \ {Least(@)}]
         /\ \A i \in 1 .. Len(frames) : i # Len(frames) => frames'[i] = frames[i]
<1> DEFINE f == [Top EXCEPT !.todo = @ \ {Least(@)}]
<1>1. f \in Frame
  <2>1. Top.todo \ {Least(Top.todo)} \subseteq Buffer
    BY TopFrame DEF Frame
  <2> QED  BY <2>1, TopFrame DEF Frame
<1>2. DOMAIN frames = 1 .. Len(frames) /\ Len(frames) \in 1 .. Len(frames)
  BY TopFrame
<1>3. frames' = [frames EXCEPT ![Len(frames)] = f]
  BY <1>2 DEF Top
<1> HIDE DEF f
<1>4. /\ frames' \in Seq(Frame)
      /\ Len(frames') = Len(frames)
      /\ frames'[Len(frames)] = f
      /\ \A i \in 1 .. Len(frames) : i # Len(frames) => frames'[i] = frames[i]
  BY <1>1, <1>3, ChangeTop
<1> QED  BY <1>4 DEF f

-----------------------------------------------------------------------------
(* Types.                                                                  *)

LEMMA TypeInit == Init => TypeOK
<1> SUFFICES ASSUME Init PROVE TypeOK
  OBVIOUS
<1>1. sent \in 0 .. MaxUserSignals
  BY LifecycleAssumption DEF Init
<1>2. frames \in Seq(Frame)
  BY EmptySeq DEF Init
<1> QED  BY <1>1, <1>2 DEF Init, TypeOK

\* The steps of the kernel and the other processes, and the delivery of signals.
LEMMA TypeSignals ==
  ASSUME TypeOK,
         \/ ChildEnds \/ HelperEnds
         \/ \E s \in UserSignal : Interrupt(s)
         \/ \E s \in Signal : Deliver(s)
  PROVE  TypeOK'
<1>1. CASE ChildEnds
  BY <1>1 DEF ChildEnds, Raise, TypeOK, Signal, Sender
<1>2. CASE HelperEnds
  BY <1>2 DEF HelperEnds, Raise, TypeOK, Signal, Sender
<1>3. ASSUME NEW s \in UserSignal, Interrupt(s) PROVE TypeOK'
  <2>1. sent' \in 0 .. MaxUserSignals
    BY <1>3, LifecycleAssumption DEF Interrupt, TypeOK
  <2>2. pending' \in [Signal -> Sender \cup {"none"}]
    BY <1>3 DEF Interrupt, TypeOK, Sender
  <2> QED  BY <1>3, <2>1, <2>2 DEF Interrupt, TypeOK, processes
<1>4. ASSUME NEW s \in Signal, Deliver(s) PROVE TypeOK'
  <2>1. frames' \in Seq(Frame)
    <3>1. pending[s] \in Sender
      BY <1>4 DEF Deliver, TypeOK
    <3> QED  BY <1>4, <3>1, PushFrame DEF Deliver, TypeOK
  <2>2. pending' \in [Signal -> Sender \cup {"none"}]
    BY <1>4 DEF Deliver, TypeOK
  <2> QED  BY <1>4, <2>1, <2>2 DEF Deliver, TypeOK, processes
<1> QED  BY <1>1, <1>2, <1>3, <1>4

LEMMA TypeMain == ASSUME TypeOK, Main PROVE TypeOK'
<1> USE DEF TypeOK, processes, signals
<1>1. CASE Fork
  <2>1. CASE child' = "running" /\ main' = "forked" /\ UNCHANGED frames
    BY <1>1, <2>1 DEF Fork
  <2>2. CASE UNCHANGED child /\ main' = "loop" /\ frames' = Push("TERM", "call")
    BY <1>1, <2>2, PushFrame DEF Fork, Sender
  <2> QED  BY <1>1, <2>1, <2>2 DEF Fork
<1>2. CASE RotateFails
  BY <1>2, PushFrame, ZenonT(60) DEF RotateFails, Sender
<1>3. CASE StoreChild \/ InsertPID \/ RunHelper \/ CloseHelper \/ ClearList \/ FillList
  BY <1>3 DEF StoreChild, InsertPID, RunHelper, CloseHelper, ClearList, FillList
<1>4. CASE Reboot \/ RebootOpens \/ EnablingFails
  BY <1>4 DEF Reboot, RebootOpens, EnablingFails
<1>5. CASE RebootFrees
  BY <1>5 DEF RebootFrees, Freed
<1>6. CASE ListEvents \/ SetupGroup \/ MapBuffer
  BY <1>6 DEF ListEvents, SetupGroup, MapBuffer
<1> QED  BY <1>1, <1>2, <1>3, <1>4, <1>5, <1>6 DEF Main

LEMMA TypeHandler == ASSUME TypeOK, Handler PROVE TypeOK'
<1> USE DEF TypeOK, processes, signals
<1>1. CASE Enter
  <2>1. frames' \in Seq(Frame)
    <3>1. CASE Ignored(Top) \/ Forwarded(Top)
      BY <1>1, <3>1, PopFrame DEF Enter
    <3>2. CASE ~(Ignored(Top) \/ Forwarded(Top))
      BY <1>1, <3>2, EnterTop DEF Enter
    <3> QED  BY <3>1, <3>2
  <2> QED  BY <1>1, <2>1 DEF Enter
<1>2. CASE EndFrees
  <2>1. frames' \in Seq(Frame)
    BY <1>2, FreeTop DEF EndFrees
  <2> QED  BY <1>2, <2>1 DEF EndFrees, Freed
<1>3. CASE EndExits
  BY <1>3 DEF EndExits
<1> QED  BY <1>1, <1>2, <1>3 DEF Handler

LEMMA TypeStep == TypeOK /\ [Next]_vars => TypeOK'
<1> SUFFICES ASSUME TypeOK, [Next]_vars PROVE TypeOK'
  OBVIOUS
<1>1. CASE UNCHANGED vars
  BY <1>1 DEF vars, processes, signals, TypeOK
<1>2. CASE Exited
  BY <1>2 DEF Exited, vars, processes, signals, TypeOK
<1> QED  BY <1>1, <1>2, TypeSignals, TypeMain, TypeHandler DEF Next

\* The types of the state hold in every execution: in particular the stack of
\* handlers is one of handlers, whatever interrupts them (main.cpp).
THEOREM TypeCorrect == Spec => []TypeOK
<1> QED  BY TypeInit, TypeStep, PTL DEF Spec

-----------------------------------------------------------------------------
(* What is true of the handlers that run.                                  *)

LEMMA EndInit == Init => EndInv
BY DEF Init, EndInv, FramesOK, Signal

\* What is true of a handler stays so while nothing of what it was entered with
\* changes.
LEMMA FramesStay ==
  ASSUME FramesOK, UNCHANGED <<listed, frames>>, child = "ended" => child' = "ended"
  PROVE  FramesOK'
BY DEF FramesOK, FrameOK

\* Without handlers there is nothing to show.
LEMMA NoFrames ==
  ASSUME frames = <<>>, UNCHANGED frames
  PROVE  FramesOK'
BY DEF FramesOK

\* A new handler, at its entry.
LEMMA FramesPush ==
  ASSUME frames \in Seq(Frame), FramesOK,
         NEW sig \in Signal \cup {"TERM"}, NEW from \in Sender,
         frames' = Push(sig, from), UNCHANGED <<child, listed>>, from = "child" => child = "ended"
  PROVE  FramesOK'
<1>1. /\ Len(frames') = Len(frames) + 1 /\ Len(frames) \in Nat
      /\ \A i \in 1 .. Len(frames) : frames'[i] = frames[i]
      /\ frames'[Len(frames) + 1] = [sig |-> sig, from |-> from, pc |-> "entry", todo |-> {}]
  BY PushFrame
<1>2. FrameOK(frames'[Len(frames) + 1], child, listed)
  BY <1>1 DEF FrameOK
<1> QED  BY <1>1, <1>2 DEF FramesOK

\* A handler returns.
LEMMA FramesPop ==
  ASSUME frames \in Seq(Frame), FramesOK, frames # <<>>,
         frames' = Pop, UNCHANGED <<child, listed>>
  PROVE  FramesOK'
<1>1. /\ Len(frames') = Len(frames) - 1 /\ Len(frames) \in Nat
      /\ \A i \in 1 .. Len(frames') : frames'[i] = frames[i]
  BY PopFrame, TopFrame
<1> QED  BY <1>1 DEF FramesOK

LEMMA EndSignals ==
  ASSUME TypeOK, EndInv,
         \/ ChildEnds \/ HelperEnds
         \/ \E s \in UserSignal : Interrupt(s)
         \/ \E s \in Signal : Deliver(s)
  PROVE  EndInv'
<1> USE DEF EndInv
<1>1. CASE ChildEnds
  <2>1. FramesOK'
    BY <1>1, FramesStay DEF ChildEnds
  <2> QED  BY <1>1, <2>1 DEF ChildEnds
<1>2. CASE HelperEnds
  <2>1. FramesOK'
    BY <1>2, FramesStay DEF HelperEnds
  <2>2. \A s \in Signal : pending'[s] = "child" => pending[s] = "child"
    BY <1>2 DEF HelperEnds, Raise, TypeOK, Signal
  <2> QED  BY <1>2, <2>1, <2>2 DEF HelperEnds
<1>3. ASSUME NEW s \in UserSignal, Interrupt(s) PROVE EndInv'
  <2>1. FramesOK'
    BY <1>3, FramesStay DEF Interrupt, processes
  <2>2. \A r \in Signal : pending'[r] = "child" => pending[r] = "child"
    BY <1>3 DEF Interrupt, TypeOK, Signal
  <2> QED  BY <1>3, <2>1, <2>2 DEF Interrupt, processes
<1>4. ASSUME NEW s \in Signal, Deliver(s) PROVE EndInv'
  <2>1. UNCHANGED <<processes, listed, main>> /\ frames' = Push(s, pending[s])
    BY <1>4 DEF Deliver
  <2>2. pending[s] \in Sender
    BY <1>4 DEF Deliver, TypeOK
  <2>3. FramesOK'
    BY <2>1, <2>2, FramesPush DEF TypeOK, processes
  <2>4. \A r \in Signal : pending'[r] = "child" => pending[r] = "child"
    BY <1>4 DEF Deliver, TypeOK
  <2> QED  BY <2>1, <2>3, <2>4 DEF processes
<1> QED  BY <1>1, <1>2, <1>3, <1>4

\* The steps of the main program: there is no handler then.
LEMMA EndMain == ASSUME TypeOK, EndInv, Main PROVE EndInv'
<1> USE DEF EndInv, processes, signals
<1>1. frames = <<>>
  BY DEF Main, MainAt, Fork, StoreChild, InsertPID, RunHelper, CloseHelper, ClearList, FillList,
         RotateFails, Reboot, RebootFrees, ListEvents, SetupGroup, MapBuffer, EnablingFails,
         RebootOpens
<1>2. CASE Fork
  <2>1. CASE child' = "running" /\ main' = "forked" /\ UNCHANGED frames
    <3>1. child = "none"
      BY <1>2 DEF Fork, MainAt
    <3> QED  BY <1>1, <1>2, <2>1, <3>1, NoFrames DEF Fork
  <2>2. CASE UNCHANGED child /\ main' = "loop" /\ frames' = Push("TERM", "call")
    <3>1. FramesOK'
      BY <1>2, <2>2, FramesPush DEF Fork, TypeOK, Sender
    <3> QED  BY <1>2, <2>2, <3>1 DEF Fork
  <2> QED  BY <1>2, <2>1, <2>2 DEF Fork
<1>3. CASE RotateFails
  <2>1. FramesOK'
    BY <1>3, FramesPush DEF RotateFails, TypeOK, Sender
  <2> QED  BY <1>3, <2>1 DEF RotateFails
<1>4. ASSUME UNCHANGED <<child, pending, frames>>, main' # "fork" PROVE EndInv'
  BY <1>1, <1>4, NoFrames
<1>5. CASE StoreChild \/ InsertPID \/ RunHelper \/ CloseHelper \/ ClearList \/ FillList
  BY <1>4, <1>5 DEF MainAt, StoreChild, InsertPID, RunHelper, CloseHelper, ClearList, FillList
<1>6. CASE Reboot \/ RebootFrees \/ RebootOpens \/ EnablingFails
  BY <1>4, <1>6 DEF MainAt, Reboot, RebootFrees, RebootOpens, EnablingFails
<1>7. CASE ListEvents \/ SetupGroup \/ MapBuffer
  BY <1>4, <1>7 DEF MainAt, ListEvents, SetupGroup, MapBuffer
<1> QED  BY <1>2, <1>3, <1>5, <1>6, <1>7 DEF Main

LEMMA EndHandler == ASSUME TypeOK, EndInv, Handler PROVE EndInv'
<1> USE DEF EndInv, processes, signals
<1>1. CASE Enter
  <2>1. frames # <<>> /\ frames \in Seq(Frame) /\ UNCHANGED <<child, pending, listed, main>>
    BY <1>1 DEF Enter, TypeOK
  <2>2. FrameOK(Top, child, listed)
    BY <2>1, TopFrame DEF FramesOK, Top
  <2>3. FramesOK'
    <3>1. CASE Ignored(Top) \/ Forwarded(Top)
      <4>1. frames' = Pop
        BY <1>1, <3>1 DEF Enter
      <4> QED  BY <2>1, <4>1, FramesPop
    <3>2. CASE ~(Ignored(Top) \/ Forwarded(Top))
      <4> DEFINE f == [Top EXCEPT !.pc = "end", !.todo = Buffer]
      <4>1. f.from = Top.from /\ f.sig = Top.sig
        BY <2>1, TopFrame DEF Frame
      <4>2. Top.sig = "CHLD" => Top.from = "child"
        BY <3>2 DEF Ignored
      <4>3. Top.sig # "CHLD" => ~listed
        BY <3>2 DEF Forwarded
      <4>4. FrameOK(f, child, listed)
        BY <2>2, <4>1, <4>2, <4>3 DEF FrameOK
      <4>5. /\ Len(frames') = Len(frames)
            /\ frames'[Len(frames)] = f
            /\ \A i \in 1 .. Len(frames) : i # Len(frames) => frames'[i] = frames[i]
        BY <1>1, <2>1, <3>2, EnterTop DEF Enter
      <4> HIDE DEF f
      <4> QED  BY <2>1, <4>4, <4>5 DEF FramesOK
    <3> QED  BY <3>1, <3>2
  <2> QED  BY <2>1, <2>3
<1>2. CASE EndFrees
  <2>1. frames # <<>> /\ frames \in Seq(Frame) /\ UNCHANGED <<child, pending, listed, main>>
    BY <1>2 DEF EndFrees, TypeOK
  <2>2. FramesOK'
    <3> DEFINE f == [Top EXCEPT !.todo = @ \ {Least(@)}]
    <3>1. f.from = Top.from /\ f.sig = Top.sig /\ f.pc = Top.pc
      BY <2>1, TopFrame DEF Frame
    <3>2. FrameOK(Top, child, listed)
      BY <2>1, TopFrame DEF FramesOK, Top
    <3>3. FrameOK(f, child, listed)
      BY <3>1, <3>2 DEF FrameOK
    <3>4. /\ Len(frames') = Len(frames)
          /\ frames'[Len(frames)] = f
          /\ \A i \in 1 .. Len(frames) : i # Len(frames) => frames'[i] = frames[i]
      BY <1>2, <2>1, FreeTop DEF EndFrees
    <3> HIDE DEF f
    <3> QED  BY <2>1, <3>3, <3>4 DEF FramesOK
  <2> QED  BY <2>1, <2>2
<1>3. CASE EndExits
  <2>1. UNCHANGED <<child, pending, listed, frames>> /\ main' # "fork"
    BY <1>3 DEF EndExits
  <2> QED  BY <2>1, FramesStay
<1> QED  BY <1>1, <1>2, <1>3 DEF Handler

LEMMA EndStep == TypeOK /\ EndInv /\ [Next]_vars => EndInv'
<1> SUFFICES ASSUME TypeOK, EndInv, [Next]_vars PROVE EndInv'
  OBVIOUS
<1>1. CASE UNCHANGED vars
  BY <1>1, FramesStay DEF vars, processes, signals, EndInv
<1>2. CASE Exited
  BY <1>2, FramesStay DEF Exited, vars, processes, signals, EndInv
<1> QED  BY <1>1, <1>2, EndSignals, EndMain, EndHandler DEF Next

-----------------------------------------------------------------------------

LEMMA EndInvImplies == EndInv => EndsWithProgram
BY DEF EndInv, FramesOK, FrameOK, EndsWithProgram

\* A SIGCHLD ends the tool only when the program has ended: clean_end() takes no
\* ps command for it, whatever signals come and nest (main.cpp:88).
THEOREM EndsWithItsProgram == Spec => []EndsWithProgram
<1> QED  BY TypeInit, TypeStep, EndInit, EndStep, EndInvImplies, PTL DEF Spec

\* What the last step does when the program still runs.
LEMMA ExitStep ==
  ASSUME TypeOK, EndInv, [Next]_vars,
         main # "exited", main' = "exited", child = "running"
  PROVE  ~listed \/ main = "init"
<1>1. main # main'
  OBVIOUS
<1>2. ~UNCHANGED vars /\ ~Exited
  BY <1>1 DEF Exited, vars
<1>3. ~(ChildEnds \/ HelperEnds \/ (\E s \in UserSignal : Interrupt(s)) \/ (\E s \in Signal : Deliver(s)))
  BY <1>1 DEF ChildEnds, HelperEnds, Interrupt, Deliver
<1>4. CASE Main
  BY <1>4 DEF Main, MainAt, Fork, StoreChild, InsertPID, RunHelper, CloseHelper, ClearList, FillList,
         RotateFails, Reboot, RebootFrees, ListEvents, SetupGroup, MapBuffer, EnablingFails,
         RebootOpens
<1>5. CASE Handler
  <2>1. EndExits
    BY <1>1, <1>5 DEF Handler, Enter, EndFrees
  <2>2. FrameOK(Top, child, listed) /\ Top.pc = "end"
    BY <2>1, TopFrame DEF EndExits, EndInv, FramesOK, Top, TypeOK
  <2> QED  BY <2>2 DEF FrameOK
<1> QED  BY <1>2, <1>3, <1>4, <1>5 DEF Next

\* The tool outlives its program but for the cases that OutlivesProgram names:
\* a signal that comes while the list of threads is empty, and counters that
\* cannot be opened again (main.cpp:87, samples.hpp:97, perf_event.cpp:90).
THEOREM OutlivesItsProgram == Spec => OutlivesProgram
<1>1. TypeOK /\ EndInv /\ [Next]_vars
      => [main # "exited" /\ main' = "exited" /\ child = "running" => ~listed \/ main = "init"]_vars
  BY ExitStep
<1> QED  BY <1>1, TypeInit, TypeStep, EndInit, EndStep, PTL DEF Spec, OutlivesProgram

-----------------------------------------------------------------------------
(* The main loop.                                                          *)

\* A turn is at one of its tasks, or asleep.
InTurn == at \in Task \cup {"sleep"}

\* What the options leave.
OptionsOK ==
  /\ "memory" \in charts => update_mem
  /\ fake_thp => update_mem

\* What main() and main_loop() make of it.
SettingsOK ==
  /\ \A t \in Task : iter <= asked[t]
  /\ \A t, u \in Task : Uses(u, t) => period[t] <= asked[u]
  /\ "memory" \in migrates => update_mem

\* A task has not been due for longer than a turn takes, and the turn has
\* passed over none that is due.
TurnOK ==
  /\ \A t \in Task : Active(t) => age[t] <= Every(t, speed) + lost + Longer(iter, slow)
  /\ \A t \in Task : Place[t] < Place[at] => ~Due(t, age, speed)

LoopInv ==
  /\ LoopTypeOK
  /\ OptionsOK
  /\ at \notin {"options", "exit"} => SettingsOK
  /\ InTurn => TurnOK

-----------------------------------------------------------------------------
(* The tasks, their places and periods.                                    *)

LEMMA Tasks == Task = {"proc", "mem", "samples", "chart", "balance", "threads", "memory"}
  BY DEF Task, Place

LEMMA Places ==
  /\ DOMAIN Place = Task \cup {"sleep"} /\ "sleep" \notin Task
  /\ \A t \in Task : Place[t] \in 1 .. 7
  /\ Place["sleep"] = 8
  /\ \A t, u \in Task : Place[t] = Place[u] => t = u
  BY Tasks DEF Place

LEMMA Values == DOMAIN sys_time_values = 1 .. 3 /\ \A v \in 1 .. 3 : sys_time_values[v] \in {1, 2, 4}
  BY DEF sys_time_values

LEMMA EveryType ==
  ASSUME LoopTypeOK, NEW t \in Task, NEW v \in 1 .. 3
  PROVE  Every(t, v) \in Nat
<1>1. period[t] \in Nat
  BY DEF LoopTypeOK
<1>2. sys_time_values[v] = 1 \/ sys_time_values[v] = 2 \/ sys_time_values[v] = 4
  BY Values
<1> QED
  BY <1>1, <1>2 DEF Every

\* Only the period of the threads depends on the time value.
LEMMA EveryOther ==
  ASSUME NEW t \in Task \ {"threads"}, NEW v, NEW w
  PROVE  Every(t, v) = Every(t, w)
  BY DEF Every

\* A task just done is not due.
LEMMA JustDone ==
  ASSUME LoopTypeOK, NEW t \in Task, NEW v \in 1 .. 3, NEW ages, ages[t] = 0
  PROVE  ~Due(t, ages, v)
<1>1. Every(t, v) \in Nat
  BY EveryType
<1> QED
  BY <1>1 DEF Due

-----------------------------------------------------------------------------
(* A turn goes on, or another starts.                                      *)

\* Tasks up to a place are not due: nor are those before the next that is.
LEMMA GoesOn ==
  ASSUME NEW place \in 0 .. 7, NEW ages, NEW v,
         \A t \in Task : Place[t] <= place => ~Due(t, ages, v),
         NEW next \in FirstDue(place, ages, v)
  PROVE  /\ next \in Task \cup {"sleep"}
         /\ \A t \in Task : Place[t] < Place[next] => ~Due(t, ages, v)
<1>1. /\ next \in DOMAIN Place
      /\ \A t \in Task : Place[t] \in place + 1 .. Place[next] - 1 => ~Due(t, ages, v)
  BY DEF FirstDue
<1>2. next \in Task \cup {"sleep"} /\ Place[next] \in 1 .. 8
  BY <1>1, Places
<1>3. ASSUME NEW t \in Task, Place[t] < Place[next]  PROVE ~Due(t, ages, v)
  <2>1. Place[t] \in 1 .. 7
    BY Places
  <2>2. CASE Place[t] <= place
    BY <2>2
  <2>3. CASE ~(Place[t] <= place)
    <3>1. Place[t] \in place + 1 .. Place[next] - 1
      BY <1>2, <1>3, <2>1, <2>3
    <3> QED
      BY <1>1, <3>1
  <2> QED
    BY <2>2, <2>3
<1> QED
  BY <1>2, <1>3

\* The ages at the start of the next turn.
LEMMA AgesGrow ==
  ASSUME LoopTypeOK, LoopAssumption, NEW ages \in [Task -> Nat], NEW length \in Nat, NEW v,
         NextTurn(ages, length, v)
  PROVE  /\ age' \in [Task -> Nat]
         /\ \A t \in Task : age'[t] <= ages[t] + length
         /\ at' \in Task \cup {"sleep"}
         /\ \A t \in Task : Place[t] < Place[at'] => ~Due(t, age', v)
         /\ spent' = 0
<1> DEFINE older == [t \in Task |-> Shorter(MaxAge, ages[t] + length)]
<1>1. age' = older /\ at' \in FirstDue(0, older, v) /\ spent' = 0
  BY DEF NextTurn
<1>2. \A t \in Task : older[t] \in Nat /\ older[t] <= ages[t] + length
  BY DEF Shorter, LoopAssumption
<1>3. \A t \in Task : Place[t] <= 0 => ~Due(t, older, v)
  BY Places
<1> HIDE DEF older
<1>4. /\ at' \in Task \cup {"sleep"}
      /\ \A t \in Task : Place[t] < Place[at'] => ~Due(t, older, v)
  BY <1>1, <1>3, GoesOn
<1>5. older \in [Task -> Nat]
  BY <1>2 DEF older
<1> QED
  BY <1>1, <1>2, <1>4, <1>5

LEMMA SameSettings ==
  ASSUME UNCHANGED settings, NEW t
  PROVE  /\ Active(t)' = Active(t)
         /\ Every(t, speed)' = Every(t, speed')
         /\ Due(t, age, speed)' = Due(t, age', speed')
  BY DEF settings, Active, Every, Due

-----------------------------------------------------------------------------
(* The steps.                                                              *)

LEMMA InitOK == LoopInit => LoopInv
<1> SUFFICES ASSUME LoopAssumption, LoopInit  PROVE LoopInv
  BY LoopAssumption
<1>1. DefaultPeriod \in [Task -> Nat]
  BY Tasks DEF DefaultPeriod
<1>2. LoopTypeOK
  <2>1. update_mem \in BOOLEAN /\ fake_thp \in BOOLEAN
    BY DEF LoopInit
  <2>2. speed \in DOMAIN sys_time_values
    BY Values DEF LoopInit
  <2>3. /\ asked \in [Task -> Nat] /\ period \in [Task -> Nat] /\ iter \in Nat
        /\ charts \subseteq {"threads", "memory"} /\ migrates \subseteq {"threads", "memory"}
        /\ at \in Task \cup {"options", "wait", "sleep", "exit"}
        /\ age \in [Task -> Nat] /\ spent \in Nat /\ slow \in Nat /\ lost \in Nat
    BY <1>1 DEF LoopInit
  <2>4. options \in 0 .. MaxOptions /\ delay \in 0 .. MaxDelay /\ throws \in 0 .. MaxThrows
    BY DEF LoopInit, LoopAssumption
  <2> QED
    BY <2>1, <2>2, <2>3, <2>4 DEF LoopTypeOK
<1>3. at \notin Task \cup {"sleep"}
  BY Tasks DEF LoopInit
<1> QED
  BY <1>2, <1>3 DEF LoopInit, LoopInv, OptionsOK, InTurn

\* An option changes the settings, never the loop.
LEMMA OptionsKeep ==
  ASSUME LoopAssumption, LoopInv,
         \/ PeriodOption \/ ChartOption \/ MigrationOption
         \/ HugePagesOption \/ OtherOption \/ BadOption
  PROVE  LoopInv'
<1>1. Option /\ (at' = "options" \/ at' = "exit")
  BY DEF PeriodOption, ChartOption, MigrationOption, HugePagesOption, OtherOption, BadOption, Option
<1>2. asked' \in [Task -> Nat]
  <2>1. CASE PeriodOption
    <3>1. \A opt \in DOMAIN TaskOf : TaskOf[opt] \in Task
      BY Tasks DEF TaskOf
    <3> QED
      BY <2>1, <3>1 DEF PeriodOption, LoopInv, LoopTypeOK, LoopAssumption
  <2>2. CASE UNCHANGED asked
    BY <2>2 DEF LoopInv, LoopTypeOK
  <2> QED
    BY <2>1, <2>2 DEF ChartOption, MigrationOption, HugePagesOption, OtherOption, BadOption
<1>3. /\ charts' \subseteq {"threads", "memory"} /\ migrates' \subseteq {"threads", "memory"}
      /\ update_mem' \in BOOLEAN /\ fake_thp' \in BOOLEAN
  BY DEF PeriodOption, ChartOption, MigrationOption, HugePagesOption, OtherOption, BadOption, LoopInv, LoopTypeOK
<1>4. options' \in 0 .. MaxOptions
  BY <1>1 DEF Option, LoopInv, LoopTypeOK, LoopAssumption
<1>5. LoopTypeOK'
  BY <1>1, <1>2, <1>3, <1>4 DEF Option, LoopInv, LoopTypeOK
<1>6. OptionsOK'
  <2>1. OptionsOK
    BY DEF LoopInv
  <2>2. CASE PeriodOption
    BY <2>1, <2>2 DEF PeriodOption, OptionsOK
  <2>3. CASE ChartOption
    BY <2>1, <2>3 DEF ChartOption, OptionsOK
  <2>4. CASE HugePagesOption
    BY <2>1, <2>4 DEF HugePagesOption, OptionsOK
  <2>5. CASE UNCHANGED <<charts, fake_thp, update_mem>>
    BY <2>1, <2>5 DEF OptionsOK
  <2> QED
    BY <2>2, <2>3, <2>4, <2>5 DEF MigrationOption, OtherOption, BadOption
<1>7. at' \notin Task \cup {"sleep", "wait"}
  BY <1>1, Tasks
<1> QED
  BY <1>1, <1>5, <1>6, <1>7 DEF LoopInv, InTurn

LEMMA StartLoopKeeps ==
  ASSUME LoopAssumption, LoopInv, StartLoop
  PROVE  LoopInv'
<1> DEFINE p == ForMigration(asked)
           q == ForCharts(p)
<1>1. /\ period' = q
      /\ \A t \in Task : iter' <= p[t]
      /\ iter' \in {p[t] : t \in Task}
      /\ at' = "wait"
  BY DEF StartLoop, NoLonger
<1>2. asked \in [Task -> Nat]
  BY DEF LoopInv, LoopTypeOK
<1>3. /\ p \in [Task -> Nat]
      /\ \A t \in Task : p[t] <= asked[t]
      /\ "memory" \in migrates => p["mem"] <= asked["memory"]
  <2>1. /\ Shorter(asked["mem"], asked["memory"]) \in Nat
        /\ Shorter(asked["mem"], asked["memory"]) <= asked["mem"]
        /\ Shorter(asked["mem"], asked["memory"]) <= asked["memory"]
    BY <1>2, Tasks DEF Shorter
  <2> QED
    BY <1>2, <2>1, Tasks DEF ForMigration
<1> HIDE DEF p
<1>4. /\ q \in [Task -> Nat]
      /\ \A t \in Task : q[t] <= p[t]
      /\ "threads" \in charts => q["proc"] <= p["chart"]
      /\ "memory" \in charts => q["mem"] <= p["chart"]
  <2>1. \A t \in {"proc", "mem"} : /\ Shorter(p["chart"], p[t]) \in Nat
                                  /\ Shorter(p["chart"], p[t]) <= p["chart"]
                                  /\ Shorter(p["chart"], p[t]) <= p[t]
    BY <1>3, Tasks DEF Shorter
  <2> DEFINE a == IF "threads" \in charts THEN Shorter(p["chart"], p["proc"]) ELSE p["proc"]
             b == IF "memory" \in charts THEN Shorter(p["chart"], p["mem"]) ELSE p["mem"]
  <2>2. /\ a \in Nat /\ a <= p["proc"]
        /\ "threads" \in charts => a <= p["chart"]
        /\ b \in Nat /\ b <= p["mem"]
        /\ "memory" \in charts => b <= p["chart"]
    BY <1>3, <2>1, Tasks
  <2>3. q = [p EXCEPT !["proc"] = a, !["mem"] = b]
    BY DEF ForCharts
  <2> HIDE DEF a, b, q
  <2>4. p \in [Task -> Nat] /\ "proc" \in Task /\ "mem" \in Task /\ "proc" # "mem"
    BY <1>3, Tasks
  <2>5. q \in [Task -> Nat]
    BY <2>2, <2>3, <2>4
  <2>6. q["proc"] = a /\ q["mem"] = b
    BY <2>3, <2>4
  <2>7. ASSUME NEW t \in Task  PROVE q[t] <= p[t]
    <3>1. p[t] \in Nat
      BY <2>4
    <3>2. CASE t = "proc"
      BY <2>2, <2>6, <3>2
    <3>3. CASE t = "mem"
      BY <2>2, <2>6, <3>3
    <3>4. CASE t # "proc" /\ t # "mem"
      BY <2>3, <2>4, <3>1, <3>4
    <3> QED
      BY <3>2, <3>3, <3>4
  <2> QED
    BY <2>2, <2>5, <2>6, <2>7
<1> HIDE DEF q
<1>5. UNCHANGED <<asked, charts, migrates, fake_thp, age, spent, speed, slow, lost, delay, throws>>
      /\ options' = 0 /\ update_mem' = (update_mem \/ "memory" \in migrates)
  BY DEF StartLoop
<1>6. iter' \in Nat
  BY <1>1, <1>3
<1>7. LoopTypeOK'
  <2>1. LoopTypeOK
    BY DEF LoopInv
  <2>2. update_mem' \in BOOLEAN /\ fake_thp' \in BOOLEAN
    BY <1>5, <2>1 DEF LoopTypeOK
  <2>3. options' \in 0 .. MaxOptions
    BY <1>5 DEF LoopAssumption
  <2> QED
    BY <1>1, <1>4, <1>5, <1>6, <2>1, <2>2, <2>3 DEF LoopTypeOK
<1>8. \A t \in Task : iter' <= asked[t]
  BY <1>1, <1>2, <1>3, <1>6
<1>9. ASSUME NEW t \in Task, NEW u \in Task, Uses(u, t)
      PROVE  q[t] <= asked[u]
  <2>1. q[t] \in Nat /\ p[t] \in Nat /\ p[u] \in Nat /\ asked[u] \in Nat /\ q[t] <= p[t] /\ p[u] <= asked[u]
    BY <1>2, <1>3, <1>4
  <2>2. CASE u = t
    BY <2>1, <2>2
  <2>3. CASE u = "chart" /\ q[t] <= p["chart"]
    BY <2>1, <2>3
  <2>4. CASE u = "memory" /\ p[t] <= asked["memory"]
    BY <2>1, <2>4
  <2> QED
    BY <1>3, <1>4, <1>9, <2>2, <2>3, <2>4 DEF Uses
<1>10. SettingsOK'
  BY <1>1, <1>5, <1>8, <1>9 DEF SettingsOK, Uses
<1>11. OptionsOK'
  BY <1>5 DEF LoopInv, OptionsOK
<1>12. at' \notin Task \cup {"sleep"}
  BY <1>1, Tasks
<1> QED
  BY <1>7, <1>10, <1>11, <1>12 DEF LoopInv, InTurn

\* What the loop leaves alone stays as it is.
LEMMA SettingsStay ==
  ASSUME LoopInv, UNCHANGED settings, at \notin {"options", "exit"}
  PROVE  OptionsOK' /\ SettingsOK'
  BY DEF LoopInv, settings, OptionsOK, SettingsOK, Uses

LEMMA FirstTurnKeeps ==
  ASSUME LoopAssumption, LoopInv, FirstTurn
  PROVE  LoopInv'
<1> PICK secs \in Given, start \in 0 .. delay :
      /\ NextTurn([t \in Task |-> IF t \in {"threads", "memory"} THEN start ELSE 0], secs, speed)
      /\ lost' = secs + start
      /\ delay' = delay - start
  BY DEF FirstTurn
<1> DEFINE ages == [t \in Task |-> IF t \in {"threads", "memory"} THEN start ELSE 0]
<1>1. UNCHANGED <<settings, speed, slow, throws>> /\ at = "wait"
  BY DEF FirstTurn
<1>2. /\ LoopTypeOK /\ secs \in Nat /\ start \in Nat /\ delay \in Nat
      /\ ages \in [Task -> Nat] /\ \A t \in Task : ages[t] <= start
  BY DEF LoopInv, LoopTypeOK, LoopAssumption
<1>3. NextTurn(ages, secs, speed)
  OBVIOUS
<1> HIDE DEF ages
<1>4. /\ age' \in [Task -> Nat]
      /\ \A t \in Task : age'[t] <= ages[t] + secs
      /\ at' \in Task \cup {"sleep"}
      /\ \A t \in Task : Place[t] < Place[at'] => ~Due(t, age', speed)
      /\ spent' = 0
  BY <1>2, <1>3, AgesGrow
<1>5. LoopTypeOK'
  BY <1>1, <1>2, <1>4 DEF LoopTypeOK, settings
<1>6. ASSUME NEW t \in Task
      PROVE  age'[t] <= Every(t, speed)' + lost' + Longer(iter, slow)'
  <2>1. Every(t, speed)' \in Nat
    BY <1>5, EveryType, Values, SameSettings, <1>1, <1>2 DEF LoopTypeOK
  <2>2. Longer(iter, slow)' \in Nat
    BY <1>5 DEF Longer, LoopTypeOK
  <2>3. age'[t] \in Nat /\ age'[t] <= ages[t] + secs /\ ages[t] <= start /\ ages[t] \in Nat
    BY <1>2, <1>4
  <2> HIDE DEF ages
  <2>4. age'[t] <= lost' /\ lost' \in Nat
    BY <1>2, <2>3
  <2> QED
    BY <2>1, <2>2, <2>3, <2>4
<1>7. TurnOK'
  BY <1>1, <1>4, <1>6, SameSettings DEF TurnOK
<1>8. OptionsOK' /\ SettingsOK'
  BY <1>1, SettingsStay
<1> QED
  BY <1>5, <1>7, <1>8 DEF LoopInv

\* Two steps go on from the ages and the time value that a turn has come to:
\* what is known of them is known after the step.
LEMMA PerformKeeps ==
  ASSUME LoopAssumption, LoopInv, NEW t \in Task, NEW v \in 1 .. 3,
         t # "threads" => v = speed, Perform(t, v)
  PROVE  LoopInv'
<1> DEFINE ages == [age EXCEPT ![t] = 0]
<1> PICK work \in 0 .. delay :
      /\ delay' = delay - work
      /\ \/ /\ at' \in FirstDue(Place[t], ages, v)
            /\ age' = ages /\ spent' = spent + work
            /\ UNCHANGED <<lost, throws>>
         \/ /\ throws > 0 /\ throws' = throws - 1
            /\ NextTurn(ages, spent + work, v)
            /\ lost' = lost + spent + work
  BY DEF Perform
<1>1. at = t /\ speed' = v /\ UNCHANGED settings /\ UNCHANGED slow
  BY DEF Perform
<1>2. LoopTypeOK /\ TurnOK /\ at \notin {"options", "exit", "wait"}
  BY <1>1, Tasks DEF LoopInv, InTurn
<1>3. work \in Nat /\ delay' \in 0 .. MaxDelay
  BY <1>2 DEF LoopTypeOK, LoopAssumption
<1>4. ages \in [Task -> Nat] /\ ages[t] = 0 /\ \A u \in Task \ {t} : ages[u] = age[u]
  BY <1>2 DEF LoopTypeOK
<1>5. Longer(iter, slow) \in Nat /\ Longer(iter, slow)' = Longer(iter, slow)
  BY <1>1, <1>2 DEF Longer, LoopTypeOK, settings
<1> DEFINE L == Longer(iter, slow)
<1> HIDE DEF L
<1>6. ASSUME NEW u \in Task, Active(u)
      PROVE  ages[u] <= Every(u, v) + lost + L
  <2>1. Every(u, v) \in Nat /\ lost \in Nat /\ L \in Nat
    BY <1>2, <1>5, EveryType DEF LoopTypeOK, L
  <2>2. CASE u = t
    BY <1>4, <2>1, <2>2
  <2>3. CASE u # t
    <3>1. Every(u, v) = Every(u, speed)
      BY <2>3, EveryOther
    <3> QED
      BY <1>2, <1>4, <1>6, <2>3, <3>1 DEF TurnOK, L
  <2> QED
    BY <2>2, <2>3
<1>7. ASSUME NEW u \in Task, Place[u] <= Place[t]
      PROVE  ~Due(u, ages, v)
  <2>1. CASE u = t
    BY <1>2, <1>4, <2>1, JustDone
  <2>2. CASE u # t
    <3>1. Place[u] < Place[t]
      BY <1>7, <2>2, Places
    <3>2. ~Due(u, age, speed)
      BY <1>1, <1>2, <3>1 DEF TurnOK
    <3>3. Every(u, v) = Every(u, speed)
      BY <2>2, EveryOther
    <3> QED
      BY <1>4, <2>2, <3>2, <3>3 DEF Due
  <2> QED
    BY <2>1, <2>2
<1> HIDE DEF ages
<1>8. /\ age' \in [Task -> Nat] /\ spent' \in Nat /\ lost' \in Nat /\ throws' \in 0 .. MaxThrows
      /\ at' \in Task \cup {"sleep"}
      /\ \A u \in Task : Active(u) => age'[u] <= Every(u, v) + lost' + L
      /\ \A u \in Task : Place[u] < Place[at'] => ~Due(u, age', v)
  <2>1. CASE /\ at' \in FirstDue(Place[t], ages, v)
             /\ age' = ages /\ spent' = spent + work
             /\ UNCHANGED <<lost, throws>>
    <3>1. Place[t] \in 0 .. 7
      BY Places
    <3>2. /\ at' \in Task \cup {"sleep"}
          /\ \A u \in Task : Place[u] < Place[at'] => ~Due(u, ages, v)
      BY <1>7, <2>1, <3>1, GoesOn
    <3>3. spent' \in Nat /\ lost' \in Nat /\ throws' \in 0 .. MaxThrows
      BY <1>2, <1>3, <2>1 DEF LoopTypeOK
    <3> QED
      BY <1>4, <1>6, <2>1, <3>2, <3>3
  <2>2. CASE /\ throws > 0 /\ throws' = throws - 1
             /\ NextTurn(ages, spent + work, v)
             /\ lost' = lost + spent + work
    <3>1. spent \in Nat /\ lost \in Nat /\ spent + work \in Nat /\ lost' \in Nat /\ throws' \in 0 .. MaxThrows
      BY <1>2, <1>3, <2>2 DEF LoopTypeOK, LoopAssumption
    <3>2. /\ age' \in [Task -> Nat]
          /\ \A u \in Task : age'[u] <= ages[u] + (spent + work)
          /\ at' \in Task \cup {"sleep"}
          /\ \A u \in Task : Place[u] < Place[at'] => ~Due(u, age', v)
          /\ spent' = 0
      BY <1>2, <1>4, <2>2, <3>1, AgesGrow
    <3>3. ASSUME NEW u \in Task, Active(u)
          PROVE  age'[u] <= Every(u, v) + lost' + L
      <4>1. Every(u, v) \in Nat /\ L \in Nat /\ age'[u] \in Nat /\ ages[u] \in Nat
        BY <1>2, <1>4, <1>5, <3>2, EveryType DEF L
      <4>2. ages[u] <= Every(u, v) + lost + L
        BY <1>6, <3>3
      <4>3. age'[u] <= ages[u] + (spent + work)
        BY <3>2
      <4> QED
        BY <1>3, <2>2, <3>1, <4>1, <4>2, <4>3
    <3> QED
      BY <3>1, <3>2, <3>3
  <2> QED
    BY <2>1, <2>2
<1>9. LoopTypeOK'
  BY <1>1, <1>2, <1>3, <1>8, Values DEF LoopTypeOK, settings
<1>10. TurnOK'
  BY <1>1, <1>5, <1>8, SameSettings DEF TurnOK, L
<1> QED
  BY <1>1, <1>2, <1>9, <1>10, SettingsStay DEF LoopInv

LEMMA SleepKeeps ==
  ASSUME LoopAssumption, LoopInv, Sleep
  PROVE  LoopInv'
<1> PICK late \in 0 .. delay :
      /\ NextTurn(age, Longer(iter, spent) + late, speed)
      /\ slow' = spent /\ lost' = late
      /\ delay' = delay - late
  <2>1. 0 \in 0 .. delay
    BY DEF LoopInv, LoopTypeOK, LoopAssumption
  <2> QED
    BY <2>1 DEF Sleep
<1>1. UNCHANGED <<settings, speed, throws>> /\ at = "sleep"
  BY DEF Sleep
<1>2. LoopTypeOK /\ TurnOK
  BY <1>1 DEF LoopInv, InTurn
<1>3. late \in Nat /\ delay' \in 0 .. MaxDelay /\ spent \in Nat /\ age \in [Task -> Nat] /\ speed \in 1 .. 3
  BY <1>2, Values DEF LoopTypeOK, LoopAssumption
<1>4. Longer(iter, spent) \in Nat /\ Longer(iter, slow)' = Longer(iter, spent)
  BY <1>1, <1>2 DEF Longer, LoopTypeOK, settings
<1> DEFINE L == Longer(iter, spent)
<1> HIDE DEF L
<1>5. L \in Nat /\ L + late \in Nat
  BY <1>3, <1>4 DEF L
<1>6. /\ age' \in [Task -> Nat]
      /\ \A t \in Task : age'[t] <= age[t] + (L + late)
      /\ at' \in Task \cup {"sleep"}
      /\ \A t \in Task : Place[t] < Place[at'] => ~Due(t, age', speed)
      /\ spent' = 0
  BY <1>2, <1>3, <1>5, AgesGrow DEF L
<1>7. LoopTypeOK'
  BY <1>1, <1>2, <1>3, <1>6 DEF LoopTypeOK, settings
<1>8. ASSUME NEW t \in Task, Active(t)
      PROVE  age'[t] <= Every(t, speed) + lost' + L
  <2>1. ~Due(t, age, speed)
    BY <1>1, <1>2, Places DEF TurnOK
  <2>2. age[t] \in Nat /\ age'[t] \in Nat /\ Every(t, speed) \in Nat
    BY <1>2, <1>3, <1>6, EveryType
  <2>3. age[t] <= Every(t, speed)
    BY <1>8, <2>1, <2>2 DEF Due
  <2>4. age'[t] <= age[t] + (L + late)
    BY <1>6
  <2> QED
    BY <1>3, <1>5, <2>2, <2>3, <2>4
<1>9. TurnOK'
  BY <1>1, <1>4, <1>6, <1>8, SameSettings DEF TurnOK, L
<1> QED
  BY <1>1, <1>7, <1>9, SettingsStay DEF LoopInv

-----------------------------------------------------------------------------
(* The theorems.                                                           *)

LEMMA Step == LoopInv /\ [LoopNext]_lvars => LoopInv'
<1> SUFFICES ASSUME LoopAssumption, LoopInv, [LoopNext]_lvars  PROVE LoopInv'
  BY LoopAssumption
<1>1. speed \in 1 .. 3 /\ {"proc", "mem", "samples", "chart", "balance", "threads", "memory"} \subseteq Task
  BY Tasks, Values DEF LoopInv, LoopTypeOK
<1>2. CASE \/ PeriodOption \/ ChartOption \/ MigrationOption
           \/ HugePagesOption \/ OtherOption \/ BadOption
  BY <1>2, OptionsKeep
<1>3. CASE StartLoop
  BY <1>3, StartLoopKeeps
<1>4. CASE FirstTurn
  BY <1>4, FirstTurnKeeps
<1>5. CASE UpdateProcesses \/ UpdateMemory \/ ProcessSamples \/ ExportCharts \/ BalanceCPUs \/ MigratePages
  BY <1>1, <1>5, PerformKeeps DEF UpdateProcesses, UpdateMemory, ProcessSamples, ExportCharts, BalanceCPUs, MigratePages
<1>6. CASE MigrateThreads
  <2>1. PICK value \in 1 .. 3 : Perform("threads", value)
    BY <1>1, <1>6, Values DEF MigrateThreads, Speeds
  <2> QED
    BY <1>1, <2>1, PerformKeeps
<1>7. CASE Sleep
  BY <1>7, SleepKeeps
<1>8. CASE UNCHANGED lvars
  BY <1>8 DEF lvars, settings, LoopInv, LoopTypeOK, OptionsOK, SettingsOK, InTurn, TurnOK,
              Uses, Active, Every, Due, Longer
<1> QED
  BY <1>2, <1>3, <1>4, <1>5, <1>6, <1>7, <1>8 DEF LoopNext

\* The types of the settings and of the loop's clocks: periods and ages are
\* natural numbers and the time value one of three, for any options.
THEOREM LoopTypeCorrect == LoopSpec => []LoopTypeOK
<1>1. LoopInv => LoopTypeOK
  BY DEF LoopInv
<1> QED
  BY InitOK, Step, <1>1, PTL DEF LoopSpec

\* A task that is needed has a period no longer than any of its users want.
LEMMA OnTime == LoopInv => TasksOnTime
<1> SUFFICES ASSUME LoopInv, at \notin {"options", "wait", "exit"},
                    NEW t \in Needed, NEW u \in Task, Uses(u, t)
             PROVE  age[t] <= Wanted(u) + lost + Longer(Wanted(u), slow)
  BY DEF TasksOnTime
<1>1. LoopTypeOK /\ OptionsOK /\ SettingsOK /\ InTurn
  BY DEF LoopInv, LoopTypeOK, InTurn
<1>2. TurnOK
  BY <1>1 DEF LoopInv
<1>3. t \in Task
  BY Tasks DEF Needed
<1>4. Active(t)
  <2>1. CASE t = "mem"
    <3>1. "memory" \in migrates \cup charts \/ fake_thp
      BY <2>1 DEF Needed
    <3> QED
      BY <1>1, <2>1, <3>1 DEF Active, OptionsOK, SettingsOK
  <2>2. CASE t # "mem"
    BY <2>2 DEF Needed, Active
  <2> QED
    BY <2>1, <2>2
<1>5. age[t] <= Every(t, speed) + lost + Longer(iter, slow)
  BY <1>2, <1>3, <1>4 DEF TurnOK
<1>6. period[t] <= asked[u] /\ iter <= asked[u]
  BY <1>1, <1>3 DEF SettingsOK
<1>7. /\ period[t] \in Nat /\ asked[u] \in Nat /\ iter \in Nat /\ slow \in Nat /\ lost \in Nat /\ age[t] \in Nat
      /\ speed \in 1 .. 3
  BY <1>1, <1>3, Values DEF LoopTypeOK
<1>8. sys_time_values[speed] = 1 \/ sys_time_values[speed] = 2 \/ sys_time_values[speed] = 4
  BY <1>7, Values
<1>9. (u = "threads") = (t = "threads")
  BY DEF Uses
<1>10. Every(t, speed) \in Nat /\ Wanted(u) \in Nat /\ Every(t, speed) <= Wanted(u) /\ asked[u] <= Wanted(u)
  BY <1>6, <1>7, <1>8, <1>9 DEF Every, Wanted
<1>11. Longer(iter, slow) <= Longer(Wanted(u), slow) /\ Longer(iter, slow) \in Nat /\ Longer(Wanted(u), slow) \in Nat
  BY <1>6, <1>7, <1>10 DEF Longer
<1> QED
  BY <1>5, <1>7, <1>10, <1>11

\* Whatever options are given, and wherever work, late wake-ups and exceptions
\* fall, the main loop keeps no task that is needed waiting (main.cpp:328).
THEOREM TasksAreOnTime == LoopSpec => []TasksOnTime
  BY InitOK, Step, OnTime, PTL DEF LoopSpec

-----------------------------------------------------------------------------
(* The table of performances.                                              *)

\* All on the list of threads to accept have a record when it is read.
FilterIsKnown == phase \in {"turn", "read", "rebalance", "migrate"} => filter \subseteq known

\* What a row says of a thread `t' is in the history.
Backed(row, recent, ever) ==
  \A n \in Nodes :
    /\ row.times[n] => <<"INS", n>> \in recent
    /\ row.total_reqs[n] => <<"REQ", n>> \in recent
    /\ row.perfs[n] # Invalid => n \in ever

DataIsRecent ==
  /\ \A t \in DOMAIN table \cap known : Backed(table[t], since[t], measured[t])
  /\ \A t \in Tid : Enough(since[t]) \subseteq measured[t]

IInv == TableTypeOK /\ RowsHaveRecords /\ FilterIsKnown /\ DataIsRecent

-----------------------------------------------------------------------------
(* Rows.                                                                   *)

LEMMA NewRowType == NewRow \in Row
BY DEF NewRow, Row, NoData

LEMMA NewRowBacked ==
  ASSUME NEW recent, NEW ever
  PROVE  Backed(NewRow, recent, ever)
BY SMTT(60) DEF Backed, NewRow, NoData

LEMMA AddDataType ==
  ASSUME NEW row \in Row, NEW of
  PROVE  AddData(row, of) \in Row
<1>1. \A n \in Nodes : (row.times[n] \/ <<"INS", n>> \in of) \in BOOLEAN
                    /\ (row.total_reqs[n] \/ <<"REQ", n>> \in of) \in BOOLEAN
                    /\ (row.perfs_update[n] \/ \E k \in Kinds : <<k, n>> \in of) \in BOOLEAN
  OBVIOUS
<1>. QED BY <1>1 DEF AddData, Row

\* Samples that are added are in the history, with those that were.
LEMMA AddDataBacked ==
  ASSUME NEW row \in Row, NEW of \in SUBSET (Kinds \X Nodes), NEW recent, NEW ever, NEW ever2,
         Backed(row, recent, ever), ever \subseteq ever2
  PROVE  Backed(AddData(row, of), recent \cup (of \cap (Counted \X Nodes)), ever2)
<1>1. \A n \in Nodes : /\ AddData(row, of).times[n] <=> row.times[n] \/ <<"INS", n>> \in of
                       /\ AddData(row, of).total_reqs[n] <=> row.total_reqs[n] \/ <<"REQ", n>> \in of
                       /\ AddData(row, of).perfs[n] = row.perfs[n]
  BY DEF AddData, Row
<1>2. \A n \in Nodes : <<"INS", n>> \in Counted \X Nodes /\ <<"REQ", n>> \in Counted \X Nodes
  BY DEF Counted
<1>. QED BY <1>1, <1>2 DEF Backed

LEMMA CalcPerfType ==
  ASSUME NEW row \in Row, NEW grade \in [Nodes -> Grades \cup {Invalid}]
  PROVE  CalcPerf(row, grade) \in Row
<1>1. \A n \in Nodes : (row.perfs_update[n] /\ ~HasData(row, n)) \in BOOLEAN
  OBVIOUS
<1>. QED BY <1>1 DEF CalcPerf, Row

\* A performance comes out where there are instructions and requests.
LEMMA CalcPerfBacked ==
  ASSUME NEW row \in Row, NEW grade \in [Nodes -> Grades \cup {Invalid}],
         NEW recent, NEW ever, Backed(row, recent, ever), Enough(recent) \subseteq ever
  PROVE  Backed(CalcPerf(row, grade), recent, ever)
<1>1. \A n \in Nodes : /\ CalcPerf(row, grade).times[n] = row.times[n]
                       /\ CalcPerf(row, grade).total_reqs[n] = row.total_reqs[n]
                       /\ CalcPerf(row, grade).perfs[n] \in {row.perfs[n], Invalid}
                          \/ HasData(row, n)
  BY DEF CalcPerf, Row
<1>2. \A n \in Nodes : HasData(row, n) => n \in Enough(recent)
  BY DEF HasData, Backed, Enough
<1>. QED BY <1>1, <1>2 DEF Backed

LEMMA ClearedType ==
  ASSUME NEW row \in Row
  PROVE  Cleared(row) \in Row
BY DEF Cleared, Row, NoData

LEMMA ClearedBacked ==
  ASSUME NEW row \in Row, NEW recent, NEW ever, NEW none, Backed(row, recent, ever)
  PROVE  Backed(Cleared(row), none, ever)
BY DEF Cleared, Row, NoData, Backed

-----------------------------------------------------------------------------
(* Tables.  Rows for `tids' and an update keep all that is said of a table. *)

TableOK(rows) ==
  /\ DOMAIN rows \subseteq Tid
  /\ \A t \in DOMAIN rows : rows[t] \in Row
  /\ \A t \in DOMAIN rows \cap known : Backed(rows[t], since[t], measured[t])

LEMMA WithRowsOK ==
  ASSUME NEW rows, NEW tids \in SUBSET Tid, TableOK(rows)
  PROVE  /\ TableOK(WithRows(rows, tids))
         /\ DOMAIN WithRows(rows, tids) = DOMAIN rows \cup tids
BY NewRowType, NewRowBacked DEF TableOK, WithRows

LEMMA UpdatedOK ==
  ASSUME NEW rows, TableOK(rows), DataIsRecent, NEW new \in Updated(rows)
  PROVE  TableOK(new) /\ DOMAIN new = DOMAIN rows
<1>1. PICK runs \in SUBSET DOMAIN rows, grade \in [Tid -> [Nodes -> Grades \cup {Invalid}]] :
        new = UpdateRows(rows, runs, grade)
  BY DEF Updated
<1>2. DOMAIN new = DOMAIN rows
  BY <1>1 DEF UpdateRows
<1>3. ASSUME NEW t \in DOMAIN rows
      PROVE  /\ new[t] \in Row
             /\ t \in known => Backed(new[t], since[t], measured[t])
  <2>. DEFINE run == [rows[t] EXCEPT !.running = TRUE]
  <2>1. t \in Tid /\ rows[t] \in Row /\ grade[t] \in [Nodes -> Grades \cup {Invalid}]
    BY DEF TableOK
  <2>2. /\ run \in Row
        /\ run.times = rows[t].times /\ run.total_reqs = rows[t].total_reqs
        /\ run.perfs = rows[t].perfs
    BY <2>1 DEF Row
  <2>3. t \in known => Backed(run, since[t], measured[t])
    BY <2>2 DEF TableOK, Backed
  <2>4. Enough(since[t]) \subseteq measured[t]
    BY <2>1 DEF DataIsRecent
  <2>5. /\ CalcPerf(run, grade[t]) \in Row
        /\ t \in known => Backed(CalcPerf(run, grade[t]), since[t], measured[t])
    <3>. HIDE DEF run
    <3>. QED BY <2>1, <2>2, <2>3, <2>4, CalcPerfType, CalcPerfBacked
  <2>6. new[t] \in {rows[t], CalcPerf(run, grade[t])}
    BY <1>1 DEF UpdateRows
  <2>. HIDE DEF run
  <2>. QED BY <2>1, <2>5, <2>6 DEF TableOK
<1>. QED BY <1>2, <1>3 DEF TableOK

-----------------------------------------------------------------------------
(* The invariant.                                                          *)

LEMMA InitInv == ASSUME TableInit PROVE IInv
<1>1. Enough({}) = {}
  BY DEF Enough
<1>. QED
  BY <1>1, PerfAssumption
  DEF TableInit, IInv, TableTypeOK, RowsHaveRecords, FilterIsKnown, DataIsRecent

LEMMA StepInv == ASSUME IInv, [TableNext]_tvars PROVE IInv'
<1>. USE DEF IInv
<1>0. TableOK(table)
  BY DEF TableTypeOK, DataIsRecent, TableOK
<1>1. ASSUME NEW t \in Tid, Start(t) PROVE IInv'
  <2>1. TableTypeOK'
    BY <1>1 DEF Start, TableTypeOK, loop
  <2>2. RowsHaveRecords' /\ FilterIsKnown'
    BY <1>1 DEF Start, loop, RowsHaveRecords, FilterIsKnown
  <2>3. Enough({}) = {}
    BY DEF Enough
  <2>4. DataIsRecent'
    BY <1>1, <2>3 DEF Start, loop, DataIsRecent, TableTypeOK, Backed
  <2>. QED BY <2>1, <2>2, <2>4
<1>2. ASSUME NEW t \in Tid, Exit(t) PROVE IInv'
  BY <1>2 DEF Exit, loop, history, TableTypeOK, RowsHaveRecords, FilterIsKnown, DataIsRecent, Backed
<1>3. ASSUME NEW s \in Sample, Sampled(s) PROVE IInv'
  BY <1>3 DEF Sampled, loop, history, TableTypeOK, RowsHaveRecords, FilterIsKnown, DataIsRecent, Backed
<1>4. CASE UpdateTree
  <2>1. PICK gone \in SUBSET (known \ {Root}) :
          known \ alive \subseteq gone /\ known' = (known \cup alive) \ gone
    BY <1>4 DEF UpdateTree
  <2>2. TableTypeOK' /\ RowsHaveRecords' /\ FilterIsKnown'
    BY <1>4, <2>1 DEF UpdateTree, history, TableTypeOK, RowsHaveRecords, FilterIsKnown
  <2>3. DOMAIN table \cap known' \subseteq DOMAIN table \cap known
    BY <1>4, <2>1 DEF UpdateTree, RowsHaveRecords
  <2>4. DataIsRecent'
    BY <1>4, <2>3 DEF UpdateTree, history, DataIsRecent, Backed
  <2>. QED BY <2>2, <2>4
<1>5. CASE ScanAborted
  <2>1. known \subseteq known' /\ known' \subseteq Tid
    BY <1>5 DEF ScanAborted, TableTypeOK
  <2>2. TableTypeOK' /\ RowsHaveRecords' /\ FilterIsKnown'
    BY <1>5, <2>1 DEF ScanAborted, history, TableTypeOK, RowsHaveRecords, FilterIsKnown
  <2>3. DOMAIN table \cap known' \subseteq DOMAIN table \cap known
    BY <1>5 DEF ScanAborted, RowsHaveRecords
  <2>4. DataIsRecent'
    BY <1>5, <2>3 DEF ScanAborted, history, DataIsRecent, Backed
  <2>. QED BY <2>2, <2>4
<1>6. CASE RemoveRows
  <2>1. /\ DOMAIN table' = DOMAIN table \cap known
        /\ \A t \in DOMAIN table' : table'[t] = table[t]
        /\ phase' \in {"balance", "add"}
    BY <1>6 DEF RemoveRows, RowsToRemove
  <2>. QED
    BY <1>6, <2>1
    DEF RemoveRows, history, TableTypeOK, RowsHaveRecords, FilterIsKnown, DataIsRecent, Backed
<1>7. ASSUME TableOK(table'), DOMAIN table' \subseteq known,
             UNCHANGED <<alive, known, filter, buffer, history>>,
             phase' \in {"add", "filter", "migrate"},
             phase' = "migrate" => filter \subseteq known
      PROVE  IInv'
  BY <1>7
  DEF history, TableTypeOK, RowsHaveRecords, FilterIsKnown, DataIsRecent, TableOK, Backed
<1>8. CASE Balance
  <2>1. PICK seen \in SUBSET known :
          table' \in {WithRows(table, seen)} \cup Updated(WithRows(table, seen))
    BY <1>8 DEF Balance
  <2>2. TableOK(WithRows(table, seen)) /\ DOMAIN WithRows(table, seen) \subseteq known
    BY <1>0, <1>8, WithRowsOK, ZenonT(60) DEF Balance, TableTypeOK, RowsHaveRecords
  <2>3. TableOK(table') /\ DOMAIN table' \subseteq known
    BY <2>1, <2>2, UpdatedOK
  <2>4. /\ phase' \in {"add", "migrate"}
        /\ phase' = "migrate" => filter \subseteq known
    BY <1>8 DEF Balance, FilterIsKnown
  <2>. QED BY <1>7, <1>8, <2>3, <2>4 DEF Balance
<1>9. CASE AddTids
  <2>1. TableOK(table') /\ DOMAIN table' \subseteq known
    BY <1>0, <1>9, WithRowsOK DEF AddTids, TableTypeOK, RowsHaveRecords
  <2>. QED BY <1>7, <1>9, <2>1 DEF AddTids
<1>10. CASE UpdateFilter
  BY <1>10
  DEF UpdateFilter, NewFilter, history, TableTypeOK, RowsHaveRecords, FilterIsKnown, DataIsRecent, Backed
<1>11. CASE SkipUpdate
  BY <1>11 DEF SkipUpdate, history, TableTypeOK, RowsHaveRecords, FilterIsKnown, DataIsRecent, Backed
<1>12. CASE SkipRead
  BY <1>12 DEF SkipRead, history, TableTypeOK, RowsHaveRecords, FilterIsKnown, DataIsRecent, Backed
<1>13. CASE SkipMigrate
  BY <1>13 DEF SkipMigrate, history, TableTypeOK, RowsHaveRecords, FilterIsKnown, DataIsRecent, Backed
<1>14. CASE ReadSamples
  <2>1. PICK taken \in SUBSET {s \in buffer : s.tid \in filter} :
          LET rows == WithRows(table, {s.tid : s \in taken})
          IN /\ table' = [t \in DOMAIN rows |-> AddData(rows[t], Of(taken, t))]
             /\ since' = [t \in Tid |-> Recent(taken, t)]
             /\ measured' = [t \in Tid |-> measured[t] \cup Enough(Recent(taken, t))]
    BY <1>14 DEF ReadSamples
  <2>. DEFINE rows == WithRows(table, {s.tid : s \in taken})
  <2>2. {s.tid : s \in taken} \subseteq known /\ {s.tid : s \in taken} \subseteq Tid
    BY <1>14, <2>1 DEF ReadSamples, FilterIsKnown, TableTypeOK
  <2>3. TableOK(rows) /\ DOMAIN rows \subseteq known
    <3>. DEFINE tids == {s.tid : s \in taken}
    <3>1. tids \in SUBSET Tid /\ tids \subseteq known
      BY <2>2
    <3>. HIDE DEF tids
    <3>2. TableOK(WithRows(table, tids)) /\ DOMAIN WithRows(table, tids) = DOMAIN table \cup tids
      BY <1>0, <3>1, WithRowsOK
    <3>3. DOMAIN table \subseteq known
      BY <1>14 DEF ReadSamples, RowsHaveRecords
    <3>. QED BY <3>1, <3>2, <3>3 DEF tids
  <2>4. \A t \in Tid : Of(taken, t) \subseteq Kinds \X Nodes
    BY <2>1 DEF TableTypeOK, Sample, Of
  <2>. HIDE DEF rows
  <2>5. /\ DOMAIN table' = DOMAIN rows
        /\ \A t \in DOMAIN rows : table'[t] = AddData(rows[t], Of(taken, t))
    BY <2>1 DEF rows
  <2>6. \A t \in Tid : /\ since'[t] = since[t] \cup (Of(taken, t) \cap (Counted \X Nodes))
                       /\ measured'[t] = measured[t] \cup Enough(since'[t])
    BY <2>1 DEF Recent
  <2>7. ASSUME NEW t \in DOMAIN rows
        PROVE  table'[t] \in Row /\ (t \in known => Backed(table'[t], since'[t], measured'[t]))
    <3>1. t \in Tid /\ rows[t] \in Row /\ (t \in known => Backed(rows[t], since[t], measured[t]))
      BY <2>3 DEF TableOK
    <3>2. measured[t] \subseteq measured'[t]
      BY <2>6, <3>1
    <3>. QED BY <2>4, <2>5, <2>6, <3>1, <3>2, AddDataType, AddDataBacked
  <2>8. since' \in [Tid -> SUBSET (Counted \X Nodes)]
    BY <2>1 DEF TableTypeOK, Recent
  <2>9. measured' \in [Tid -> SUBSET Nodes]
    <3>1. \A t \in Tid : Enough(Recent(taken, t)) \subseteq Nodes
      BY DEF Enough
    <3>. QED BY <2>1, <3>1 DEF TableTypeOK
  <2>10. TableTypeOK'
    BY <1>14, <2>3, <2>5, <2>7, <2>8, <2>9 DEF ReadSamples, TableTypeOK, TableOK
  <2>11. RowsHaveRecords' /\ FilterIsKnown'
    BY <1>14, <2>3, <2>5 DEF ReadSamples, RowsHaveRecords, FilterIsKnown
  <2>12. DataIsRecent'
    BY <1>14, <2>5, <2>6, <2>7 DEF ReadSamples, DataIsRecent
  <2>. QED BY <2>10, <2>11, <2>12
<1>15. CASE Migrate
  <2>1. PICK rows \in {table} \cup Updated(table), taken \in SUBSET known :
          table' = [t \in (DOMAIN rows \cup taken) \cap known |-> Cleared(WithRows(rows, taken)[t])]
    BY <1>15 DEF Migrate
  <2>2. TableOK(rows)
    BY <1>0, <2>1, UpdatedOK
  <2>. DEFINE all == WithRows(rows, taken)
  <2>3. TableOK(all) /\ DOMAIN all = DOMAIN rows \cup taken
    BY <2>1, <2>2, WithRowsOK DEF TableTypeOK
  <2>. HIDE DEF all
  <2>4. DOMAIN table' = DOMAIN all \cap known /\ \A t \in DOMAIN table' : table'[t] = Cleared(all[t])
    BY <2>1, <2>3 DEF all
  <2>5. \A t \in DOMAIN table' : /\ t \in Tid
                                 /\ table'[t] \in Row
                                 /\ Backed(table'[t], {}, measured[t])
    BY <2>3, <2>4, ClearedType, ClearedBacked DEF TableOK
  <2>6. since' = [t \in Tid |-> {}] /\ measured' = measured /\ known' = known
    BY <1>15 DEF Migrate
  <2>7. TableTypeOK'
    BY <1>15, <2>5, <2>6 DEF Migrate, TableTypeOK
  <2>8. RowsHaveRecords' /\ FilterIsKnown'
    BY <1>15, <2>4 DEF Migrate, RowsHaveRecords, FilterIsKnown
  <2>9. DataIsRecent'
    <3>1. Enough({}) = {}
      BY DEF Enough
    <3>. QED BY <2>5, <2>6, <3>1 DEF DataIsRecent
  <2>. QED BY <2>7, <2>8, <2>9
<1>16. CASE UNCHANGED tvars
  BY <1>16
  DEF tvars, loop, history, TableTypeOK, RowsHaveRecords, FilterIsKnown, DataIsRecent, Backed
<1>. QED
  BY <1>1, <1>2, <1>3, <1>4, <1>5, <1>6, <1>8, <1>9, <1>10, <1>11, <1>12, <1>13, <1>14, <1>15, <1>16
  DEF TableNext, Program, Tool

LEMMA Inductive == TableSpec => []IInv
<1>. QED BY InitInv, StepInv, PTL DEF TableSpec

\* The types of the rows, the buffers and the lists, as the loop updates them.
THEOREM TableTypeCorrect == TableSpec => []TableTypeOK
<1>1. IInv => TableTypeOK
  BY DEF IInv
<1>. QED BY <1>1, Inductive, PTL

\* Every row that an update looks at is of a thread with a record.
THEOREM RowsInTree == TableSpec => []RowsHaveRecords
<1>1. IInv => RowsHaveRecords
  BY DEF IInv
<1>. QED BY <1>1, Inductive, PTL

\* Every performance rests on samples of its thread on its node.
THEOREM PerfsMeasured == TableSpec => []MeasuredThere
<1>1. IInv => MeasuredThere
  BY DEF IInv, RowsHaveRecords, DataIsRecent, MeasuredThere, Backed
<1>. QED BY <1>1, Inductive, PTL
=============================================================================
