---------------------------- MODULE MCLifecycle ----------------------------
(* The life cycle, the timing of the main loop or the table of performances, *)
(* as is chosen at the start: the others have ended.                         *)
EXTENDS Lifecycle, MainLoop, PerfTable

LifeIsOver ==
  /\ child = "ended" /\ helper = "none" /\ pending = [s \in Signal |-> "none"] /\ sent = MaxUserSignals
  /\ childProcess = TRUE /\ listed = TRUE /\ fds = [b \in Buffer |-> "freed"]
  /\ main = "exited" /\ todo = {} /\ frames = <<>>

LoopIsOver ==
  /\ asked = DefaultPeriod /\ period = DefaultPeriod /\ charts = {} /\ migrates = {}
  /\ update_mem = FALSE /\ fake_thp = FALSE /\ options = 0 /\ iter = 1
  /\ at = "exit" /\ age = [t \in Task |-> 0] /\ spent = 0 /\ speed = 1
  /\ slow = 0 /\ lost = 0 /\ delay = 0 /\ throws = 0

TableIsOver ==
  /\ alive = {} /\ known = Tid /\ filter = {} /\ buffer = {} /\ table = [t \in {} |-> NewRow]
  /\ phase = "over" /\ since = [t \in Tid |-> {}] /\ measured = [t \in Tid |-> {}]

MCInit ==
  \/ Init /\ LoopIsOver /\ TableIsOver
  \/ LoopInit /\ LifeIsOver /\ TableIsOver
  \/ TableInit /\ LifeIsOver /\ LoopIsOver

MCNext ==
  \/ Next /\ UNCHANGED <<lvars, tvars>>
  \/ LoopNext /\ UNCHANGED <<vars, tvars>>
  \/ TableNext /\ UNCHANGED <<vars, lvars>>

MCSpec == MCInit /\ [][MCNext]_<<vars, lvars, tvars>> /\ Fairness
=============================================================================
