------------------------------ MODULE GroupBy ------------------------------
(* What making a view promises: one step, which gives the group-by of the   *)
(* rows with its checksum, or fails.                                        *)
EXTENDS Views

VARIABLES rows, answer

gvars == <<rows, answer>>

Pending == [state |-> "pending", view |-> <<>>, checksum |-> 0]
Failed == [state |-> "failed", view |-> <<>>, checksum |-> 0]

GInit == answer = Pending

Answer ==
  /\ answer = Pending
  /\ answer' = [state |-> "done", view |-> GroupBy(rows), checksum |-> Checksum(GroupBy(rows))]
  /\ UNCHANGED rows

Fail ==
  /\ answer = Pending
  /\ answer' = Failed
  /\ UNCHANGED rows

GSpec == GInit /\ [][Answer \/ Fail]_gvars
=============================================================================
