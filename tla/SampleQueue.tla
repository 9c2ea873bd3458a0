----------------------------- MODULE SampleQueue -----------------------------
(***************************************************************************)
(* What a sampling buffer promises: the records the kernel puts into it    *)
(* come out in their order, each at most once.  Records may be lost, but   *)
(* only from the front: what comes later is not delivered before them.     *)
(* A record has the position `at' of its first byte; `got' is the position *)
(* behind the last one that was delivered.                                 *)
(***************************************************************************)
EXTENDS Naturals

VARIABLES queue, got

IsFirst(r) == r \in queue /\ \A s \in queue : s = r \/ r.at < s.at

Init == queue = {} /\ got = 0

Put ==
  \E r \in queue' \ queue :
    /\ queue' = queue \cup {r}
    /\ r.at >= got /\ \A s \in queue : s.at < r.at
    /\ UNCHANGED got

Deliver ==
  \E r \in queue :
    /\ IsFirst(r) /\ r.at >= got
    /\ queue' = queue \ {r}
    /\ got' > r.at /\ \A s \in queue' : s.at >= got'

Lose ==
  /\ queue' \subseteq queue
  /\ \A r \in queue \ queue', s \in queue' : r.at < s.at
  /\ UNCHANGED got

\* The buffer is freed and another one mapped.
Reset == queue' = {} /\ got' = 0

Next == Put \/ Deliver \/ Lose \/ Reset

Spec == Init /\ [][Next]_<<queue, got>>
=============================================================================
