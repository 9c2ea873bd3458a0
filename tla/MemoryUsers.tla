---------------------------- MODULE MemoryUsers -----------------------------
(* Memory with a history: of each page, the accesses that were counted since *)
(* it last led a cell, by the node of the CPU that made them.               *)
EXTENDS MCMemory

VARIABLE users

UsersInit == Init /\ users = [p \in Pages |-> [n \in Nodes |-> 0]]

UsersNext ==
  /\ Next
  /\ users' = [p \in Pages |->
       IF since'[p] > since[p] THEN [users[p] EXCEPT ![NodeOf[Head(batch).tid]] = @ + 1]
       ELSE IF since'[p] < since[p] THEN [n \in Nodes |-> 0] ELSE users[p]]

UsersSpec == UsersInit /\ [][UsersNext]_<<vars, users>>

(* A page that is migrated goes to the node that makes more accesses to it. *)
GoesToFavourite ==
  [][\A c \in cells' \ cells, n \in Nodes : users[c.head][n] <= users[c.head][c.dst]]_<<vars, users>>

=============================================================================
