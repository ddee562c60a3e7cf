--------------------------- MODULE ReadersWriter ---------------------------
(***************************************************************************)
(* What GameLock.h promises to the code that reads game memory: at any     *)
(* moment either any number of threads may read, or exactly one thread may *)
(* change game memory and nobody else reads.  A thread never turns one     *)
(* right into the other: it always gives the first one back before.        *)
(***************************************************************************)

CONSTANT Threads

VARIABLE access     \* what each thread may do with game memory

Rights == {"none", "read", "write"}

Compatible(a) ==
  \A t, u \in Threads : t # u /\ a[t] = "write" => a[u] = "none"

Init == access = [t \in Threads |-> "none"]

Grant(t, right) ==
  /\ access[t] = "none"
  /\ access' = [access EXCEPT ![t] = right]
  /\ Compatible(access')

Withdraw(t) ==
  /\ access' = [access EXCEPT ![t] = "none"]

Next == \E t \in Threads : Withdraw(t) \/ \E right \in Rights : Grant(t, right)

Spec == Init /\ [][Next]_access
=============================================================================
