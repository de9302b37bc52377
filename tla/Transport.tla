----------------------------- MODULE Transport ------------------------------
(***************************************************************************)
(* What the parallel sweeps of a steady state solve promise: in every      *)
(* iteration each subdomain is swept exactly once, after all its upwind    *)
(* neighbours were swept in that same iteration, and an iteration starts   *)
(* when the previous one is finished everywhere.                           *)
(***************************************************************************)
EXTENDS Integers

CONSTANTS Sdom, NoSdom, upwind, NumIter

VARIABLE swept    \* how many times each subdomain was swept

Init == swept = [s \in Sdom |-> 0]

Sweep(s) ==
  /\ swept[s] < NumIter
  /\ \A t \in Sdom : swept[t] >= swept[s]
  /\ \A d \in 0 .. 2 : upwind[s][d] # NoSdom => swept[upwind[s][d]] = swept[s] + 1
  /\ swept' = [swept EXCEPT ![s] = @ + 1]

Next == \E s \in Sdom : Sweep(s)

Spec == Init /\ [][Next]_swept

=============================================================================
