----------------------------- MODULE SolverLoop -----------------------------
(***************************************************************************)
(* The iterations of the steady state solver on every rank, as far as they *)
(* do not depend on the communicator: SteadyStateSolver and the loop of    *)
(* SweepSolver.  SweepSolver and BlockJacobi add the operations of the two *)
(* communicators and put MPI underneath.                                   *)
(*                                                                         *)
(* One iteration of a rank:                                                *)
(*   start    compute the right-hand side (local), zero all planes         *)
(*   add      add every local subdomain to the work queue                  *)
(*   post     first workRemaining of block Jacobi: send the old planes     *)
(*   loop     while (workRemaining())                                      *)
(*   test     readySubdomains(): testRecieves, then getReadyList           *)
(*   work     sweep the ready list; active is between its sweep and its    *)
(*            markComplete                                                 *)
(*   flush    in waitAllSends, no work left                                *)
(*   reduce   in the allReduce of the particle count                       *)
(***************************************************************************)
EXTENDS ParallelComm

CONSTANT NumIter    \* --niter

ASSUME NumIterAssumption == NumIter \in Nat \ {0}

VARIABLES
  pc,      \* where each rank is
  iter,    \* loop counter of SteadyStateSolver
  ready,   \* what is left of the list sdom_ready
  active   \* the subdomain swept and not yet marked complete, or NoSdom

rankVars == <<pc, iter, ready, active>>

vars == <<commVars, rankVars>>

LoopInit ==
  /\ pc = [r \in Rank |-> "start"]
  /\ iter = [r \in Rank |-> 0]
  /\ ready = [r \in Rank |-> {}]
  /\ active = [r \in Rank |-> NoSdom]

Goto(r, label) == pc' = [pc EXCEPT ![r] = label]

(* Mutant: the planes of the last sweep are not cleared.                   *)
StartSweep_KeepPlanes(r) ==
  /\ pc[r] = "start"
  /\ Goto(r, "add")
  /\ UNCHANGED <<commVars, iter, ready, active>>

(* Nothing before the sweep communicates; the sweep starts from planes     *)
(* that are zero.                                                          *)
StartSweep(r) ==
  /\ pc[r] = "start"
  /\ plane' = [s \in Sdom |-> IF owner[s] = r THEN [d \in Dim |-> Vacuum] ELSE plane[s]]
  /\ Goto(r, "add")
  /\ UNCHANGED <<queue, depends, recv, send, chan, iter, ready, active>>

Loop(r) ==
  /\ pc[r] = "loop"
  /\ Goto(r, IF WorkRemaining(r) THEN "test" ELSE "flush")
  /\ UNCHANGED <<commVars, iter, ready, active>>

TestRecieves(r, s, d) ==
  /\ pc[r] = "test"
  /\ s \in Owned(r)
  /\ TestReceive(s, d)
  /\ UNCHANGED rankVars

ReadySubdomains(r) ==
  /\ pc[r] = "test"
  /\ NothingReceived(r)
  /\ ready' = [ready EXCEPT ![r] = ReadyList(r)]
  /\ Goto(r, IF ReadyList(r) = {} THEN "loop" ELSE "work")
  /\ UNCHANGED <<commVars, iter, active>>

(* The planes a sweep of s reads: the stored ones, cleared at the mesh     *)
(* boundary.                                                               *)
Incoming(s) == [d \in Dim |-> IF HasUpwind(s, d) THEN plane[s][d] ELSE Vacuum]

(* Mutant: the i plane keeps what flowed in.                               *)
SweepSubdomain_NoIPlane(r, s) ==
  /\ pc[r] = "work"
  /\ active[r] = NoSdom
  /\ s \in ready[r]
  /\ plane' = [plane EXCEPT ![s] =
                 [d \in Dim |-> IF d = 0 THEN @[d] ELSE Flux(s, d, iter[r])]]
  /\ ready' = [ready EXCEPT ![r] = @ \ {s}]
  /\ active' = [active EXCEPT ![r] = s]
  /\ UNCHANGED <<queue, depends, recv, send, chan, pc, iter>>

(* The sweep kernel replaces the incoming planes by the outgoing ones.     *)
SweepSubdomain(r, s) ==
  /\ pc[r] = "work"
  /\ active[r] = NoSdom
  /\ s \in ready[r]
  /\ plane' = [plane EXCEPT ![s] = [d \in Dim |-> Flux(s, d, iter[r])]]
  /\ ready' = [ready EXCEPT ![r] = @ \ {s}]
  /\ active' = [active EXCEPT ![r] = s]
  /\ UNCHANGED <<queue, depends, recv, send, chan, pc, iter>>

Flush(r) ==
  /\ pc[r] = "flush"
  /\ WaitAllSends(r)
  /\ Goto(r, "reduce")
  /\ UNCHANGED <<iter, ready, active>>

(* Mutant: a rank does not wait for the others.                            *)
AllEntered_NoWait(r) == TRUE

(* The allReduce returns when every rank has entered it.                   *)
AllEntered(r) ==
  \A q \in Rank : iter[q] > iter[r] \/ (iter[q] = iter[r] /\ pc[q] = "reduce")

FinishIteration(r) ==
  /\ pc[r] = "reduce"
  /\ AllEntered(r)
  /\ iter' = [iter EXCEPT ![r] = @ + 1]
  /\ Goto(r, IF iter[r] + 1 < NumIter THEN "start" ELSE "done")
  /\ UNCHANGED <<commVars, ready, active>>

-----------------------------------------------------------------------------
(* Properties of either communicator.                                      *)

(* s was marked complete in the current iteration of its rank.             *)
Completed(s) ==
  \/ pc[owner[s]] \in {"flush", "reduce"}
  \/ pc[owner[s]] \in {"loop", "test", "work"} /\ s \notin queue

(* The ready list is a snapshot that stays valid while it is walked: its   *)
(* subdomains are still queued (findSubdomain never aborts), none of them  *)
(* is the one being completed, and no dependency count goes negative.      *)
ReadyListValid ==
  /\ \A r \in Rank :
       /\ ready[r] \subseteq ReadyList(r)
       /\ active[r] # NoSdom => active[r] \in ReadyList(r) \ ready[r]
  /\ \A s \in queue : depends[s] >= 0

(* MPI holds at most one message per source rank and subdomain that no     *)
(* receive has taken: eager buffering does not grow with the iterations.   *)
OneMessagePerEnvelope ==
  \A r \in Rank, t \in Sdom : Len(chan[r][t]) <= 1

(* When workRemaining returns false all work is done and all sends have    *)
(* completed (ParallelComm.h), so the communicator may be destroyed.       *)
NothingPendingAfterSweep ==
  \A r \in Rank : pc[r] \in {"reduce", "start", "done"} =>
    /\ ~ WorkRemaining(r)
    /\ \A s \in Owned(r) : \A d \in Dim : send[s][d] = "none"
    /\ \A t \in Sdom : \A i \in DOMAIN chan[r][t] : chan[r][t][i].buffered

(* Some message still reads the plane of s in dimension d.                 *)
BeingSent(s, d) ==
  \E t \in Sdom : \E i \in DOMAIN chan[owner[s]][t] :
    LET m == chan[owner[s]][t][i] IN m.from = s /\ m.dim = d /\ ~ m.buffered

(* How often each subdomain was swept, from the program's own state.       *)
Swept == [s \in Sdom |->
  iter[owner[s]] + (IF Completed(s) \/ active[owner[s]] = s THEN 1 ELSE 0)]

(* The solve ends: no rank waits forever for a message, a dependency, a    *)
(* send or the reduction.                                                  *)
Termination == <>(\A r \in Rank : pc[r] = "done")

-----------------------------------------------------------------------------
(* Parts of the inductive invariants of the two communicators.             *)

(* The message for dimension d of t was matched in this iteration of t.    *)
Taken(t, d) ==
  \/ Completed(t)
  \/ t \in queue /\ recv[t][d] # "posted"

(* Planes t has taken from the network so far.                             *)
Received(t, d) == iter[owner[t]] + (IF Taken(t, d) THEN 1 ELSE 0)

(* A rank is at most one iteration ahead, and then the other one is in the *)
(* reduction that ends the iteration.                                      *)
BarrierInv ==
  /\ \A q, r \in Rank :
       iter[q] <= iter[r] \/ (iter[q] = iter[r] + 1 /\ pc[r] = "reduce")
  /\ \A r \in Rank : iter[r] = NumIter <=> pc[r] = "done"

=============================================================================
