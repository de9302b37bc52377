---------------------------- MODULE SweepSolver -----------------------------
(***************************************************************************)
(* Iterations of the steady state solver with the full parallel sweep      *)
(* (SweepSolver over a SweepComm), on every rank, with MPI underneath.     *)
(* The send buffers are the planes themselves; a subdomain becomes ready   *)
(* when its upwind neighbours are complete and their planes are here.      *)
(***************************************************************************)
EXTENDS SolverLoop

TypeOK ==
  /\ CommTypeOK
  /\ pc \in [Rank -> {"start", "add", "loop", "test", "work", "flush", "reduce", "done"}]
  /\ iter \in [Rank -> 0 .. NumIter]
  /\ ready \in [Rank -> SUBSET Sdom]
  /\ active \in [Rank -> Sdom \cup {NoSdom}]

Init == CommInit /\ LoopInit

-----------------------------------------------------------------------------
(* Steps of a rank.                                                        *)

(* The order in which the list names the subdomains does not matter here.  *)
AddSubdomain(r, s) ==
  /\ pc[r] = "add"
  /\ s \in Owned(r) \ queue
  /\ PostRecvs(s)
  /\ IF Owned(r) \subseteq queue \cup {s} THEN Goto(r, "loop") ELSE UNCHANGED pc
  /\ UNCHANGED <<iter, ready, active>>

MarkComplete(r) ==
  /\ pc[r] = "work"
  /\ active[r] \in queue
  /\ queue' = queue \ {active[r]}
  /\ PostSends(active[r], plane, queue \ {active[r]})
  /\ active' = [active EXCEPT ![r] = NoSdom]
  /\ IF ready[r] = {} THEN Goto(r, "loop") ELSE UNCHANGED pc
  /\ UNCHANGED <<recv, iter, ready>>

RankStep(r) ==
  \/ StartSweep(r)
  \/ \E s \in Sdom : AddSubdomain(r, s)
  \/ Loop(r)
  \/ \E s \in Sdom, d \in Dim : TestRecieves(r, s, d)
  \/ ReadySubdomains(r)
  \/ \E s \in Sdom : SweepSubdomain(r, s)
  \/ MarkComplete(r)
  \/ Flush(r)
  \/ FinishIteration(r)

-----------------------------------------------------------------------------
(* Steps of MPI.  The send buffers are the planes themselves.              *)

BufferSend(r, t) == Buffer(plane, r, t) /\ UNCHANGED rankVars

Deliver(r, t, d) == Match(plane, r, t, d) /\ UNCHANGED rankVars

AllDone == (\A r \in Rank : pc[r] = "done") /\ UNCHANGED vars

Next ==
  \/ \E r \in Rank : RankStep(r)
  \/ \E r \in Rank, t \in Sdom : BufferSend(r, t)
  \/ \E r \in Rank, t \in Sdom, d \in Dim : Deliver(r, t, d)
  \/ AllDone

Spec == Init /\ [][Next]_vars

(* Every rank keeps running, and MPI transfers a message whose send and    *)
(* receive are both posted.  MPI need never buffer.                        *)
Fairness ==
  /\ \A r \in Rank : WF_vars(RankStep(r))
  /\ \A r \in Rank, t \in Sdom : WF_vars(\E d \in Dim : Deliver(r, t, d))

FairSpec == Spec /\ Fairness

-----------------------------------------------------------------------------
(* Properties.                                                             *)

(* What dimension d of subdomain s holds when it may be swept.             *)
Expected(s, d) ==
  IF HasUpwind(s, d) THEN Flux(upwind[s][d], d, iter[owner[s]]) ELSE Vacuum

(* A subdomain on the ready list reads, in every dimension, the flux its   *)
(* upwind neighbour produced in this iteration: neither a stale plane of   *)
(* an earlier sweep nor one that is still being received.                  *)
ReadyHasInputs ==
  \A r \in Rank : \A s \in ready[r] : \A d \in Dim :
    /\ Incoming(s)[d] = Expected(s, d)
    /\ recv[s][d] = "none"

(* A receive is only ever matched with the message meant for it: all       *)
(* planes sent to a subdomain carry the same tag, and messages of the next *)
(* iteration may already be under way.                                     *)
MatchedAsMeant ==
  \A r \in Rank, t \in Sdom, d \in Dim :
    chan[r][t] # << >> /\ FirstPosted(r, t, d) =>
      LET m == Head(chan[r][t])
      IN  m.from = upwind[t][d] /\ m.dim = d /\ Payload(m, plane) = Expected(t, d)

(* A plane handed to MPI belongs to MPI: it does not change while a        *)
(* message still has to be read from it, and while a receive into it is    *)
(* posted only the arrival of the message writes it.                       *)
BuffersBelongToMPI ==
  [][\A s \in Sdom, d \in Dim : plane'[s][d] # plane[s][d] =>
       /\ ~ BeingSent(s, d)
       /\ recv[s][d] = "posted" => recv'[s][d] = "complete"]_vars

Sweeps == INSTANCE Transport WITH swept <- Swept

(* The solver implements the abstract transport sweep: once per iteration, *)
(* in upwind order, no subdomain an iteration ahead of another.            *)
SweepsInOrder == Sweeps!Spec

-----------------------------------------------------------------------------
(* The inductive invariant.                                                *)

(* Planes u has sent through a dimension so far.                           *)
Sent(u) == iter[owner[u]] + (IF Completed(u) THEN 1 ELSE 0)

(* The dependencies queue_depends counts.                                  *)
Pending(t, d) ==
  /\ HasUpwind(t, d)
  /\ IF RemoteUpwind(t, d) THEN recv[t][d] # "none" ELSE ~ Completed(upwind[t][d])

(* The plane of dimension d of t has its value for this iteration.         *)
Arrived(t, d) ==
  /\ HasUpwind(t, d)
  /\ IF RemoteUpwind(t, d) THEN recv[t][d] # "posted" ELSE Completed(upwind[t][d])

(* The queue and the requests are empty outside the loop they belong to.   *)
PhaseInv ==
  /\ \A s \in queue : pc[owner[s]] \in {"add", "loop", "test", "work"}
  /\ \A s \in Sdom, d \in Dim : recv[s][d] # "none" => s \in queue /\ RemoteUpwind(s, d)
  /\ \A s \in Sdom, d \in Dim : send[s][d] # "none" =>
       Completed(s) /\ pc[owner[s]] # "reduce"
  /\ \A r \in Rank : pc[r] # "work" => ready[r] = {} /\ active[r] = NoSdom

(* queue_depends is exact, and local completion respects the upwind order. *)
DependsInv ==
  /\ \A t \in queue : depends[t] = Count({d \in Dim : Pending(t, d)})
  /\ \A t \in Sdom, d \in Dim :
       Completed(t) /\ HasUpwind(t, d) /\ ~ RemoteUpwind(t, d) => Completed(upwind[t][d])

(* Planes hold incoming fluxes until the sweep and outgoing ones after it. *)
PlaneInv ==
  /\ \A t \in queue, d \in Dim :
       active[owner[t]] # t /\ Arrived(t, d) =>
         plane[t][d] = Flux(upwind[t][d], d, iter[owner[t]])
  /\ \A s \in Sdom, d \in Dim :
       Completed(s) \/ active[owner[s]] = s => plane[s][d] = Flux(s, d, iter[owner[s]])

(* m carries the n-th flux of s through d (or is about to read it).        *)
Carries(m, s, d, n) ==
  /\ m.from = s
  /\ m.dim = d
  /\ IF m.buffered THEN m.data = Flux(s, d, n) ELSE send[s][d] = "posted"

(* The channel that feeds dimension d of t holds the one plane that was    *)
(* sent and not yet taken, if any.                                         *)
ChannelOK(t, d) ==
  LET u == upwind[t][d]
      c == chan[owner[u]][t]
  IN  \/ Sent(u) = Received(t, d) /\ c = << >>
      \/ /\ Sent(u) = Received(t, d) + 1
         /\ Len(c) = 1
         /\ Carries(c[1], u, d, Received(t, d))

ChannelInv ==
  /\ \A t \in Sdom, d \in Dim : RemoteUpwind(t, d) => ChannelOK(t, d)
  /\ \A r \in Rank, t \in Sdom :
       (\A d \in Dim : RemoteUpwind(t, d) => owner[upwind[t][d]] # r) => chan[r][t] = << >>

IndInv ==
  TypeOK /\ PhaseInv /\ BarrierInv /\ DependsInv /\ PlaneInv /\ ReadyListValid /\ ChannelInv

=============================================================================
