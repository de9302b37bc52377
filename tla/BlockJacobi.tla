---------------------------- MODULE BlockJacobi -----------------------------
(***************************************************************************)
(* Iterations of the steady state solver with the block Jacobi             *)
(* communicator (SweepSolver over a BlockJacobiComm), on every rank, with  *)
(* MPI underneath.                                                         *)
(*                                                                         *)
(* The planes are copied to send buffers, old, while subdomains are added, *)
(* and sent when workRemaining is called for the first time.               *)
(***************************************************************************)
EXTENDS SolverLoop

VARIABLES
  old,     \* old_i_plane, old_j_plane, old_k_plane
  unsent   \* subdomains the first workRemaining has still to send

bjVars == <<vars, old, unsent>>

(* The contents of a field that was allocated and not written.             *)
Garbage == Flux(NoSdom, 1, 0)

TypeOK ==
  /\ CommTypeOK
  /\ pc \in [Rank -> {"start", "add", "post", "loop", "test", "work",
                      "flush", "reduce", "done"}]
  /\ iter \in [Rank -> 0 .. NumIter]
  /\ ready \in [Rank -> SUBSET Sdom]
  /\ active \in [Rank -> Sdom \cup {NoSdom}]
  /\ old \in [Sdom -> [Dim -> FluxSet]]
  /\ unsent \in [Rank -> SUBSET Sdom]

Init ==
  /\ CommInit
  /\ LoopInit
  /\ old = [s \in Sdom |-> [d \in Dim |-> Garbage]]
  /\ unsent = [r \in Rank |-> {}]

-----------------------------------------------------------------------------
(* Steps of a rank.                                                        *)

(* The constructor allocates the old planes.                               *)
StartJacobi(r) ==
  /\ StartSweep(r)
  /\ old' = [s \in Sdom |-> IF owner[s] = r THEN [d \in Dim |-> Garbage] ELSE old[s]]
  /\ UNCHANGED unsent

(* kCopy copies the planes of all local subdomains, whichever is added:    *)
(* from the second one on also planes a receive is posted for.             *)
CopyPlanes(r) ==
  old' = [s \in Sdom |-> IF owner[s] = r THEN plane[s] ELSE old[s]]

AddSubdomain(r, s) ==
  /\ pc[r] = "add"
  /\ s \in Owned(r) \ queue
  /\ CopyPlanes(r)
  /\ PostRecvs(s)
  /\ IF Owned(r) \subseteq queue \cup {s}
       THEN Goto(r, "post") /\ unsent' = [unsent EXCEPT ![r] = Owned(r)]
       ELSE UNCHANGED <<pc, unsent>>
  /\ UNCHANGED <<iter, ready, active>>

(* One pass of the loop in the first workRemaining.                        *)
PostSend(r, s) ==
  /\ pc[r] = "post"
  /\ s \in unsent[r]
  /\ PostSends(s, old, queue)
  /\ unsent' = [unsent EXCEPT ![r] = @ \ {s}]
  /\ IF unsent[r] = {s} THEN Goto(r, "loop") ELSE UNCHANGED pc
  /\ UNCHANGED <<queue, recv, iter, ready, active, old>>

MarkComplete(r) ==
  /\ pc[r] = "work"
  /\ active[r] \in queue
  /\ queue' = queue \ {active[r]}
  /\ active' = [active EXCEPT ![r] = NoSdom]
  /\ IF ready[r] = {} THEN Goto(r, "loop") ELSE UNCHANGED pc
  /\ UNCHANGED <<depends, recv, send, plane, chan, iter, ready, old, unsent>>

(* The steps shared with the full sweep; the destructor of the             *)
(* communicator frees the old planes after the last of them.               *)
LoopStep(r) ==
  /\ \/ Loop(r)
     \/ \E s \in Sdom, d \in Dim : TestRecieves(r, s, d)
     \/ ReadySubdomains(r)
     \/ \E s \in Sdom : SweepSubdomain(r, s)
     \/ Flush(r)
     \/ FinishIteration(r)
  /\ UNCHANGED <<old, unsent>>

RankStep(r) ==
  \/ StartJacobi(r)
  \/ \E s \in Sdom : AddSubdomain(r, s)
  \/ \E s \in Sdom : PostSend(r, s)
  \/ MarkComplete(r)
  \/ LoopStep(r)

-----------------------------------------------------------------------------
(* Steps of MPI.  The send buffers are the old planes.                     *)

BufferSend(r, t) == Buffer(old, r, t) /\ UNCHANGED <<rankVars, old, unsent>>

Deliver(r, t, d) == Match(old, r, t, d) /\ UNCHANGED <<rankVars, old, unsent>>

AllDone == (\A r \in Rank : pc[r] = "done") /\ UNCHANGED bjVars

Next ==
  \/ \E r \in Rank : RankStep(r)
  \/ \E r \in Rank, t \in Sdom : BufferSend(r, t)
  \/ \E r \in Rank, t \in Sdom, d \in Dim : Deliver(r, t, d)
  \/ AllDone

Spec == Init /\ [][Next]_bjVars

(* As for the full sweep.                                                  *)
Fairness ==
  /\ \A r \in Rank : WF_bjVars(RankStep(r))
  /\ \A r \in Rank, t \in Sdom : WF_bjVars(\E d \in Dim : Deliver(r, t, d))

FairSpec == Spec /\ Fairness

-----------------------------------------------------------------------------
(* Properties.                                                             *)

(* What is sent does not depend on how far MPI is with the receives the    *)
(* copies race with, and is never uninitialised: all planes involved are   *)
(* the zeros SweepSolver starts from.                                      *)
CopiesAreSettled ==
  \A r \in Rank : pc[r] \in {"post", "loop", "test", "work", "flush"} =>
    \A s \in Owned(r) : \A d \in Dim : old[s][d] = Vacuum

(* A subdomain on the ready list has all its boundary planes: no receive   *)
(* and no local copy into them is outstanding, and they hold zeros.        *)
ReadyIsSettled ==
  \A r \in Rank : \A s \in ready[r] : \A d \in Dim :
    /\ recv[s][d] = "none"
    /\ plane[s][d] = Vacuum
    /\ RemoteUpwind(s, d) => chan[owner[upwind[s][d]]][s] = << >>

(* Buffers handed to MPI: an old plane does not change while a message     *)
(* still reads it, nor a plane while a receive into it is posted, except   *)
(* by the arrival of the message.                                          *)
BuffersBelongToMPI ==
  [][\A s \in Sdom, d \in Dim :
       /\ old'[s][d] # old[s][d] => ~ BeingSent(s, d)
       /\ plane'[s][d] # plane[s][d] /\ recv[s][d] = "posted" =>
            recv'[s][d] = "complete"]_bjVars

Independent == [s \in Sdom |-> [d \in Dim |-> NoSdom]]

Sweeps == INSTANCE Transport WITH swept <- Swept, upwind <- Independent

(* Every subdomain is swept exactly once per iteration, in any order, no   *)
(* subdomain an iteration ahead of another.                                *)
OncePerIteration == Sweeps!Spec

(* Block Jacobi as its comments describe it: "Copy old flux data to send   *)
(* buffers", "we communicate fluxes before local sweeps".  A subdomain     *)
(* sweeps with the flux its upwind neighbours had at the end of the        *)
(* previous iteration.                                                     *)
UsesOldFlux ==
  \A r \in Rank : iter[r] > 0 =>
    \A s \in ready[r] : \A d \in Dim :
      HasUpwind(s, d) => plane[s][d] = Flux(upwind[s][d], d, iter[r] - 1)

-----------------------------------------------------------------------------
(* The inductive invariant.                                                *)

(* The first workRemaining of this iteration has sent the planes of s.     *)
HasSent(s) ==
  \/ pc[owner[s]] = "post" /\ s \notin unsent[owner[s]]
  \/ pc[owner[s]] \in {"loop", "test", "work", "flush", "reduce"}

(* Planes u has sent through a dimension so far.                           *)
Sent(u) == iter[owner[u]] + (IF HasSent(u) THEN 1 ELSE 0)

(* The dependencies queue_depends counts: what was sent to t and not yet   *)
(* tested, and what the own rank has still to copy.                        *)
Pending(t, d) ==
  /\ HasUpwind(t, d)
  /\ IF RemoteUpwind(t, d) THEN recv[t][d] # "none" ELSE ~ HasSent(upwind[t][d])

(* The queue and the requests are empty outside the loop they belong to,   *)
(* and all planes are sent from a full queue.                              *)
PhaseInv ==
  /\ \A s \in queue : pc[owner[s]] \in {"add", "post", "loop", "test", "work"}
  /\ \A s \in Sdom : pc[owner[s]] = "post" => s \in queue
  /\ \A s \in Sdom, d \in Dim : recv[s][d] # "none" => s \in queue /\ RemoteUpwind(s, d)
  /\ \A s \in Sdom, d \in Dim : send[s][d] # "none" =>
       HasSent(s) /\ pc[owner[s]] # "reduce"
  /\ \A r \in Rank : pc[r] # "post" => unsent[r] = {}
  /\ \A r \in Rank : unsent[r] \subseteq Owned(r)
  /\ \A r \in Rank : pc[r] # "work" => ready[r] = {} /\ active[r] = NoSdom

(* queue_depends is exact.                                                 *)
DependsInv == \A t \in queue : depends[t] = Count({d \in Dim : Pending(t, d)})

(* A plane is zero until its subdomain is swept: what arrives is zero.     *)
PlaneInv ==
  \A s \in Sdom, d \in Dim :
    /\ pc[owner[s]] \in {"add", "post", "loop", "test", "work"}
    /\ ~ Completed(s)
    /\ active[owner[s]] # s
    => plane[s][d] = Vacuum

(* m carries zeros from s through d, or is about to read them.             *)
Carries(m, s, d) ==
  /\ m.from = s
  /\ m.dim = d
  /\ IF m.buffered THEN m.data = Vacuum ELSE send[s][d] = "posted"

(* The channel that feeds dimension d of t holds the one plane that was    *)
(* sent and not yet taken, if any.                                         *)
ChannelOK(t, d) ==
  LET u == upwind[t][d]
      c == chan[owner[u]][t]
  IN  \/ Sent(u) = Received(t, d) /\ c = << >>
      \/ Sent(u) = Received(t, d) + 1 /\ Len(c) = 1 /\ Carries(c[1], u, d)

ChannelInv ==
  /\ \A t \in Sdom, d \in Dim : RemoteUpwind(t, d) => ChannelOK(t, d)
  /\ \A r \in Rank, t \in Sdom :
       (\A d \in Dim : RemoteUpwind(t, d) => owner[upwind[t][d]] # r) => chan[r][t] = << >>

IndInv ==
  /\ TypeOK
  /\ PhaseInv
  /\ BarrierInv
  /\ DependsInv
  /\ PlaneInv
  /\ CopiesAreSettled
  /\ ReadyListValid
  /\ ChannelInv

=============================================================================
