---------------------------- MODULE SweepProofs -----------------------------
(***************************************************************************)
(* Proofs about SweepSolver, for every subdomain graph that satisfies      *)
(* GraphAssumption and every number of iterations.                         *)
(***************************************************************************)
EXTENDS SweepSolver, SequenceTheorems, TLAPS

-----------------------------------------------------------------------------
(* Counting dimensions.                                                    *)

(* Count is a natural number, and zero only of a set without dimensions.   *)
LEMMA CountNat ==
  ASSUME NEW D
  PROVE  /\ Count(D) \in Nat
         /\ Count(D) = 0 => \A d \in Dim : d \notin D
BY DEF Count, Dim

(* Releasing the dependencies E of D leaves Count(D) - Count(E).           *)
LEMMA CountMinus ==
  ASSUME NEW D, NEW E, NEW F,
         \A d \in Dim : d \in E => d \in D,
         \A d \in Dim : d \in F <=> d \in D /\ d \notin E
  PROVE  Count(F) = Count(D) - Count(E)
BY DEF Count, Dim

-----------------------------------------------------------------------------
(* The two ends of an edge of the graph.                                   *)
LEMMA EdgeFacts ==
  ASSUME NEW t \in Sdom, NEW d \in Dim, HasUpwind(t, d)
  PROVE  /\ upwind[t][d] \in Sdom
         /\ upwind[t][d] # t
         /\ downwind[upwind[t][d]][d] = t
BY GraphAssumption DEF Neighbours, Mirrored, Irreflexive, HasUpwind

(* Every edge that leaves s through d enters its other end through d.      *)
LEMMA DownwindFacts ==
  ASSUME NEW s \in Sdom, NEW t \in Sdom, NEW d \in Dim, downwind[s][d] = t
  PROVE  upwind[t][d] = s /\ HasUpwind(t, d) /\ t # s
BY GraphAssumption DEF Neighbours, Mirrored, Irreflexive, HasUpwind

(* Only one dimension of t is fed by a message of rank r.                  *)
LEMMA OneSource ==
  ASSUME NEW t \in Sdom, NEW d \in Dim, NEW e \in Dim,
         RemoteUpwind(t, d), RemoteUpwind(t, e),
         owner[upwind[t][d]] = owner[upwind[t][e]]
  PROVE  d = e
BY GraphAssumption DEF DistinctSources

(* An edge from a foreign subdomain is the only one from its rank.         *)
LEMMA OneEdge ==
  ASSUME NEW s \in Sdom, NEW t \in Sdom, NEW d \in Dim, NEW e \in Dim,
         ~ LocalEdge(s, t), downwind[s][e] = t,
         RemoteUpwind(t, d), owner[upwind[t][d]] = owner[s]
  PROVE  e = d
<1>1. upwind[t][e] = s /\ HasUpwind(t, e)
  BY DownwindFacts
<1>2. RemoteUpwind(t, e)
  BY <1>1 DEF RemoteUpwind, LocalEdge
<1>3. QED
  BY <1>1, <1>2, OneSource

(* Every subdomain lives on a rank.                                        *)
LEMMA OwnerType == \A s \in Sdom : owner[s] \in Rank
BY GraphAssumption DEF Ownership

-----------------------------------------------------------------------------
(* What the communicator and MPI do keeps the communicator well formed.     *)

(* Copies and Isends keep the communicator well formed.                    *)
LEMMA PostSendsType ==
  ASSUME CommTypeOK, NEW s \in Sdom, NEW waiting, NEW src \in [Sdom -> [Dim -> FluxSet]],
         PostSends(s, src, waiting),
         queue' \in SUBSET Sdom, UNCHANGED recv
  PROVE  CommTypeOK'
<1> USE DEF CommTypeOK
<1>1. depends' \in [Sdom -> Int]
  BY CountNat DEF PostSends
<1>2. plane' \in [Sdom -> [Dim -> FluxSet]]
  BY DEF PostSends
<1>3. send' \in [Sdom -> [Dim -> RequestState]]
  BY DEF PostSends, RequestState
<1>4. chan' \in [Rank -> [Sdom -> Seq(Message)]]
  <2>1. ASSUME NEW t \in Sdom PROVE Outgoing(s, t) \in Seq(Message)
    <3>1. Vacuum \in FluxSet
      BY DEF Vacuum, Flux, FluxSet, Dim
    <3>2. ASSUME NEW d \in Dim
          PROVE  [from |-> s, dim |-> d, buffered |-> FALSE, data |-> Vacuum] \in Message
      BY <3>1 DEF Message
    <3>3. 0 \in Dim /\ 1 \in Dim /\ 2 \in Dim
      BY DEF Dim
    <3>4. QED
      BY <3>2, <3>3 DEF Outgoing
  <2>2. chan[owner[s]] \in [Sdom -> Seq(Message)]
    BY OwnerType
  <2>3. [t \in Sdom |-> IF LocalEdge(s, t) THEN chan[owner[s]][t]
           ELSE chan[owner[s]][t] \o Outgoing(s, t)] \in [Sdom -> Seq(Message)]
    BY <2>1, <2>2
  <2>4. QED
    BY <2>3 DEF PostSends
<1>5. QED
  BY <1>1, <1>2, <1>3, <1>4

(* So does a copied send buffer.                                           *)
LEMMA BufferType ==
  ASSUME CommTypeOK, NEW r \in Rank, NEW t \in Sdom,
         NEW src \in [Sdom -> [Dim -> FluxSet]], Buffer(src, r, t)
  PROVE  CommTypeOK'
<1> USE DEF CommTypeOK
<1>1. PICK i \in DOMAIN chan[r][t] :
        LET m == chan[r][t][i] IN
        /\ chan' = [chan EXCEPT ![r][t][i] =
                      [m EXCEPT !.buffered = TRUE, !.data = src[m.from][m.dim]]]
        /\ send' = [send EXCEPT ![m.from][m.dim] = "complete"]
        /\ UNCHANGED <<queue, depends, recv, plane>>
  BY DEF Buffer
<1> DEFINE m == chan[r][t][i]
           n == [m EXCEPT !.buffered = TRUE, !.data = src[m.from][m.dim]]
<1>2. m \in Message
  OBVIOUS
<1>3. m.from \in Sdom /\ m.dim \in Dim
  BY <1>2 DEF Message
<1>4. n \in Message
  <2>1. src[m.from][m.dim] \in FluxSet
    BY <1>3
  <2> HIDE DEF m
  <2>2. QED
    BY <1>2, <2>1 DEF Message
<1>5. chan' \in [Rank -> [Sdom -> Seq(Message)]]
  <2>1. [chan[r][t] EXCEPT ![i] = n] \in Seq(Message)
    BY <1>4
  <2>2. chan' = [chan EXCEPT ![r] = [chan[r] EXCEPT ![t] = [chan[r][t] EXCEPT ![i] = n]]]
    BY <1>1
  <2> QED
    BY <2>1, <2>2
<1>6. send' \in [Sdom -> [Dim -> RequestState]]
  BY <1>1, <1>3 DEF RequestState
<1>7. QED
  BY <1>1, <1>5, <1>6

(* So does a matched message.                                              *)
LEMMA MatchType ==
  ASSUME CommTypeOK, NEW r \in Rank, NEW t \in Sdom, NEW d \in Dim,
         NEW src \in [Sdom -> [Dim -> FluxSet]], Match(src, r, t, d)
  PROVE  CommTypeOK'
<1> USE DEF CommTypeOK
<1> DEFINE m == Head(chan[r][t])
<1>1. m \in Message /\ Tail(chan[r][t]) \in Seq(Message)
  BY DEF Match
<1>2. m.from \in Sdom /\ m.dim \in Dim /\ Payload(m, src) \in FluxSet
  BY <1>1 DEF Message, Payload
<1>3. plane' \in [Sdom -> [Dim -> FluxSet]]
  BY <1>2 DEF Match
<1>4. send' \in [Sdom -> [Dim -> RequestState]]
  BY <1>2 DEF Match, RequestState
<1>5. recv' \in [Sdom -> [Dim -> RequestState]]
  BY DEF Match, RequestState
<1>6. chan' \in [Rank -> [Sdom -> Seq(Message)]]
  BY <1>1 DEF Match
<1>7. QED
  BY <1>3, <1>4, <1>5, <1>6 DEF Match

-----------------------------------------------------------------------------
(* Messages.                                                               *)

(* A subdomain sends no message without an edge.                           *)
LEMMA OutgoingNone ==
  ASSUME NEW s \in Sdom, NEW t \in Sdom, \A d \in Dim : downwind[s][d] # t
  PROVE  Outgoing(s, t) = << >>
BY DEF Outgoing, Dim

(* Concatenation with the empty sequence.                                  *)
LEMMA ConcatSingle ==
  ASSUME NEW x
  PROVE  /\ << x >> \o << >> = << x >>
         /\ << >> \o << x >> = << x >>
         /\ << >> \o << >> = << >>
<1>1. << x >> \in Seq({x}) /\ << >> \in Seq({x})
  OBVIOUS
<1>2. QED
  BY <1>1

(* One edge, one message.                                                  *)
LEMMA OutgoingOne ==
  ASSUME NEW s \in Sdom, NEW t \in Sdom, NEW d \in Dim,
         \A e \in Dim : downwind[s][e] = t <=> e = d
  PROVE  Outgoing(s, t) = << [from |-> s, dim |-> d, buffered |-> FALSE, data |-> Vacuum] >>
<1> DEFINE msg(e) == [from |-> s, dim |-> e, buffered |-> FALSE, data |-> Vacuum]
<1> HIDE DEF msg
<1>1. Outgoing(s, t) =    (IF downwind[s][0] = t THEN << msg(0) >> ELSE << >>)
                       \o (IF downwind[s][1] = t THEN << msg(1) >> ELSE << >>)
                       \o (IF downwind[s][2] = t THEN << msg(2) >> ELSE << >>)
  BY DEF Outgoing, msg
<1>2. Outgoing(s, t) = << msg(d) >>
  <2>2. CASE d = 0
    <3>1. downwind[s][0] = t /\ downwind[s][1] # t /\ downwind[s][2] # t
      BY <2>2 DEF Dim
    <3>2. QED
      BY <1>1, <2>2, <3>1, ConcatSingle, Zenon
  <2>3. CASE d = 1
    <3>1. downwind[s][0] # t /\ downwind[s][1] = t /\ downwind[s][2] # t
      BY <2>3 DEF Dim
    <3>2. QED
      BY <1>1, <2>3, <3>1, ConcatSingle, Zenon
  <2>4. CASE d = 2
    <3>1. downwind[s][0] # t /\ downwind[s][1] # t /\ downwind[s][2] = t
      BY <2>4 DEF Dim
    <3>2. QED
      BY <1>1, <2>4, <3>1, ConcatSingle, Zenon
  <2>5. QED
    BY <2>2, <2>3, <2>4 DEF Dim
<1>3. QED
  BY <1>2 DEF msg

-----------------------------------------------------------------------------
(* How often each subdomain was swept.                                     *)

(* Only the subdomains of a rank that takes a step can change their count. *)
LEMMA SweptSame ==
  ASSUME NEW r \in Rank,
         \A q \in Rank : q # r =>
           /\ pc'[q] = pc[q] /\ iter'[q] = iter[q] /\ active'[q] = active[q],
         \A s \in Sdom : owner[s] # r => (s \in queue' <=> s \in queue),
         \A s \in Sdom : owner[s] = r => Swept'[s] = Swept[s]
  PROVE  Swept' = Swept
<1>1. ASSUME NEW s \in Sdom, owner[s] # r PROVE Swept'[s] = Swept[s]
  <2>1. owner[s] \in Rank
    BY OwnerType
  <2>2. Completed(s)' <=> Completed(s)
    BY <1>1, <2>1 DEF Completed
  <2>3. QED
    BY <1>1, <2>1, <2>2 DEF Swept
<1>2. \A s \in Sdom : Swept'[s] = Swept[s]
  BY <1>1
<1>3. QED
  BY <1>2 DEF Swept

(* Adding a subdomain is not a sweep of it, even if it is the last one.    *)
LEMMA AddKeepsSwept ==
  ASSUME NEW r \in Rank, NEW x \in Sdom, owner[x] = r,
         pc[r] = "add", pc'[r] \in {"add", "post", "loop"},
         pc'[r] = "loop" => Owned(r) \subseteq queue',
         \A q \in Rank : q # r => pc'[q] = pc[q],
         queue' = queue \cup {x}, UNCHANGED <<iter, active>>
  PROVE  Swept' = Swept
<1>1. ASSUME NEW s \in Sdom, owner[s] = r PROVE ~ Completed(s) /\ ~ Completed(s)'
  BY <1>1 DEF Completed, Owned
<1>2. \A s \in Sdom : owner[s] = r => Swept'[s] = Swept[s]
  BY <1>1 DEF Swept
<1>3. \A s \in Sdom : owner[s] # r => (s \in queue' <=> s \in queue)
  OBVIOUS
<1>4. QED
  BY <1>2, <1>3, SweptSame

(* Completing a subdomain: the sweep of it was counted before.             *)
LEMMA CompleteKeepsSwept ==
  ASSUME NEW r \in Rank, NEW x \in Sdom, NEW L, owner[x] = r,
         active \in [Rank -> Sdom \cup {NoSdom}], active[r] = x,
         pc \in [Rank -> L], pc[r] = "work",
         IF ready[r] = {} THEN Goto(r, "loop") ELSE UNCHANGED pc,
         x \in queue, queue' = queue \ {x},
         active' = [active EXCEPT ![r] = NoSdom], UNCHANGED iter
  PROVE  Swept' = Swept
<1>1. pc'[r] \in {"work", "loop"} /\ \A q \in Rank : q # r => pc'[q] = pc[q]
  BY DEF Goto
<1>2. ASSUME NEW s \in Sdom, owner[s] = r
      PROVE  (Completed(s) \/ active[r] = s)' <=> (Completed(s) \/ active[r] = s)
  <2>1. s # NoSdom
    BY GraphAssumption DEF Neighbours
  <2>2. QED
    BY <1>1, <1>2, <2>1 DEF Completed
<1>3. \A s \in Sdom : owner[s] = r => Swept'[s] = Swept[s]
  BY <1>2 DEF Swept
<1>4. \A s \in Sdom : owner[s] # r => (s \in queue' <=> s \in queue)
  OBVIOUS
<1>5. QED
  BY <1>1, <1>3, <1>4, SweptSame

(* The rest of the loop sweeps nothing, and the iteration counter moves    *)
(* when what was complete is complete no more.                             *)
LEMMA LoopKeepsSwept ==
  ASSUME NEW r \in Rank, NEW L, pc \in [Rank -> L], iter \in [Rank -> 0 .. NumIter],
         pc[r] # "work" => active[r] = NoSdom,
         \/ StartSweep(r)
         \/ Loop(r)
         \/ ReadySubdomains(r)
         \/ Flush(r)
         \/ FinishIteration(r)
  PROVE  Swept' = Swept
<1> USE DEF Goto, commVars, rankVars
<1>1. CASE StartSweep(r)
  <2>1. \A s \in Sdom : owner[s] = r => Swept'[s] = Swept[s]
    BY <1>1 DEF StartSweep, Swept, Completed
  <2>2. QED
    BY <1>1, <2>1, SweptSame DEF StartSweep
<1>2. CASE Loop(r)
  <2>1. /\ pc[r] = "loop" /\ pc'[r] \in {"test", "flush"}
        /\ pc'[r] = "flush" => \A s \in Sdom : owner[s] = r => s \notin queue
        /\ UNCHANGED <<queue, iter, active>>
    BY <1>2 DEF Loop, WorkRemaining, Owned
  <2>2. ASSUME NEW s \in Sdom, owner[s] = r PROVE Completed(s)' <=> Completed(s)
    BY <2>1, <2>2 DEF Completed
  <2>3. \A s \in Sdom : owner[s] = r => Swept'[s] = Swept[s]
    BY <2>1, <2>2 DEF Swept
  <2>4. QED
    BY <1>2, <2>1, <2>3, SweptSame DEF Loop
<1>3. CASE ReadySubdomains(r)
  <2>1. /\ pc[r] = "test" /\ pc'[r] \in {"loop", "work"}
        /\ UNCHANGED <<queue, iter, active>>
    BY <1>3 DEF ReadySubdomains
  <2>2. ASSUME NEW s \in Sdom, owner[s] = r PROVE Completed(s)' <=> Completed(s)
    BY <2>1, <2>2 DEF Completed
  <2>3. \A s \in Sdom : owner[s] = r => Swept'[s] = Swept[s]
    BY <2>1, <2>2 DEF Swept
  <2>4. QED
    BY <1>3, <2>1, <2>3, SweptSame DEF ReadySubdomains
<1>4. CASE Flush(r)
  <2>1. /\ pc[r] = "flush" /\ pc'[r] = "reduce"
        /\ UNCHANGED <<queue, iter, active>>
    BY <1>4 DEF Flush, WaitAllSends
  <2>2. ASSUME NEW s \in Sdom, owner[s] = r PROVE Completed(s)' <=> Completed(s)
    BY <2>1, <2>2 DEF Completed
  <2>3. \A s \in Sdom : owner[s] = r => Swept'[s] = Swept[s]
    BY <2>1, <2>2 DEF Swept
  <2>4. QED
    BY <1>4, <2>1, <2>3, SweptSame DEF Flush
<1>5. CASE FinishIteration(r)
  <2>1. /\ pc[r] = "reduce" /\ pc'[r] \in {"start", "done"}
        /\ iter'[r] = iter[r] + 1 /\ active' = active /\ active[r] = NoSdom
        /\ queue' = queue
    BY <1>5 DEF FinishIteration
  <2>2. ASSUME NEW s \in Sdom, owner[s] = r PROVE Swept'[s] = Swept[s]
    <3>1. s # NoSdom
      BY GraphAssumption DEF Neighbours
    <3>2. Completed(s) /\ ~ Completed(s)'
      BY <2>1, <2>2 DEF Completed
    <3>3. iter[r] \in Int
      BY NumIterAssumption
    <3>4. QED
      BY <2>1, <2>2, <3>1, <3>2, <3>3 DEF Swept
  <2>3. QED
    BY <1>5, <2>1, <2>2, SweptSame DEF FinishIteration
<1>6. QED
  BY <1>1, <1>2, <1>3, <1>4, <1>5

(* A sweep counts once, and nobody is an iteration behind when it happens. *)
LEMMA SweepCounts ==
  ASSUME NEW r \in Rank, NEW s \in Sdom, SweepSubdomain(r, s), s \in queue, owner[s] = r,
         BarrierInv, NEW L, pc \in [Rank -> L], iter \in [Rank -> 0 .. NumIter],
         active \in [Rank -> Sdom \cup {NoSdom}]
  PROVE  /\ Swept[s] < NumIter
         /\ \A t \in Sdom : Swept[t] >= Swept[s]
         /\ Swept' = [Swept EXCEPT ![s] = @ + 1]
<1> USE OwnerType
<1>1. pc[r] = "work" /\ active[r] = NoSdom
  BY DEF SweepSubdomain
<1>2. ~ Completed(s) /\ s # NoSdom
  BY <1>1, GraphAssumption DEF Completed, Neighbours
<1>3. Swept[s] = iter[r]
  BY <1>1, <1>2 DEF Swept
<1>4. Swept[s] < NumIter
  BY <1>1, <1>3, NumIterAssumption DEF BarrierInv
<1>5. ASSUME NEW t \in Sdom PROVE Swept[t] >= Swept[s]
  <2>1. iter[owner[t]] \in Int /\ iter[r] \in Int
    BY NumIterAssumption
  <2>2. CASE iter[r] <= iter[owner[t]]
    BY <1>3, <2>1, <2>2 DEF Swept
  <2>3. CASE iter[r] = iter[owner[t]] + 1 /\ pc[owner[t]] = "reduce"
    BY <1>3, <2>1, <2>3 DEF Swept, Completed
  <2>4. QED
    BY <2>2, <2>3 DEF BarrierInv
<1>6. Swept' = [Swept EXCEPT ![s] = @ + 1]
  <2>1. ASSUME NEW t \in Sdom
        PROVE  Swept'[t] = IF t = s THEN Swept[t] + 1 ELSE Swept[t]
    <3>1. Completed(t)' <=> Completed(t)
      BY DEF SweepSubdomain, Completed
    <3>2. active'[owner[t]] = IF owner[t] = r THEN s ELSE active[owner[t]]
      BY DEF SweepSubdomain
    <3>3. iter' = iter /\ t # NoSdom
      BY GraphAssumption DEF SweepSubdomain, Neighbours
    <3>4. CASE t = s
      <4>1. Swept'[t] = iter[r] + 1
        BY <3>2, <3>3, <3>4 DEF Swept
      <4>2. QED
        BY <1>3, <3>4, <4>1
    <3>5. CASE t # s
      <4>1. active'[owner[t]] = t <=> active[owner[t]] = t
        BY <1>1, <3>2, <3>3, <3>5
      <4>2. QED
        BY <3>1, <3>3, <3>5, <4>1 DEF Swept
    <3>6. QED
      BY <3>4, <3>5
  <2>2. /\ Swept = [t \in Sdom |-> Swept[t]]
        /\ Swept' = [t \in Sdom |-> Swept'[t]]
    BY DEF Swept
  <2>3. QED
    BY <2>1, <2>2
<1>7. QED
  BY <1>4, <1>5, <1>6

-----------------------------------------------------------------------------
(* Type correctness is preserved; only the iteration counter needs more    *)
(* than TypeOK.                                                            *)
LEMMA TypeInit == Init => TypeOK
<1> SUFFICES ASSUME Init PROVE TypeOK
  OBVIOUS
<1>1. Vacuum \in FluxSet
  BY DEF Vacuum, Flux, FluxSet, Dim
<1>2. CommTypeOK
  BY <1>1 DEF Init, CommInit, LoopInit, CommTypeOK, RequestState
<1>3. QED
  BY <1>2, NumIterAssumption DEF Init, LoopInit, TypeOK

(* Every step keeps the whole state well formed.                           *)
LEMMA TypeStep ==
  ASSUME TypeOK, BarrierInv, [Next]_vars
  PROVE  TypeOK'
<1> USE DEF TypeOK, CommTypeOK, Goto
<1>1. ASSUME NEW r \in Rank, StartSweep(r) PROVE TypeOK'
  <2>1. Vacuum \in FluxSet
    BY DEF Vacuum, Flux, FluxSet, Dim
  <2>2. QED
    BY <1>1, <2>1 DEF StartSweep
<1>2. ASSUME NEW r \in Rank, NEW s \in Sdom, AddSubdomain(r, s) PROVE TypeOK'
  <2>1. depends' \in [Sdom -> Int]
    BY <1>2, CountNat DEF AddSubdomain, PostRecvs
  <2>2. recv' \in [Sdom -> [Dim -> RequestState]]
    BY <1>2 DEF AddSubdomain, PostRecvs, RequestState
  <2>3. QED
    BY <1>2, <2>1, <2>2 DEF AddSubdomain, PostRecvs
<1>3. ASSUME NEW r \in Rank, Loop(r) PROVE TypeOK'
  BY <1>3 DEF Loop, commVars
<1>4. ASSUME NEW r \in Rank, NEW s \in Sdom, NEW d \in Dim, TestRecieves(r, s, d)
      PROVE  TypeOK'
  BY <1>4 DEF TestRecieves, TestReceive, rankVars, RequestState
<1>5. ASSUME NEW r \in Rank, ReadySubdomains(r) PROVE TypeOK'
  BY <1>5 DEF ReadySubdomains, commVars, ReadyList, Owned
<1>6. ASSUME NEW r \in Rank, NEW s \in Sdom, SweepSubdomain(r, s) PROVE TypeOK'
  <2>1. \A d \in Dim : Flux(s, d, iter[r]) \in FluxSet
    BY NumIterAssumption DEF Flux, FluxSet
  <2>2. QED
    BY <1>6, <2>1 DEF SweepSubdomain
<1>7. ASSUME NEW r \in Rank, MarkComplete(r) PROVE TypeOK'
  <2>1. CommTypeOK'
    <3> HIDE DEF TypeOK
    <3>1. active[r] \in Sdom /\ CommTypeOK /\ plane \in [Sdom -> [Dim -> FluxSet]]
      BY <1>7 DEF MarkComplete, TypeOK
    <3>2. PostSends(active[r], plane, queue \ {active[r]})
      BY <1>7 DEF MarkComplete
    <3>3. UNCHANGED recv /\ queue' \in SUBSET Sdom
      BY <1>7, <3>1 DEF MarkComplete
    <3> HIDE DEF CommTypeOK
    <3>4. QED
      BY <3>1, <3>2, <3>3, PostSendsType
  <2>2. QED
    BY <1>7, <2>1 DEF MarkComplete
<1>8. ASSUME NEW r \in Rank, Flush(r) PROVE TypeOK'
  BY <1>8 DEF Flush, WaitAllSends, RequestState
<1>9. ASSUME NEW r \in Rank, FinishIteration(r) PROVE TypeOK'
  <2>1. iter[r] + 1 \in 0 .. NumIter
    BY <1>9, NumIterAssumption DEF FinishIteration, BarrierInv
  <2>2. QED
    BY <1>9, <2>1 DEF FinishIteration, commVars
<1>10. ASSUME NEW r \in Rank, NEW t \in Sdom, BufferSend(r, t) PROVE TypeOK'
  BY <1>10, BufferType DEF BufferSend, rankVars
<1>11. ASSUME NEW r \in Rank, NEW t \in Sdom, NEW d \in Dim, Deliver(r, t, d) PROVE TypeOK'
  BY <1>11, MatchType DEF Deliver, rankVars
<1>12. CASE UNCHANGED vars
  BY <1>12 DEF vars, commVars, rankVars
<1>13. QED
  BY <1>1, <1>2, <1>3, <1>4, <1>5, <1>6, <1>7, <1>8, <1>9, <1>10, <1>11, <1>12
     DEF Next, RankStep, AllDone

-----------------------------------------------------------------------------
(* Preservation of the inductive invariant, one lemma per action.          *)

(* What only depends on the queue, the receives, the counters and which    *)
(* subdomains are complete.                                                *)
LEMMA Frame ==
  ASSUME UNCHANGED <<queue, recv, iter>>, TypeOK,
         \A s \in Sdom : Completed(s)' <=> Completed(s)
  PROVE  \A t \in Sdom :
           /\ Sent(t)' = Sent(t)
           /\ \A d \in Dim :
                /\ Taken(t, d)' <=> Taken(t, d)
                /\ Received(t, d)' = Received(t, d)
                /\ Pending(t, d)' <=> Pending(t, d)
                /\ Arrived(t, d)' <=> Arrived(t, d)
<1> TAKE t \in Sdom
<1>1. Sent(t)' = Sent(t)
  BY DEF Sent
<1>2. ASSUME NEW d \in Dim
      PROVE  /\ Taken(t, d)' <=> Taken(t, d)
             /\ Received(t, d)' = Received(t, d)
  BY DEF Taken, Received
<1>3. ASSUME NEW d \in Dim
      PROVE  /\ Pending(t, d)' <=> Pending(t, d)
             /\ Arrived(t, d)' <=> Arrived(t, d)
  BY EdgeFacts DEF Pending, Arrived
<1>4. QED
  BY <1>1, <1>2, <1>3

(* The counts stay exact while nothing they depend on changes.             *)
LEMMA DependsFrame ==
  ASSUME UNCHANGED <<queue, depends, recv, iter>>, TypeOK, DependsInv,
         \A s \in Sdom : Completed(s)' <=> Completed(s)
  PROVE  DependsInv'
<1>1. ASSUME NEW t \in queue
      PROVE  depends[t] = Count({d \in Dim : Pending(t, d)'})
  <2>1. t \in Sdom
    BY DEF TypeOK, CommTypeOK
  <2>2. \A d \in Dim : Pending(t, d)' <=> Pending(t, d)
    BY <2>1, Frame
  <2>3. {d \in Dim : Pending(t, d)'} = {d \in Dim : Pending(t, d)}
    BY <2>2
  <2>4. QED
    BY <2>3 DEF DependsInv
<1>2. ASSUME NEW t \in Sdom, NEW d \in Dim,
             Completed(t), HasUpwind(t, d), ~ RemoteUpwind(t, d)
      PROVE  Completed(upwind[t][d])'
  BY <1>2, EdgeFacts DEF DependsInv
<1>3. QED
  BY <1>1, <1>2 DEF DependsInv

(* Channels are untouched while no plane is sent or taken.                 *)
LEMMA ChannelFrame ==
  ASSUME UNCHANGED <<queue, recv, iter, chan>>, TypeOK, ChannelInv,
         \A s \in Sdom : Completed(s)' <=> Completed(s),
         \A s \in Sdom, d \in Dim : send[s][d] = "posted" => send'[s][d] = "posted"
  PROVE  ChannelInv'
<1>1. ASSUME NEW t \in Sdom, NEW d \in Dim, RemoteUpwind(t, d)
      PROVE  ChannelOK(t, d)'
  <2> DEFINE u == upwind[t][d]
  <2>1. u \in Sdom
    BY <1>1, EdgeFacts DEF RemoteUpwind
  <2>2. Sent(u)' = Sent(u) /\ Received(t, d)' = Received(t, d)
    BY <2>1, Frame
  <2>3. ChannelOK(t, d)
    BY <1>1 DEF ChannelInv
  <2>4. QED
    BY <2>1, <2>2, <2>3 DEF ChannelOK, Carries
<1>2. ASSUME NEW r \in Rank, NEW t \in Sdom,
             \A d \in Dim : RemoteUpwind(t, d) => owner[upwind[t][d]] # r
      PROVE  chan'[r][t] = << >>
  BY <1>2 DEF ChannelInv
<1>3. QED
  BY <1>1, <1>2 DEF ChannelInv

(* A rank zeroes its planes.                                               *)
LEMMA StartSweepInd ==
  ASSUME IndInv, TypeOK', NEW r \in Rank, StartSweep(r)
  PROVE  IndInv'
<1> USE OwnerType DEF IndInv, TypeOK, CommTypeOK, StartSweep, Goto
<1>1. \A s \in Sdom : owner[s] = r => s \notin queue
  BY DEF PhaseInv
<1>2. \A s \in Sdom : Completed(s)' <=> Completed(s)
  BY DEF Completed
<1>3. PhaseInv'
  BY <1>2 DEF PhaseInv
<1>4. BarrierInv'
  BY DEF BarrierInv
<1>5. DependsInv'
  BY <1>2, DependsFrame
<1>6. PlaneInv'
  <2>1. ASSUME NEW t \in queue, NEW d \in Dim, active[owner[t]] # t, Arrived(t, d)'
        PROVE  plane'[t][d] = Flux(upwind[t][d], d, iter[owner[t]])
    BY <2>1, <1>1, <1>2, Frame DEF PlaneInv
  <2>2. ASSUME NEW s \in Sdom, NEW d \in Dim, Completed(s)' \/ active[owner[s]] = s
        PROVE  plane'[s][d] = Flux(s, d, iter[owner[s]])
    <3>1. active[r] = NoSdom /\ s # NoSdom /\ pc'[r] = "add"
      BY GraphAssumption DEF PhaseInv, Neighbours
    <3>2. owner[s] # r
      BY <2>2, <3>1 DEF Completed
    <3>3. QED
      BY <2>2, <3>2, <1>2 DEF PlaneInv
  <2>3. QED
    BY <2>1, <2>2 DEF PlaneInv
<1>7. ReadyListValid'
  BY DEF ReadyListValid, ReadyList
<1>8. ChannelInv'
  BY <1>2, ChannelFrame
<1>9. QED
  BY <1>3, <1>4, <1>5, <1>6, <1>7, <1>8

(* workRemaining tells whether all subdomains of the rank are complete.    *)
LEMMA LoopInd ==
  ASSUME IndInv, TypeOK', NEW r \in Rank, Loop(r)
  PROVE  IndInv'
<1> USE OwnerType DEF IndInv, TypeOK, CommTypeOK, Loop, Goto, commVars
<1>1. pc'[r] = "flush" => \A s \in Sdom : owner[s] = r => s \notin queue
  BY DEF WorkRemaining, Owned
<1>2. pc'[r] \in {"test", "flush"}
  OBVIOUS
<1>3. \A s \in Sdom : Completed(s)' <=> Completed(s)
  BY <1>1, <1>2 DEF Completed
<1>4. PhaseInv'
  BY <1>1, <1>2, <1>3 DEF PhaseInv
<1>5. BarrierInv'
  BY <1>2 DEF BarrierInv
<1>6. DependsInv'
  BY <1>3, DependsFrame
<1>7. PlaneInv'
  BY <1>3, Frame DEF PlaneInv
<1>8. ReadyListValid'
  BY DEF ReadyListValid, ReadyList
<1>9. ChannelInv'
  BY <1>3, ChannelFrame
<1>10. QED
  BY <1>4, <1>5, <1>6, <1>7, <1>8, <1>9

(* The list is made of the counts that are zero.                           *)
LEMMA ReadySubdomainsInd ==
  ASSUME IndInv, TypeOK', NEW r \in Rank, ReadySubdomains(r)
  PROVE  IndInv'
<1> USE OwnerType DEF IndInv, TypeOK, CommTypeOK, ReadySubdomains, Goto, commVars
<1>1. pc'[r] \in {"loop", "work"} /\ (pc'[r] = "loop" => ready'[r] = {})
  OBVIOUS
<1>2. \A s \in Sdom : Completed(s)' <=> Completed(s)
  BY <1>1 DEF Completed
<1>3. PhaseInv'
  BY <1>1, <1>2 DEF PhaseInv
<1>4. BarrierInv'
  BY <1>1 DEF BarrierInv
<1>5. DependsInv'
  BY <1>2, DependsFrame
<1>6. PlaneInv'
  BY <1>2, Frame DEF PlaneInv
<1>7. ReadyListValid'
  <2>1. active[r] = NoSdom
    BY DEF PhaseInv
  <2>2. QED
    BY <2>1 DEF ReadyListValid, ReadyList
<1>8. ChannelInv'
  BY <1>2, ChannelFrame
<1>9. QED
  BY <1>3, <1>4, <1>5, <1>6, <1>7, <1>8

(* The kernel overwrites planes nobody waits for.                          *)
LEMMA SweepSubdomainInd ==
  ASSUME IndInv, TypeOK', NEW r \in Rank, NEW s \in Sdom, SweepSubdomain(r, s)
  PROVE  IndInv'
<1> USE OwnerType DEF IndInv, TypeOK, CommTypeOK, SweepSubdomain
<1>1. owner[s] = r /\ s \in ReadyList(r)
  BY DEF ReadyListValid, ReadyList, Owned
<1>2. \A t \in Sdom : Completed(t)' <=> Completed(t)
  BY DEF Completed
<1>3. PhaseInv'
  BY <1>2 DEF PhaseInv
<1>4. BarrierInv'
  BY DEF BarrierInv
<1>5. DependsInv'
  BY <1>2, DependsFrame
<1>6. PlaneInv'
  <2>1. ASSUME NEW t \in queue, NEW d \in Dim, active'[owner[t]] # t, Arrived(t, d)'
        PROVE  plane'[t][d] = Flux(upwind[t][d], d, iter[owner[t]])
    <3>1. t # s /\ Arrived(t, d) /\ active[owner[t]] # t
      BY <2>1, <1>1, <1>2, Frame, GraphAssumption DEF Neighbours
    <3>2. QED
      BY <3>1 DEF PlaneInv
  <2>2. ASSUME NEW t \in Sdom, NEW d \in Dim, Completed(t)' \/ active'[owner[t]] = t
        PROVE  plane'[t][d] = Flux(t, d, iter[owner[t]])
    <3>1. CASE t = s
      BY <3>1, <1>1
    <3>2. CASE t # s
      <4>1. Completed(t) \/ active[owner[t]] = t
        BY <2>2, <3>2, <1>2
      <4>2. QED
        BY <3>2, <4>1 DEF PlaneInv
    <3>3. QED
      BY <3>1, <3>2
  <2>3. QED
    BY <2>1, <2>2 DEF PlaneInv
<1>7. ReadyListValid'
  BY <1>1 DEF ReadyListValid, ReadyList
<1>8. ChannelInv'
  BY <1>2, ChannelFrame
<1>9. QED
  BY <1>3, <1>4, <1>5, <1>6, <1>7, <1>8

(* waitAllSends forgets completed requests only.                           *)
LEMMA FlushInd ==
  ASSUME IndInv, TypeOK', NEW r \in Rank, Flush(r)
  PROVE  IndInv'
<1> USE OwnerType DEF IndInv, TypeOK, CommTypeOK, Flush, WaitAllSends, Goto
<1>1. \A s \in Sdom : Completed(s)' <=> Completed(s)
  BY DEF Completed
<1>2. PhaseInv'
  BY <1>1 DEF PhaseInv
<1>3. BarrierInv'
  BY DEF BarrierInv
<1>4. DependsInv'
  BY <1>1, DependsFrame
<1>5. PlaneInv'
  BY <1>1, Frame DEF PlaneInv
<1>6. ReadyListValid'
  BY DEF ReadyListValid, ReadyList
<1>7. ChannelInv'
  <2>1. ASSUME NEW s \in Sdom, NEW d \in Dim, send[s][d] = "posted"
        PROVE  send'[s][d] = "posted"
    BY <2>1 DEF Owned
  <2>2. QED
    BY <2>1, <1>1, ChannelFrame
<1>8. QED
  BY <1>2, <1>3, <1>4, <1>5, <1>6, <1>7

(* postRecvs counts exactly the planes that are not there yet.             *)
LEMMA AddSubdomainInd ==
  ASSUME IndInv, TypeOK', NEW r \in Rank, NEW s \in Sdom, AddSubdomain(r, s)
  PROVE  IndInv'
<1> USE OwnerType DEF IndInv, TypeOK, CommTypeOK, AddSubdomain, PostRecvs, Goto
<1>1. s \notin queue /\ owner[s] = r
  BY DEF Owned
<1>2. pc'[r] \in {"add", "loop"} /\ (pc'[r] = "loop" => Owned(r) \subseteq queue')
  OBVIOUS
<1>3. \A t \in Sdom : owner[t] = r => ~ Completed(t) /\ ~ Completed(t)'
  BY <1>2 DEF Completed, Owned
<1>4. \A t \in Sdom : Completed(t)' <=> Completed(t)
  <2> TAKE t \in Sdom
  <2>1. CASE owner[t] = r
    BY <1>3, <2>1
  <2>2. CASE owner[t] # r
    BY <1>1, <2>2 DEF Completed
  <2>3. QED
    BY <2>1, <2>2
<1>5. \A d \in Dim : recv[s][d] = "none"
  BY <1>1 DEF PhaseInv
<1>6. \A t \in Sdom, d \in Dim :
        t # s => /\ recv'[t][d] = recv[t][d]
                 /\ t \in queue' <=> t \in queue
  OBVIOUS
<1>7. \A d \in Dim : recv'[s][d] = IF RemoteUpwind(s, d) THEN "posted" ELSE "none"
  BY <1>5
<1>8. \A t \in Sdom, d \in Dim : t # s =>
        /\ Received(t, d)' = Received(t, d)
        /\ Pending(t, d)' <=> Pending(t, d)
        /\ Arrived(t, d)' <=> Arrived(t, d)
  BY <1>4, <1>6, EdgeFacts DEF Received, Taken, Pending, Arrived
<1>9. \A d \in Dim :
        /\ RemoteUpwind(s, d) => Received(s, d)' = Received(s, d)
        /\ Pending(s, d)' <=> HasUpwind(s, d)
        /\ ~ Arrived(s, d)'
  <2> TAKE d \in Dim
  <2>1. ASSUME RemoteUpwind(s, d) PROVE Received(s, d)' = Received(s, d)
    BY <2>1, <1>1, <1>3, <1>7 DEF Received, Taken
  <2>2. ASSUME HasUpwind(s, d), ~ RemoteUpwind(s, d) PROVE ~ Completed(upwind[s][d])'
    BY <2>2, <1>1, <1>3, EdgeFacts DEF RemoteUpwind, LocalEdge
  <2>3. QED
    BY <2>1, <2>2, <1>7 DEF Pending, Arrived, RemoteUpwind
<1>10. PhaseInv'
  <2>1. \A t \in queue' : pc'[owner[t]] \in {"add", "loop", "test", "work"}
    BY <1>1, <1>2, SMTT(30) DEF PhaseInv
  <2>2. \A t \in Sdom, d \in Dim :
          recv'[t][d] # "none" => t \in queue' /\ RemoteUpwind(t, d)
    BY <1>6, <1>7 DEF PhaseInv
  <2>3. \A t \in Sdom, d \in Dim :
          send[t][d] # "none" => Completed(t)' /\ pc'[owner[t]] # "reduce"
    BY <1>2, <1>4 DEF PhaseInv
  <2>4. \A q \in Rank : pc'[q] # "work" => ready[q] = {} /\ active[q] = NoSdom
    BY <1>2 DEF PhaseInv
  <2>5. QED
    BY <2>1, <2>2, <2>3, <2>4 DEF PhaseInv
<1>11. BarrierInv'
  BY <1>2 DEF BarrierInv
<1>12. DependsInv'
  <2>1. ASSUME NEW t \in queue'
        PROVE  depends'[t] = Count({d \in Dim : Pending(t, d)'})
    <3>1. CASE t = s
      <4>1. {d \in Dim : Pending(t, d)'} = {d \in Dim : HasUpwind(s, d)}
        BY <3>1, <1>9
      <4>2. QED
        BY <3>1, <4>1
    <3>2. CASE t # s
      <4>1. {d \in Dim : Pending(t, d)'} = {d \in Dim : Pending(t, d)}
        BY <3>2, <1>8
      <4>2. t \in queue /\ depends'[t] = depends[t]
        BY <3>2
      <4>3. QED
        BY <4>1, <4>2 DEF DependsInv
    <3>3. QED
      BY <3>1, <3>2
  <2>2. ASSUME NEW t \in Sdom, NEW d \in Dim,
               Completed(t)', HasUpwind(t, d), ~ RemoteUpwind(t, d)
        PROVE  Completed(upwind[t][d])'
    BY <2>2, <1>4, EdgeFacts DEF DependsInv
  <2>3. QED
    BY <2>1, <2>2 DEF DependsInv
<1>13. PlaneInv'
  <2>1. ASSUME NEW t \in queue', NEW d \in Dim, active[owner[t]] # t, Arrived(t, d)'
        PROVE  plane[t][d] = Flux(upwind[t][d], d, iter[owner[t]])
    BY <2>1, <1>8, <1>9 DEF PlaneInv
  <2>2. ASSUME NEW t \in Sdom, NEW d \in Dim, Completed(t)' \/ active[owner[t]] = t
        PROVE  plane[t][d] = Flux(t, d, iter[owner[t]])
    BY <2>2, <1>4 DEF PlaneInv
  <2>3. QED
    BY <2>1, <2>2 DEF PlaneInv
<1>14. ReadyListValid'
  <2>1. ASSUME NEW q \in Rank
        PROVE  /\ ready[q] \subseteq ReadyList(q)'
               /\ active[q] # NoSdom => active[q] \in ReadyList(q)' \ ready[q]
    <3>1. CASE q = r
      BY <3>1 DEF PhaseInv
    <3>2. CASE q # r
      BY <3>2, <1>1 DEF ReadyListValid, ReadyList, Owned
    <3>3. QED
      BY <3>1, <3>2
  <2>2. \A t \in queue' : depends'[t] >= 0
    BY CountNat DEF ReadyListValid
  <2>3. QED
    BY <2>1, <2>2 DEF ReadyListValid
<1>15. ChannelInv'
  <2>1. ASSUME NEW t \in Sdom, NEW d \in Dim, RemoteUpwind(t, d)
        PROVE  ChannelOK(t, d)'
    <3>1. Sent(upwind[t][d])' = Sent(upwind[t][d])
      BY <2>1, <1>4, EdgeFacts DEF Sent, RemoteUpwind
    <3>2. Received(t, d)' = Received(t, d)
      BY <2>1, <1>8, <1>9
    <3>3. ChannelOK(t, d)
      BY <2>1 DEF ChannelInv
    <3>4. QED
      BY <3>1, <3>2, <3>3 DEF ChannelOK, Carries
  <2>2. QED
    BY <2>1 DEF ChannelInv
<1>16. QED
  BY <1>10, <1>11, <1>12, <1>13, <1>14, <1>15

(* A completed receive releases exactly its own dependency.                *)
LEMMA TestRecievesInd ==
  ASSUME IndInv, TypeOK', NEW r \in Rank, NEW s \in Sdom, NEW d \in Dim,
         TestRecieves(r, s, d)
  PROVE  IndInv'
<1> USE OwnerType DEF IndInv, TypeOK, CommTypeOK, TestRecieves, TestReceive, rankVars
<1>1. s \in queue /\ owner[s] = r /\ RemoteUpwind(s, d)
  BY DEF Owned, PhaseInv
<1>2. \A t \in Sdom : Completed(t)' <=> Completed(t)
  BY DEF Completed
<1>3. \A t \in Sdom, e \in Dim :
        recv'[t][e] = IF t = s /\ e = d THEN "none" ELSE recv[t][e]
  OBVIOUS
<1>4. \A t \in Sdom, e \in Dim :
        /\ Received(t, e)' = Received(t, e)
        /\ Arrived(t, e)' <=> Arrived(t, e)
        /\ Pending(t, e)' <=> Pending(t, e) /\ ~ (t = s /\ e = d)
  <2> TAKE t \in Sdom, e \in Dim
  <2>1. Taken(t, e)' <=> Taken(t, e)
    BY <1>2, <1>3 DEF Taken
  <2>2. Received(t, e)' = Received(t, e)
    BY <2>1 DEF Received
  <2>3. Arrived(t, e)' <=> Arrived(t, e)
    BY <1>2, <1>3, EdgeFacts DEF Arrived
  <2>4. Pending(t, e)' <=> Pending(t, e) /\ ~ (t = s /\ e = d)
    BY <1>1, <1>2, <1>3, EdgeFacts DEF Pending
  <2>5. QED
    BY <2>2, <2>3, <2>4
<1>5. Pending(s, d)
  BY <1>1 DEF Pending, RemoteUpwind
<1>6. PhaseInv'
  BY <1>2, <1>3 DEF PhaseInv
<1>7. BarrierInv'
  BY DEF BarrierInv
<1>8. DependsInv'
  <2>1. ASSUME NEW t \in queue
        PROVE  depends'[t] = Count({e \in Dim : Pending(t, e)'})
    <3>1. depends[t] = Count({e \in Dim : Pending(t, e)}) /\ t \in Sdom
      BY DEF DependsInv
    <3>2. CASE t = s
      <4> DEFINE D == {e \in Dim : Pending(s, e)}
                 F == {e \in Dim : Pending(s, e)'}
      <4>a. \A e \in Dim : e \in {d} => e \in D
        BY <1>5
      <4>b. \A e \in Dim : e \in F <=> e \in D /\ e \notin {d}
        BY <1>4
      <4>1. Count(F) = Count(D) - Count({d})
        <5> HIDE DEF D, F
        <5>1. QED
          BY <4>a, <4>b, CountMinus
      <4>2. Count({d}) = 1
        BY DEF Count, Dim
      <4>3. depends'[s] = depends[s] - 1
        BY <1>1
      <4>4. QED
        BY <3>1, <3>2, <4>1, <4>2, <4>3, ZenonT(30)
    <3>3. CASE t # s
      <4>1. {e \in Dim : Pending(t, e)'} = {e \in Dim : Pending(t, e)}
        BY <3>1, <3>3, <1>4
      <4>2. depends'[t] = depends[t]
        BY <3>3
      <4>3. QED
        BY <3>1, <4>1, <4>2
    <3>4. QED
      BY <3>2, <3>3
  <2>2. ASSUME NEW t \in Sdom, NEW e \in Dim,
               Completed(t)', HasUpwind(t, e), ~ RemoteUpwind(t, e)
        PROVE  Completed(upwind[t][e])'
    BY <2>2, <1>2, EdgeFacts DEF DependsInv
  <2>3. QED
    BY <2>1, <2>2 DEF DependsInv
<1>9. PlaneInv'
  BY <1>2, <1>4 DEF PlaneInv
<1>10. ReadyListValid'
  <2>1. ASSUME NEW q \in Rank
        PROVE  /\ ready[q] \subseteq ReadyList(q)'
               /\ active[q] # NoSdom => active[q] \in ReadyList(q)' \ ready[q]
    <3>1. CASE q = r
      BY <3>1 DEF PhaseInv
    <3>2. CASE q # r
      BY <3>2, <1>1 DEF ReadyListValid, ReadyList, Owned
    <3>3. QED
      BY <3>1, <3>2
  <2>2. ASSUME NEW t \in queue PROVE depends'[t] >= 0
    <3>1. depends'[t] = Count({e \in Dim : Pending(t, e)'})
      BY <1>8 DEF DependsInv
    <3>2. QED
      BY <3>1, CountNat
  <2>3. QED
    BY <2>1, <2>2 DEF ReadyListValid
<1>11. ChannelInv'
  <2>1. ASSUME NEW t \in Sdom, NEW e \in Dim, RemoteUpwind(t, e)
        PROVE  ChannelOK(t, e)'
    <3>1. Sent(upwind[t][e])' = Sent(upwind[t][e])
      BY <2>1, <1>2, EdgeFacts DEF Sent, RemoteUpwind
    <3>2. ChannelOK(t, e)
      BY <2>1 DEF ChannelInv
    <3>3. QED
      BY <3>1, <3>2, <2>1, <1>4 DEF ChannelOK, Carries
  <2>2. QED
    BY <2>1 DEF ChannelInv
<1>12. QED
  BY <1>6, <1>7, <1>8, <1>9, <1>10, <1>11

(* The reduction separates the iterations.                                 *)
LEMMA FinishIterationInd ==
  ASSUME IndInv, TypeOK', NEW r \in Rank, FinishIteration(r)
  PROVE  IndInv'
<1> USE OwnerType DEF IndInv, TypeOK, CommTypeOK, FinishIteration, Goto, commVars
<1>1. \A t \in Sdom : owner[t] = r => t \notin queue
  BY DEF PhaseInv
<1>2. \A t \in Sdom : owner[t] = r => Completed(t) /\ ~ Completed(t)'
  BY DEF Completed
<1>3. \A t \in Sdom : owner[t] # r => (Completed(t)' <=> Completed(t))
  BY DEF Completed
<1>4. \A t \in Sdom : Sent(t)' = Sent(t)
  BY <1>2, <1>3, NumIterAssumption DEF Sent
<1>5. \A t \in Sdom, d \in Dim : Received(t, d)' = Received(t, d)
  BY <1>1, <1>2, <1>3, NumIterAssumption DEF Received, Taken
<1>6. \A t \in queue : owner[t] # r
  BY <1>1
<1>7. \A t \in queue, d \in Dim :
        /\ Pending(t, d)' <=> Pending(t, d)
        /\ Arrived(t, d)' <=> Arrived(t, d)
  BY <1>3, <1>6, EdgeFacts DEF Pending, Arrived, RemoteUpwind, LocalEdge
<1>8. PhaseInv'
  <2>1. \A t \in Sdom, d \in Dim : send[t][d] # "none" => owner[t] # r
    BY DEF PhaseInv
  <2>2. QED
    BY <1>1, <1>3, <2>1 DEF PhaseInv
<1>9. BarrierInv'
  <2>1. ASSUME NEW p \in Rank, NEW q \in Rank
        PROVE  iter'[p] <= iter'[q] \/ (iter'[p] = iter'[q] + 1 /\ pc'[q] = "reduce")
    <3>1. CASE p = r /\ q # r
      BY <3>1, NumIterAssumption DEF AllEntered
    <3>2. CASE p # r /\ q = r
      <4>1. iter[p] <= iter[r] + 1
        <5>1. iter[p] \in Int /\ iter[r] \in Int
          BY NumIterAssumption
        <5>2. iter[p] <= iter[r] \/ iter[p] = iter[r] + 1
          BY DEF BarrierInv
        <5>3. QED
          BY <5>1, <5>2
      <4>2. QED
        BY <3>2, <4>1, NumIterAssumption
    <3>3. CASE p # r /\ q # r
      BY <3>3 DEF BarrierInv
    <3>4. CASE p = r /\ q = r
      BY <3>4, NumIterAssumption
    <3>5. QED
      BY <3>1, <3>2, <3>3, <3>4
  <2>2. ASSUME NEW q \in Rank PROVE iter'[q] = NumIter <=> pc'[q] = "done"
    <3>1. CASE q = r
      <4>1. iter[r] # NumIter
        BY DEF BarrierInv
      <4>2. QED
        BY <3>1, <4>1, NumIterAssumption
    <3>2. CASE q # r
      BY <3>2 DEF BarrierInv
    <3>3. QED
      BY <3>1, <3>2
  <2>3. QED
    BY <2>1, <2>2 DEF BarrierInv
<1>10. DependsInv'
  <2>1. ASSUME NEW t \in queue
        PROVE  depends[t] = Count({d \in Dim : Pending(t, d)'})
    <3>1. {d \in Dim : Pending(t, d)'} = {d \in Dim : Pending(t, d)}
      BY <1>7
    <3>2. QED
      BY <3>1 DEF DependsInv
  <2>2. ASSUME NEW t \in Sdom, NEW d \in Dim,
               Completed(t)', HasUpwind(t, d), ~ RemoteUpwind(t, d)
        PROVE  Completed(upwind[t][d])'
    <3>1. owner[t] # r /\ owner[upwind[t][d]] = owner[t] /\ upwind[t][d] \in Sdom
      BY <2>2, <1>2, EdgeFacts DEF RemoteUpwind, LocalEdge
    <3>2. QED
      BY <2>2, <3>1, <1>3 DEF DependsInv
  <2>3. QED
    BY <2>1, <2>2 DEF DependsInv
<1>11. PlaneInv'
  <2>1. ASSUME NEW t \in queue, NEW d \in Dim, active[owner[t]] # t, Arrived(t, d)'
        PROVE  plane[t][d] = Flux(upwind[t][d], d, iter'[owner[t]])
    BY <2>1, <1>6, <1>7 DEF PlaneInv
  <2>2. ASSUME NEW t \in Sdom, NEW d \in Dim, Completed(t)' \/ active[owner[t]] = t
        PROVE  plane[t][d] = Flux(t, d, iter'[owner[t]])
    <3>1. active[r] = NoSdom /\ t # NoSdom
      BY GraphAssumption DEF PhaseInv, Neighbours
    <3>2. owner[t] # r
      BY <2>2, <3>1, <1>2
    <3>3. QED
      BY <2>2, <3>2, <1>3 DEF PlaneInv
  <2>3. QED
    BY <2>1, <2>2 DEF PlaneInv
<1>12. ReadyListValid'
  BY DEF ReadyListValid, ReadyList
<1>13. ChannelInv'
  <2>1. ASSUME NEW t \in Sdom, NEW d \in Dim, RemoteUpwind(t, d)
        PROVE  ChannelOK(t, d)'
    <3>1. Sent(upwind[t][d])' = Sent(upwind[t][d]) /\ Received(t, d)' = Received(t, d)
      BY <2>1, <1>4, <1>5, EdgeFacts DEF RemoteUpwind
    <3>2. ChannelOK(t, d)
      BY <2>1 DEF ChannelInv
    <3>3. QED
      BY <3>1, <3>2 DEF ChannelOK, Carries
  <2>2. QED
    BY <2>1 DEF ChannelInv
<1>14. QED
  BY <1>8, <1>9, <1>10, <1>11, <1>12, <1>13

(* What the list promises of the subdomain being completed: its inputs are *)
(* in, its receives are done and its local upwind neighbours complete.     *)
LEMMA ActiveFacts ==
  ASSUME IndInv, NEW r \in Rank, active[r] # NoSdom
  PROVE  /\ pc[r] = "work"
         /\ active[r] \in queue
         /\ active[r] \in Sdom
         /\ owner[active[r]] = r
         /\ active[r] \notin ready[r]
         /\ \A d \in Dim : ~ Pending(active[r], d) /\ recv[active[r]][d] = "none"
<1> DEFINE s == active[r]
<1> USE DEF IndInv, TypeOK, CommTypeOK
<1>1. pc[r] = "work"
  BY DEF PhaseInv
<1>2. s \in queue /\ owner[s] = r /\ depends[s] = 0 /\ s \notin ready[r]
  BY DEF ReadyListValid, ReadyList, Owned
<1>3. depends[s] = Count({d \in Dim : Pending(s, d)})
  BY <1>2 DEF DependsInv
<1>4. \A d \in Dim : ~ Pending(s, d)
  BY <1>2, <1>3, CountNat
<1>5. \A d \in Dim : recv[s][d] = "none"
  BY <1>2, <1>4 DEF PhaseInv, Pending, RemoteUpwind
<1>6. QED
  BY <1>1, <1>2, <1>4, <1>5

(* postSends releases local dependencies and fills empty channels.         *)
LEMMA MarkCompleteInd ==
  ASSUME IndInv, TypeOK', NEW r \in Rank, NEW s \in Sdom, active[r] = s, MarkComplete(r)
  PROVE  IndInv'
<1> USE OwnerType DEF IndInv, TypeOK, CommTypeOK
<1>1. /\ s \in Sdom /\ owner[s] = r /\ s \in queue /\ s \notin ready[r]
      /\ s # NoSdom
      /\ pc[r] = "work"
      /\ \A d \in Dim : ~ Pending(s, d) /\ recv[s][d] = "none"
  <2>1. s # NoSdom
    BY GraphAssumption DEF Neighbours
  <2>2. QED
    BY <2>1, ActiveFacts
<1>2. /\ pc'[r] \in {"work", "loop"}
      /\ pc'[r] = "loop" => ready[r] = {}
      /\ \A q \in Rank : q # r => pc'[q] = pc[q] /\ active'[q] = active[q]
      /\ active'[r] = NoSdom
      /\ \A t \in Sdom : t \in queue' <=> t \in queue /\ t # s
  BY <1>1 DEF MarkComplete, Goto
<1>u. recv' = recv /\ iter' = iter /\ ready' = ready
  BY DEF MarkComplete
<1> USE <1>u
<1> DEFINE Edges(t) == {e \in Dim : downwind[s][e] = t}
<1>3. /\ ~ Completed(s)
      /\ \A t \in Sdom : Completed(t)' <=> Completed(t) \/ t = s
  BY <1>1, <1>2 DEF Completed
<1>4. \A t \in Sdom, d \in Dim : Received(t, d)' = Received(t, d)
  <2> TAKE t \in Sdom, d \in Dim
  <2>1. CASE t = s
    BY <2>1, <1>1, <1>3 DEF Received, Taken
  <2>2. CASE t # s
    BY <2>2, <1>2, <1>3 DEF Received, Taken
  <2>3. QED
    BY <2>1, <2>2
<1>5. /\ Sent(s) = iter[r] /\ Sent(s)' = iter[r] + 1
      /\ \A t \in Sdom : t # s => Sent(t)' = Sent(t)
  BY <1>1, <1>3 DEF Sent
<1>6. /\ \A t \in Sdom :
           depends'[t] = IF t \in queue' /\ LocalEdge(s, t)
                           THEN depends[t] - Count(Edges(t)) ELSE depends[t]
      /\ \A t \in Sdom, d \in Dim :
           plane'[t][d] = IF downwind[s][d] = t /\ LocalEdge(s, t)
                            THEN Flux(s, d, iter[r]) ELSE plane[t][d]
      /\ \A t \in Sdom, d \in Dim :
           send'[t][d] = IF t = s /\ HasDownwind(s, d) /\ ~ LocalEdge(s, downwind[s][d])
                           THEN "posted" ELSE send[t][d]
  <2>1. \A d \in Dim : plane[s][d] = Flux(s, d, iter[r])
    BY <1>1 DEF PlaneInv
  <2>2. ASSUME NEW t \in Sdom
        PROVE  depends'[t] = IF t \in queue' /\ LocalEdge(s, t)
                               THEN depends[t] - Count(Edges(t)) ELSE depends[t]
    BY DEF MarkComplete, PostSends
  <2>3. ASSUME NEW t \in Sdom, NEW d \in Dim
        PROVE  plane'[t][d] = IF downwind[s][d] = t /\ LocalEdge(s, t)
                                THEN Flux(s, d, iter[r]) ELSE plane[t][d]
    BY <2>1 DEF MarkComplete, PostSends
  <2>4. ASSUME NEW t \in Sdom, NEW d \in Dim
        PROVE  send'[t][d] =
                 IF t = s /\ HasDownwind(s, d) /\ ~ LocalEdge(s, downwind[s][d])
                   THEN "posted" ELSE send[t][d]
    BY DEF MarkComplete, PostSends
  <2> HIDE DEF Edges
  <2>5. QED
    BY <2>2, <2>3, <2>4
<1> HIDE DEF Edges
<1>7. \A q \in Rank, t \in Sdom :
        chan'[q][t] = IF q # r \/ LocalEdge(s, t) THEN chan[q][t]
                                                  ELSE chan[q][t] \o Outgoing(s, t)
  BY <1>1 DEF MarkComplete, PostSends
<1>8. \A t \in Sdom, d \in Dim : downwind[s][d] = t <=> upwind[t][d] = s
  BY <1>1, GraphAssumption DEF Mirrored
<1>9. \A t \in Sdom, d \in Dim : upwind[t][d] = s =>
        /\ HasUpwind(t, d)
        /\ t # s
        /\ RemoteUpwind(t, d) <=> ~ LocalEdge(s, t)
  BY <1>1, <1>8, DownwindFacts, SMTT(30) DEF RemoteUpwind, LocalEdge
<1>10. ASSUME NEW t \in Sdom, NEW d \in Dim
       PROVE  /\ t # s => (Pending(t, d)' <=>
                             Pending(t, d) /\ ~ (upwind[t][d] = s /\ LocalEdge(s, t)))
              /\ Arrived(t, d)' <=>
                   Arrived(t, d) \/ (upwind[t][d] = s /\ LocalEdge(s, t))
  <2>1. CASE ~ HasUpwind(t, d)
    BY <2>1, <1>9 DEF Pending, Arrived
  <2>2. CASE RemoteUpwind(t, d)
    BY <2>2, <1>9 DEF Pending, Arrived, RemoteUpwind
  <2>3. CASE HasUpwind(t, d) /\ ~ RemoteUpwind(t, d)
    <3>1. Completed(upwind[t][d])' <=> Completed(upwind[t][d]) \/ upwind[t][d] = s
      BY <2>3, <1>3, EdgeFacts
    <3>2. Pending(t, d)' <=> ~ Completed(upwind[t][d])'
      BY <2>3 DEF Pending
    <3>3. Pending(t, d) <=> ~ Completed(upwind[t][d])
      BY <2>3 DEF Pending
    <3>4. Arrived(t, d)' <=> Completed(upwind[t][d])'
      BY <2>3 DEF Arrived
    <3>5. Arrived(t, d) <=> Completed(upwind[t][d])
      BY <2>3 DEF Arrived
    <3>6. QED
      BY <2>3, <3>1, <3>2, <3>3, <3>4, <3>5, <1>9
  <2>4. QED
    BY <2>1, <2>2, <2>3
<1>11. PhaseInv'
  <2>1. \A t \in queue' : pc'[owner[t]] \in {"add", "loop", "test", "work"}
    BY <1>1, <1>2 DEF PhaseInv
  <2>2. \A t \in Sdom, d \in Dim :
          recv[t][d] # "none" => t \in queue' /\ RemoteUpwind(t, d)
    BY <1>1, <1>2 DEF PhaseInv
  <2>3. ASSUME NEW t \in Sdom, NEW d \in Dim, send'[t][d] # "none"
        PROVE  Completed(t)' /\ pc'[owner[t]] # "reduce"
    <3>1. CASE t = s
      BY <3>1, <1>1, <1>2, <1>3
    <3>2. CASE t # s
      BY <2>3, <3>2, <1>2, <1>3, <1>6 DEF PhaseInv
    <3>3. QED
      BY <3>1, <3>2
  <2>4. \A q \in Rank : pc'[q] # "work" => ready[q] = {} /\ active'[q] = NoSdom
    BY <1>2 DEF PhaseInv
  <2>5. QED
    BY <2>1, <2>2, <2>3, <2>4 DEF PhaseInv
<1>12. BarrierInv'
  BY <1>1, <1>2 DEF BarrierInv
<1>13. DependsInv'
  <2>1. ASSUME NEW t \in queue'
        PROVE  depends'[t] = Count({d \in Dim : Pending(t, d)'})
    <3> DEFINE D == {d \in Dim : Pending(t, d)}
               E == Edges(t)
               F == {d \in Dim : Pending(t, d)'}
    <3>1. t \in Sdom /\ t \in queue /\ t # s /\ depends[t] = Count(D)
      BY <1>2 DEF DependsInv
    <3>2. CASE LocalEdge(s, t)
      <4>1. \A d \in Dim : d \in E => d \in D
        BY <3>1, <3>2, <1>3, <1>8, <1>9 DEF Pending, Edges
      <4>2. \A d \in Dim : d \in F <=> d \in D /\ d \notin E
        BY <3>1, <3>2, <1>8, <1>10 DEF Edges
      <4>3. depends'[t] = depends[t] - Count(E)
        BY <3>1, <3>2, <1>6
      <4> HIDE DEF D, E, F
      <4>4. Count(F) = Count(D) - Count(E)
        BY <4>1, <4>2, CountMinus
      <4>5. depends'[t] = Count(F)
        BY <3>1, <4>3, <4>4
      <4>6. QED
        BY <4>5 DEF F
    <3>3. CASE ~ LocalEdge(s, t)
      <4>1. F = D
        BY <3>1, <3>3, <1>10
      <4>2. QED
        BY <3>1, <3>3, <4>1, <1>6
    <3>4. QED
      BY <3>2, <3>3
  <2>2. ASSUME NEW t \in Sdom, NEW d \in Dim,
               Completed(t)', HasUpwind(t, d), ~ RemoteUpwind(t, d)
        PROVE  Completed(upwind[t][d])'
    <3>1. Completed(upwind[t][d])
      <4>1. CASE t = s
        BY <2>2, <4>1, <1>1 DEF Pending
      <4>2. CASE t # s
        BY <2>2, <4>2, <1>3 DEF DependsInv
      <4>3. QED
        BY <4>1, <4>2
    <3>2. QED
      BY <2>2, <3>1, <1>3, EdgeFacts
  <2>3. QED
    BY <2>1, <2>2 DEF DependsInv
<1>14. PlaneInv'
  <2>1. ASSUME NEW t \in queue', NEW d \in Dim, active'[owner[t]] # t, Arrived(t, d)'
        PROVE  plane'[t][d] = Flux(upwind[t][d], d, iter[owner[t]])
    <3>1. t \in Sdom /\ t \in queue /\ t # s
      BY <1>2
    <3>2. CASE upwind[t][d] = s /\ LocalEdge(s, t)
      <4>1. owner[t] = r /\ downwind[s][d] = t
        BY <3>1, <3>2, <1>1, <1>8 DEF LocalEdge
      <4>2. plane'[t][d] = Flux(s, d, iter[r])
        BY <3>1, <3>2, <4>1, <1>6
      <4>3. QED
        BY <3>2, <4>1, <4>2
    <3>3. CASE ~ (upwind[t][d] = s /\ LocalEdge(s, t))
      <4>1. Arrived(t, d) /\ plane'[t][d] = plane[t][d]
        BY <2>1, <3>1, <3>3, <1>6, <1>8, <1>10
      <4>2. active[owner[t]] # t
        BY <2>1, <3>1, <1>2
      <4>3. QED
        BY <3>1, <4>1, <4>2 DEF PlaneInv
    <3>4. QED
      BY <3>2, <3>3
  <2>2. ASSUME NEW t \in Sdom, NEW d \in Dim, Completed(t)' \/ active'[owner[t]] = t
        PROVE  plane'[t][d] = Flux(t, d, iter[owner[t]])
    <3>1. t # NoSdom
      BY GraphAssumption DEF Neighbours
    <3>2. Completed(t) \/ active[owner[t]] = t
      BY <2>2, <3>1, <1>1, <1>2, <1>3
    <3>3. ~ (downwind[s][d] = t /\ LocalEdge(s, t))
      <4>1. SUFFICES ASSUME upwind[t][d] = s, LocalEdge(s, t) PROVE FALSE
        BY <1>8
      <4>2. owner[t] = r /\ t # s /\ HasUpwind(t, d) /\ ~ RemoteUpwind(t, d)
        BY <4>1, <1>1, <1>9 DEF LocalEdge
      <4>3. Completed(t)
        BY <4>2, <3>2
      <4>4. Completed(s)
        BY <4>1, <4>2, <4>3 DEF DependsInv
      <4>5. QED
        BY <4>4, <1>3
    <3>4. plane'[t][d] = plane[t][d]
      BY <3>3, <1>6
    <3>5. QED
      BY <3>2, <3>4 DEF PlaneInv
  <2>3. QED
    BY <2>1, <2>2 DEF PlaneInv
<1>15. ReadyListValid'
  <2>1. ASSUME NEW t \in queue' PROVE depends'[t] >= 0
    <3>1. depends'[t] = Count({d \in Dim : Pending(t, d)'})
      BY <1>13 DEF DependsInv
    <3>2. QED
      BY <3>1, CountNat
  <2>2. ASSUME NEW q \in Rank, NEW t \in ready[q]
        PROVE  t \in ReadyList(q)'
    <3>1. t \in Sdom /\ owner[t] = q /\ t \in queue /\ depends[t] = 0
      BY DEF ReadyListValid, ReadyList, Owned
    <3>2. t # s
      BY <3>1, <1>1
    <3>3. t \in queue'
      BY <3>1, <3>2, <1>2
    <3>4. depends'[t] <= 0
      <4>1. Count(Edges(t)) \in Nat
        BY CountNat
      <4>2. depends'[t] = depends[t] - Count(Edges(t)) \/ depends'[t] = depends[t]
        BY <3>1, <1>6
      <4>3. QED
        BY <3>1, <4>1, <4>2
    <3>5. depends'[t] = 0
      BY <3>1, <3>3, <3>4, <2>1
    <3>6. QED
      BY <3>1, <3>3, <3>5 DEF ReadyList, Owned
  <2>3. ASSUME NEW q \in Rank, active'[q] # NoSdom
        PROVE  active'[q] \in ReadyList(q)' \ ready[q]
    <3>1. q # r /\ active'[q] = active[q]
      BY <2>3, <1>2
    <3>2. /\ active[q] \in Sdom /\ owner[active[q]] = q /\ active[q] \in queue
          /\ depends[active[q]] = 0 /\ active[q] \notin ready[q]
      BY <2>3, <3>1 DEF ReadyListValid, ReadyList, Owned
    <3>3. active[q] \in queue' /\ depends'[active[q]] = 0
      BY <3>1, <3>2, <1>1, <1>2, <1>6 DEF LocalEdge
    <3>4. QED
      BY <3>1, <3>2, <3>3 DEF ReadyList, Owned
  <2>4. QED
    BY <2>1, <2>2, <2>3 DEF ReadyListValid
<1>16. ChannelInv'
  <2>1. ASSUME NEW t \in Sdom, NEW d \in Dim, RemoteUpwind(t, d), upwind[t][d] = s
        PROVE  ChannelOK(t, d)'
    <3>1. downwind[s][d] = t /\ ~ LocalEdge(s, t) /\ HasDownwind(s, d)
      BY <2>1, <1>8, <1>9, GraphAssumption DEF HasDownwind, Neighbours
    <3>2. Received(t, d) = iter[r] /\ chan[r][t] = << >>
      <4>1. ChannelOK(t, d)
        BY <2>1 DEF ChannelInv
      <4>2. iter[r] # Received(t, d) + 1
        <5>1. SUFFICES ASSUME iter[r] = Received(t, d) + 1 PROVE FALSE
          OBVIOUS
        <5>2. iter[r] \in Int /\ iter[owner[t]] \in Int
          BY NumIterAssumption
        <5>3. iter[r] > iter[owner[t]]
          BY <5>1, <5>2, SMTT(30) DEF Received
        <5>4. iter[r] = iter[owner[t]] + 1 /\ pc[owner[t]] = "reduce"
          BY <5>2, <5>3 DEF BarrierInv
        <5>5. Received(t, d) = iter[owner[t]] + 1
          BY <5>4 DEF Received, Taken, Completed
        <5>6. QED
          BY <5>1, <5>2, <5>4, <5>5
      <4>3. QED
        BY <4>1, <4>2, <2>1, <1>1, <1>5 DEF ChannelOK
    <3>3. \A e \in Dim : downwind[s][e] = t <=> e = d
      BY <2>1, <3>1, OneEdge
    <3> DEFINE msg == [from |-> s, dim |-> d, buffered |-> FALSE, data |-> Vacuum]
    <3>4. Outgoing(s, t) = << msg >>
      BY <3>3, OutgoingOne
    <3>5. chan'[r][t] = << msg >>
      <4>1. chan'[r][t] = chan[r][t] \o Outgoing(s, t)
        BY <3>1, <1>7
      <4>2. << >> \o << msg >> = << msg >>
        BY ConcatSingle
      <4>3. QED
        BY <4>1, <4>2, <3>2, <3>4
    <3>6. send'[s][d] = "posted"
      BY <3>1, <1>1, <1>6
    <3>7. Len(chan'[r][t]) = 1 /\ Carries(chan[r][t][1], s, d, Received(t, d))'
      BY <3>5, <3>6 DEF Carries
    <3>8. Sent(s)' = Received(t, d)' + 1
      BY <3>2, <1>4, <1>5
    <3>9. owner[upwind[t][d]] = r
      BY <2>1, <1>1
    <3> HIDE DEF IndInv
    <3>10. QED
      BY <2>1, <3>7, <3>8, <3>9 DEF ChannelOK
  <2>2. ASSUME NEW t \in Sdom, NEW d \in Dim, RemoteUpwind(t, d), upwind[t][d] # s
        PROVE  ChannelOK(t, d)'
    <3> DEFINE u == upwind[t][d]
    <3>1. u \in Sdom /\ Sent(u)' = Sent(u) /\ send'[u][d] = send[u][d]
      BY <2>2, <1>5, <1>6, EdgeFacts DEF RemoteUpwind
    <3>2. chan'[owner[u]][t] = chan[owner[u]][t]
      <4>1. CASE owner[u] = r
        <5>1. \A e \in Dim : downwind[s][e] # t
          <6>1. ~ LocalEdge(s, t)
            BY <2>2, <4>1, <1>1 DEF RemoteUpwind, LocalEdge
          <6>2. \A e \in Dim : downwind[s][e] = t => e = d
            BY <2>2, <4>1, <6>1, <1>1, OneEdge
          <6>3. QED
            BY <2>2, <6>2, <1>8
        <5>2. Outgoing(s, t) = << >>
          BY <5>1, <1>1, OutgoingNone
        <5>3. chan[r][t] \o << >> = chan[r][t]
          OBVIOUS
        <5>4. chan'[r][t] = chan[r][t] \o Outgoing(s, t) \/ chan'[r][t] = chan[r][t]
          BY <1>7
        <5>5. QED
          BY <4>1, <5>2, <5>3, <5>4
      <4>2. CASE owner[u] # r
        BY <3>1, <4>2, <1>7
      <4>3. QED
        BY <4>1, <4>2
    <3>3. ChannelOK(t, d)
      BY <2>2 DEF ChannelInv
    <3>4. QED
      BY <3>1, <3>2, <3>3, <1>4 DEF ChannelOK, Carries
  <2>3. ASSUME NEW q \in Rank, NEW t \in Sdom,
               \A d \in Dim : RemoteUpwind(t, d) => owner[upwind[t][d]] # q
        PROVE  chan'[q][t] = << >>
    <3>1. chan[q][t] = << >>
      BY <2>3 DEF ChannelInv
    <3>2. CASE q = r /\ ~ LocalEdge(s, t)
      <4>1. \A e \in Dim : downwind[s][e] # t
        <5>1. ASSUME NEW e \in Dim, downwind[s][e] = t PROVE FALSE
          <6>1. upwind[t][e] = s
            BY <5>1, <1>8
          <6>2. RemoteUpwind(t, e)
            BY <3>2, <6>1, <1>9
          <6>3. QED
            BY <2>3, <3>2, <6>1, <6>2, <1>1
        <5>2. QED
          BY <5>1
      <4>2. Outgoing(s, t) = << >>
        BY <4>1, <1>1, OutgoingNone
      <4>3. << >> \o << >> = << >>
        OBVIOUS
      <4>4. chan'[q][t] = chan[q][t] \o Outgoing(s, t) \/ chan'[q][t] = chan[q][t]
        BY <3>2, <1>7
      <4>5. QED
        BY <3>1, <4>2, <4>3, <4>4
    <3>3. CASE q # r \/ LocalEdge(s, t)
      BY <3>1, <3>3, <1>7
    <3>4. QED
      BY <3>2, <3>3
  <2>4. QED
    BY <2>1, <2>2, <2>3 DEF ChannelInv
<1>17. QED
  BY <1>11, <1>12, <1>13, <1>14, <1>15, <1>16

(* A message in a channel is the one message of an edge of the graph: it   *)
(* carries the flux its receiver needs in its current iteration, or will   *)
(* read it from a plane that still holds that flux.                        *)
LEMMA MessageFacts ==
  ASSUME IndInv, NEW r \in Rank, NEW t \in Sdom, chan[r][t] # << >>
  PROVE  \E d \in Dim :
           /\ RemoteUpwind(t, d)
           /\ upwind[t][d] \in Sdom
           /\ owner[upwind[t][d]] = r
           /\ Len(chan[r][t]) = 1
           /\ Sent(upwind[t][d]) = Received(t, d) + 1
           /\ Carries(chan[r][t][1], upwind[t][d], d, Received(t, d))
           /\ Payload(chan[r][t][1], plane) = Flux(upwind[t][d], d, Received(t, d))
           /\ ~ chan[r][t][1].buffered => send[upwind[t][d]][d] = "posted"
<1> USE DEF IndInv
<1>1. PICK d \in Dim : RemoteUpwind(t, d) /\ owner[upwind[t][d]] = r
  BY DEF ChannelInv
<1> DEFINE u == upwind[t][d]
           m == chan[r][t][1]
<1>2. u \in Sdom
  BY <1>1, EdgeFacts DEF RemoteUpwind
<1>3. /\ Len(chan[r][t]) = 1
      /\ Sent(u) = Received(t, d) + 1
      /\ Carries(m, u, d, Received(t, d))
  BY <1>1 DEF ChannelInv, ChannelOK
<1>4. Payload(m, plane) = Flux(u, d, Received(t, d))
  <2>1. CASE m.buffered
    BY <1>3, <2>1 DEF Carries, Payload
  <2>2. CASE ~ m.buffered
    <3>1. send[u][d] = "posted"
      BY <1>3, <2>2 DEF Carries
    <3>2. Completed(u)
      BY <1>2, <3>1 DEF PhaseInv
    <3>3. plane[u][d] = Flux(u, d, iter[r])
      BY <1>1, <1>2, <3>2 DEF PlaneInv
    <3>4. iter[r] = Received(t, d)
      <4>1. Sent(u) = iter[r] + 1
        BY <1>1, <3>2 DEF Sent
      <4>2. iter[r] \in Int /\ iter[owner[t]] \in Int
        BY OwnerType, NumIterAssumption DEF TypeOK
      <4>3. Received(t, d) \in Int
        BY <4>2 DEF Received
      <4>4. QED
        BY <1>3, <4>1, <4>2, <4>3
    <3>5. QED
      BY <1>3, <2>2, <3>3, <3>4 DEF Carries, Payload
  <2>3. QED
    BY <2>1, <2>2
<1>5. ~ m.buffered => send[u][d] = "posted"
  BY <1>3 DEF Carries
<1>6. QED
  BY <1>1, <1>2, <1>3, <1>4, <1>5

(* MPI copies a send buffer.                                               *)
LEMMA BufferSendInd ==
  ASSUME IndInv, TypeOK', NEW r \in Rank, NEW t \in Sdom, BufferSend(r, t)
  PROVE  IndInv'
<1> USE OwnerType DEF IndInv, TypeOK, CommTypeOK, rankVars
<1>1. PICK i \in DOMAIN chan[r][t] :
        LET m == chan[r][t][i] IN
        /\ ~ m.buffered
        /\ chan' = [chan EXCEPT ![r][t][i] =
                      [m EXCEPT !.buffered = TRUE, !.data = plane[m.from][m.dim]]]
        /\ send' = [send EXCEPT ![m.from][m.dim] = "complete"]
        /\ UNCHANGED <<queue, depends, recv, plane>>
  BY DEF BufferSend, Buffer
<1>2. chan[r][t] # << >>
  BY <1>1, SMTT(30)
<1>3. PICK d \in Dim :
        /\ RemoteUpwind(t, d)
        /\ upwind[t][d] \in Sdom
        /\ owner[upwind[t][d]] = r
        /\ Len(chan[r][t]) = 1
        /\ Sent(upwind[t][d]) = Received(t, d) + 1
        /\ Carries(chan[r][t][1], upwind[t][d], d, Received(t, d))
        /\ Payload(chan[r][t][1], plane) = Flux(upwind[t][d], d, Received(t, d))
        /\ ~ chan[r][t][1].buffered => send[upwind[t][d]][d] = "posted"
  BY <1>2, MessageFacts
<1> DEFINE u == upwind[t][d]
           m == chan[r][t][1]
           n == [m EXCEPT !.buffered = TRUE, !.data = plane[u][d]]
<1>4. /\ i = 1 /\ ~ m.buffered /\ m.from = u /\ m.dim = d
      /\ send[u][d] = "posted"
      /\ plane[u][d] = Flux(u, d, Received(t, d))
  BY <1>1, <1>3, SMTT(30) DEF Carries, Payload
<1>5. UNCHANGED <<queue, depends, recv, plane, pc, iter, ready, active>>
  BY <1>1 DEF BufferSend
<1>6. \A s \in Sdom, e \in Dim :
        send'[s][e] = IF s = u /\ e = d THEN "complete" ELSE send[s][e]
  BY <1>1, <1>3, <1>4
<1>7. \A q \in Rank, s \in Sdom : q # r \/ s # t => chan'[q][s] = chan[q][s]
  BY <1>1
<1>8. Len(chan'[r][t]) = 1 /\ Carries(chan[r][t][1], u, d, Received(t, d))'
  <2>1. chan[r][t] \in Seq(Message) /\ m \in Message
    BY <1>3
  <2>2. chan'[r][t] = [chan[r][t] EXCEPT ![1] = n]
    BY <1>1, <1>4
  <2>3. Len(chan'[r][t]) = 1 /\ chan'[r][t][1] = n
    BY <1>3, <2>1, <2>2
  <2>4. n.from = u /\ n.dim = d /\ n.buffered /\ n.data = plane[u][d]
    BY <1>4, <2>1 DEF Message
  <2>5. Received(t, d)' = Received(t, d)
    BY <1>5 DEF Received, Taken, Completed
  <2>6. QED
    BY <1>4, <2>3, <2>4, <2>5 DEF Carries
<1>9. \A s \in Sdom : Completed(s)' <=> Completed(s)
  BY <1>5 DEF Completed
<1>10. PhaseInv'
  <2>1. \A s \in Sdom, e \in Dim : send'[s][e] # "none" => send[s][e] # "none"
    BY <1>4, <1>6, ZenonT(30)
  <2>2. QED
    BY <2>1, <1>5, <1>9 DEF PhaseInv
<1>11. BarrierInv'
  BY <1>5 DEF BarrierInv
<1>12. DependsInv'
  BY <1>5, <1>9, DependsFrame
<1>13. PlaneInv'
  BY <1>5, <1>9, Frame DEF PlaneInv
<1>14. ReadyListValid'
  BY <1>5 DEF ReadyListValid, ReadyList
<1>15. ChannelInv'
  <2>1. ASSUME NEW s \in Sdom, NEW e \in Dim, RemoteUpwind(s, e)
        PROVE  ChannelOK(s, e)'
    <3> DEFINE v == upwind[s][e]
    <3>1. v \in Sdom
      BY <2>1, EdgeFacts DEF RemoteUpwind
    <3>2. Sent(v)' = Sent(v) /\ Received(s, e)' = Received(s, e)
      BY <3>1, <1>5, <1>9, Frame
    <3>3. CASE s = t /\ owner[v] = r
      <4>1. e = d
        BY <2>1, <3>3, <1>3, OneSource
      <4> HIDE DEF IndInv
      <4>2. QED
        BY <3>2, <3>3, <4>1, <1>3, <1>8 DEF ChannelOK
    <3>4. CASE s # t \/ owner[v] # r
      <4>1. chan'[owner[v]][s] = chan[owner[v]][s]
        BY <3>1, <3>4, <1>7
      <4>2. v # u \/ e # d
        <5>1. downwind[v][e] = s /\ downwind[u][d] = t
          BY <2>1, <1>3, EdgeFacts DEF RemoteUpwind
        <5>2. QED
          BY <5>1, <3>4, <1>3
      <4>3. send'[v][e] = send[v][e]
        BY <3>1, <4>2, <1>6
      <4>4. ChannelOK(s, e)
        BY <2>1 DEF ChannelInv
      <4>5. QED
        BY <3>2, <4>1, <4>3, <4>4 DEF ChannelOK, Carries
    <3>5. QED
      BY <3>3, <3>4
  <2>2. ASSUME NEW q \in Rank, NEW s \in Sdom,
               \A e \in Dim : RemoteUpwind(s, e) => owner[upwind[s][e]] # q
        PROVE  chan'[q][s] = << >>
    <3>1. q # r \/ s # t
      BY <2>2, <1>3
    <3>2. QED
      BY <2>2, <3>1, <1>7, SMTT(30) DEF ChannelInv
  <2>3. QED
    BY <2>1, <2>2 DEF ChannelInv
<1>16. QED
  BY <1>10, <1>11, <1>12, <1>13, <1>14, <1>15

(* MPI matches a message with a receive.                                   *)
LEMMA DeliverInd ==
  ASSUME IndInv, TypeOK', NEW r \in Rank, NEW t \in Sdom, NEW d \in Dim, Deliver(r, t, d)
  PROVE  IndInv'
<1> USE OwnerType DEF IndInv, TypeOK, CommTypeOK, rankVars
<1> DEFINE u == upwind[t][d]
           m == chan[r][t][1]
<1>1. /\ chan[r][t] # << >>
      /\ recv[t][d] = "posted" /\ owner[u] = r
      /\ t \in queue /\ RemoteUpwind(t, d)
  <2>1. recv[t][d] = "posted" /\ owner[u] = r /\ chan[r][t] # << >>
    BY DEF Deliver, Match, FirstPosted, RecvSource
  <2>2. QED
    BY <2>1 DEF PhaseInv
<1>2. /\ u \in Sdom /\ downwind[u][d] = t
      /\ Len(chan[r][t]) = 1
      /\ Sent(u) = Received(t, d) + 1
      /\ Carries(m, u, d, Received(t, d))
      /\ Payload(m, plane) = Flux(u, d, Received(t, d))
      /\ ~ m.buffered => send[u][d] = "posted"
  <2>1. PICK e \in Dim :
          /\ RemoteUpwind(t, e)
          /\ upwind[t][e] \in Sdom
          /\ owner[upwind[t][e]] = r
          /\ Len(chan[r][t]) = 1
          /\ Sent(upwind[t][e]) = Received(t, e) + 1
          /\ Carries(chan[r][t][1], upwind[t][e], e, Received(t, e))
          /\ Payload(chan[r][t][1], plane) = Flux(upwind[t][e], e, Received(t, e))
          /\ ~ chan[r][t][1].buffered => send[upwind[t][e]][e] = "posted"
    BY <1>1, MessageFacts
  <2>2. e = d
    BY <1>1, <2>1, OneSource
  <2>3. downwind[u][d] = t
    BY <1>1, EdgeFacts DEF RemoteUpwind
  <2>4. QED
    BY <2>1, <2>2, <2>3
<1>3. Head(chan[r][t]) = m /\ Tail(chan[r][t]) = << >>
  <2> DEFINE c == chan[r][t]
  <2>1. c \in Seq(Message) /\ c # << >> /\ Len(c) = 1
    BY <1>1, <1>2
  <2> HIDE DEF c
  <2>2. Head(c) = c[1]
    BY <2>1
  <2>3. Tail(c) \in Seq(Message) /\ Len(Tail(c)) = 0
    BY <2>1
  <2>4. Tail(c) = << >>
    BY <2>3, EmptySeq
  <2>5. QED
    BY <2>2, <2>4 DEF c
<1>4. m.from = u /\ m.dim = d
  BY <1>2 DEF Carries
<1>5. /\ \A s \in Sdom, e \in Dim :
           plane'[s][e] = IF s = t /\ e = d THEN Flux(u, d, Received(t, d)) ELSE plane[s][e]
      /\ \A s \in Sdom, e \in Dim :
           recv'[s][e] = IF s = t /\ e = d THEN "complete" ELSE recv[s][e]
      /\ \A s \in Sdom, e \in Dim : s # u \/ e # d => send'[s][e] = send[s][e]
      /\ \A s \in Sdom, e \in Dim : send'[s][e] # "none" => send[s][e] # "none"
  <2>1. plane' = [plane EXCEPT ![t][d] = Flux(u, d, Received(t, d))]
    BY <1>2, <1>3 DEF Deliver, Match
  <2>2. recv' = [recv EXCEPT ![t][d] = "complete"]
    BY DEF Deliver, Match
  <2>3. send' = IF m.buffered THEN send ELSE [send EXCEPT ![u][d] = "complete"]
    <3>1. send' = LET h == Head(chan[r][t]) IN
                    IF h.buffered THEN send ELSE [send EXCEPT ![h.from][h.dim] = "complete"]
      BY DEF Deliver, Match
    <3>2. QED
      BY <3>1, <1>3, <1>4, Zenon
  <2>4. \A s \in Sdom, e \in Dim :
          plane'[s][e] = IF s = t /\ e = d THEN Flux(u, d, Received(t, d)) ELSE plane[s][e]
    BY <2>1
  <2>5. \A s \in Sdom, e \in Dim :
          recv'[s][e] = IF s = t /\ e = d THEN "complete" ELSE recv[s][e]
    BY <2>2
  <2>6. /\ \A s \in Sdom, e \in Dim : s # u \/ e # d => send'[s][e] = send[s][e]
        /\ \A s \in Sdom, e \in Dim : send'[s][e] # "none" => send[s][e] # "none"
    <3>1. CASE m.buffered
      BY <2>3, <3>1
    <3>2. CASE ~ m.buffered
      BY <2>3, <3>2, <1>2
    <3>3. QED
      BY <3>1, <3>2
  <2>7. QED
    BY <2>4, <2>5, <2>6
<1>6. chan'[r][t] = << >> /\ \A q \in Rank, s \in Sdom :
        q # r \/ s # t => chan'[q][s] = chan[q][s]
  BY <1>3 DEF Deliver, Match
<1>7. queue' = queue /\ depends' = depends /\ pc' = pc /\ iter' = iter
      /\ ready' = ready /\ active' = active
  BY DEF Deliver, Match
<1>8. \A s \in Sdom : Completed(s)' <=> Completed(s)
  BY <1>7 DEF Completed
<1>9. ~ Completed(t) /\ active[owner[t]] # t
  <2>1. ~ Completed(t)
    BY <1>1 DEF Completed, PhaseInv
  <2>2. Pending(t, d)
    BY <1>1 DEF Pending, RemoteUpwind
  <2>3. t # NoSdom
    BY GraphAssumption DEF Neighbours
  <2>4. QED
    BY <2>1, <2>2, <2>3, ActiveFacts
<1>10. /\ Received(t, d) = iter[owner[t]]
       /\ Received(t, d)' = Received(t, d) + 1
       /\ \A s \in Sdom, e \in Dim : s # t \/ e # d => Received(s, e)' = Received(s, e)
  <2>1. Received(t, d) = iter[owner[t]]
    BY <1>1, <1>9, NumIterAssumption DEF Received, Taken
  <2>2. Received(t, d)' = iter[owner[t]] + 1
    BY <1>1, <1>5, <1>7 DEF Received, Taken
  <2>3. ASSUME NEW s \in Sdom, NEW e \in Dim, s # t \/ e # d
        PROVE  Received(s, e)' = Received(s, e)
    BY <2>3, <1>5, <1>7, <1>8 DEF Received, Taken
  <2>4. QED
    BY <2>1, <2>2, <2>3
<1>11. \A s \in Sdom, e \in Dim :
         /\ Pending(s, e)' <=> Pending(s, e)
         /\ Arrived(s, e)' => Arrived(s, e) \/ (s = t /\ e = d)
  <2> TAKE s \in Sdom, e \in Dim
  <2>1. recv'[s][e] = "none" <=> recv[s][e] = "none"
    BY <1>1, <1>5
  <2>2. HasUpwind(s, e) => (Completed(upwind[s][e])' <=> Completed(upwind[s][e]))
    BY <1>8, EdgeFacts
  <2>3. Pending(s, e)' <=> Pending(s, e)
    BY <2>1, <2>2 DEF Pending
  <2>4. Arrived(s, e)' => Arrived(s, e) \/ (s = t /\ e = d)
    BY <2>2, <1>5 DEF Arrived
  <2>5. QED
    BY <2>3, <2>4
<1>12. PhaseInv'
  <2>1. \A s \in Sdom, e \in Dim : recv'[s][e] # "none" => recv[s][e] # "none"
    BY <1>1, <1>5
  <2>2. QED
    BY <2>1, <1>5, <1>7, <1>8 DEF PhaseInv
<1>13. BarrierInv'
  BY <1>7 DEF BarrierInv
<1>14. DependsInv'
  <2>1. ASSUME NEW s \in queue PROVE depends[s] = Count({e \in Dim : Pending(s, e)'})
    <3>1. {e \in Dim : Pending(s, e)'} = {e \in Dim : Pending(s, e)}
      BY <1>11
    <3>2. QED
      BY <3>1 DEF DependsInv
  <2>2. ASSUME NEW s \in Sdom, NEW e \in Dim,
               Completed(s)', HasUpwind(s, e), ~ RemoteUpwind(s, e)
        PROVE  Completed(upwind[s][e])'
    BY <2>2, <1>8, EdgeFacts DEF DependsInv
  <2>3. QED
    BY <2>1, <2>2, <1>7 DEF DependsInv
<1>15. PlaneInv'
  <2>1. ASSUME NEW s \in queue, NEW e \in Dim, active[owner[s]] # s, Arrived(s, e)'
        PROVE  plane'[s][e] = Flux(upwind[s][e], e, iter[owner[s]])
    <3>1. CASE s = t /\ e = d
      BY <3>1, <1>5, <1>10
    <3>2. CASE s # t \/ e # d
      <4>1. Arrived(s, e) /\ plane'[s][e] = plane[s][e]
        BY <2>1, <3>2, <1>5, <1>11
      <4>2. QED
        BY <2>1, <4>1 DEF PlaneInv
    <3>3. QED
      BY <3>1, <3>2
  <2>2. ASSUME NEW s \in Sdom, NEW e \in Dim, Completed(s)' \/ active[owner[s]] = s
        PROVE  plane'[s][e] = Flux(s, e, iter[owner[s]])
    <3>1. s # t
      BY <2>2, <1>8, <1>9
    <3>2. QED
      BY <2>2, <3>1, <1>5, <1>8 DEF PlaneInv
  <2>3. QED
    BY <2>1, <2>2, <1>7 DEF PlaneInv
<1>16. ReadyListValid'
  BY <1>7 DEF ReadyListValid, ReadyList
<1>17. ChannelInv'
  <2>1. ASSUME NEW s \in Sdom, NEW e \in Dim, RemoteUpwind(s, e)
        PROVE  ChannelOK(s, e)'
    <3> DEFINE v == upwind[s][e]
    <3>1. v \in Sdom
      BY <2>1, EdgeFacts DEF RemoteUpwind
    <3>2. Sent(v)' = Sent(v)
      BY <3>1, <1>7, <1>8 DEF Sent
    <3>3. CASE s = t /\ owner[v] = r
      <4>1. e = d
        BY <2>1, <3>3, <1>1, OneSource
      <4> HIDE DEF IndInv
      <4>2. QED
        BY <3>2, <3>3, <4>1, <1>2, <1>6, <1>10 DEF ChannelOK
    <3>4. CASE s # t \/ owner[v] # r
      <4>1. chan'[owner[v]][s] = chan[owner[v]][s]
        BY <3>1, <3>4, <1>6
      <4>2. v # u \/ e # d
        <5>1. downwind[v][e] = s
          BY <2>1, EdgeFacts DEF RemoteUpwind
        <5>2. QED
          BY <5>1, <3>4, <1>1, <1>2
      <4>3. send'[v][e] = send[v][e]
        BY <3>1, <4>2, <1>5
      <4>4. Received(s, e)' = Received(s, e)
        BY <3>4, <4>2, <1>1, <1>10
      <4>5. ChannelOK(s, e)
        BY <2>1 DEF ChannelInv
      <4>6. QED
        BY <3>2, <4>1, <4>3, <4>4, <4>5 DEF ChannelOK, Carries
    <3>5. QED
      BY <3>3, <3>4
  <2>2. ASSUME NEW q \in Rank, NEW s \in Sdom,
               \A e \in Dim : RemoteUpwind(s, e) => owner[upwind[s][e]] # q
        PROVE  chan'[q][s] = << >>
    <3>1. chan[q][s] = << >>
      BY <2>2 DEF ChannelInv
    <3>2. QED
      BY <3>1, <1>6
  <2>3. QED
    BY <2>1, <2>2 DEF ChannelInv
<1>18. QED
  BY <1>12, <1>13, <1>14, <1>15, <1>16, <1>17

(* The initial states satisfy the inductive invariant.                     *)
LEMMA InitInd == Init => IndInv
<1> SUFFICES ASSUME Init PROVE IndInv
  OBVIOUS
<1> USE OwnerType, NumIterAssumption DEF Init, CommInit, LoopInit
<1>1. TypeOK
  BY TypeInit
<1>2. \A s \in Sdom : ~ Completed(s)
  BY DEF Completed
<1>3. PhaseInv /\ BarrierInv /\ ReadyListValid
  <2>1. PhaseInv
    BY DEF PhaseInv
  <2>2. BarrierInv
    BY DEF BarrierInv
  <2>3. ReadyListValid
    BY DEF ReadyListValid
  <2>4. QED
    BY <2>1, <2>2, <2>3
<1>4. DependsInv /\ PlaneInv
  <2>1. \A s \in Sdom : active[owner[s]] # s
    BY GraphAssumption DEF Neighbours
  <2>2. QED
    BY <1>2, <2>1 DEF DependsInv, PlaneInv
<1>5. ChannelInv
  <2>1. ASSUME NEW t \in Sdom, NEW d \in Dim, RemoteUpwind(t, d) PROVE ChannelOK(t, d)
    <3>1. upwind[t][d] \in Sdom
      BY <2>1, EdgeFacts DEF RemoteUpwind
    <3>2. Sent(upwind[t][d]) = 0 /\ Received(t, d) = 0
      BY <3>1, <1>2 DEF Sent, Received, Taken
    <3>3. QED
      BY <3>1, <3>2 DEF ChannelOK
  <2>2. QED
    BY <2>1 DEF ChannelInv
<1>6. QED
  BY <1>1, <1>3, <1>4, <1>5 DEF IndInv

(* Every step preserves it.                                                *)
LEMMA StepInd == IndInv /\ [Next]_vars => IndInv'
<1> SUFFICES ASSUME IndInv, [Next]_vars PROVE IndInv'
  OBVIOUS
<1>1. TypeOK'
  BY TypeStep DEF IndInv
<1>2. ASSUME NEW r \in Rank, RankStep(r) PROVE IndInv'
  <2>1. CASE StartSweep(r)
    BY <1>1, <2>1, StartSweepInd
  <2>2. ASSUME NEW s \in Sdom, AddSubdomain(r, s) PROVE IndInv'
    BY <1>1, <2>2, AddSubdomainInd
  <2>3. CASE Loop(r)
    BY <1>1, <2>3, LoopInd
  <2>4. ASSUME NEW s \in Sdom, NEW d \in Dim, TestRecieves(r, s, d) PROVE IndInv'
    BY <1>1, <2>4, TestRecievesInd
  <2>5. CASE ReadySubdomains(r)
    BY <1>1, <2>5, ReadySubdomainsInd
  <2>6. ASSUME NEW s \in Sdom, SweepSubdomain(r, s) PROVE IndInv'
    BY <1>1, <2>6, SweepSubdomainInd
  <2>7. CASE MarkComplete(r)
    <3>1. active[r] \in Sdom
      BY <2>7 DEF IndInv, TypeOK, CommTypeOK, MarkComplete
    <3>2. QED
      BY <1>1, <2>7, <3>1, MarkCompleteInd
  <2>8. CASE Flush(r)
    BY <1>1, <2>8, FlushInd
  <2>9. CASE FinishIteration(r)
    BY <1>1, <2>9, FinishIterationInd
  <2>10. QED
    BY <1>2, <2>1, <2>2, <2>3, <2>4, <2>5, <2>6, <2>7, <2>8, <2>9 DEF RankStep
<1>3. ASSUME NEW r \in Rank, NEW t \in Sdom, BufferSend(r, t) PROVE IndInv'
  BY <1>1, <1>3, BufferSendInd
<1>4. ASSUME NEW r \in Rank, NEW t \in Sdom, NEW d \in Dim, Deliver(r, t, d) PROVE IndInv'
  BY <1>1, <1>4, DeliverInd
<1>5. CASE UNCHANGED vars
  <2>1. UNCHANGED <<queue, depends, recv, send, plane, chan, pc, iter, ready, active>>
    BY <1>5 DEF vars, commVars, rankVars
  <2>2. \A s \in Sdom : Completed(s)' <=> Completed(s)
    BY <2>1 DEF Completed
  <2>3. PhaseInv' /\ BarrierInv' /\ ReadyListValid'
    BY <2>1, <2>2 DEF IndInv, PhaseInv, BarrierInv, ReadyListValid, ReadyList
  <2>4. DependsInv'
    BY <2>1, <2>2, DependsFrame DEF IndInv
  <2>5. PlaneInv'
    BY <2>1, <2>2, Frame DEF IndInv, PlaneInv, TypeOK, CommTypeOK
  <2>6. ChannelInv'
    BY <2>1, <2>2, ChannelFrame DEF IndInv
  <2>7. QED
    BY <1>1, <2>3, <2>4, <2>5, <2>6 DEF IndInv
<1>6. QED
  BY <1>2, <1>3, <1>4, <1>5 DEF Next, AllDone

(* IndInv is an invariant of the solver.                                   *)
THEOREM SweepInvariant == Spec => []IndInv
BY InitInd, StepInd, PTL DEF Spec

-----------------------------------------------------------------------------
(* What follows from the invariant.                                        *)

(* The state of every rank, of the communicator and of MPI stays well      *)
(* formed, whatever the graph.                                             *)
THEOREM TypeCorrect == Spec => []TypeOK
<1>1. IndInv => TypeOK
  BY DEF IndInv
<1>2. QED
  BY <1>1, SweepInvariant, PTL

(* findSubdomain never aborts and no dependency count goes negative.       *)
THEOREM ReadyListStaysValid == Spec => []ReadyListValid
<1>1. IndInv => ReadyListValid
  BY DEF IndInv
<1>2. QED
  BY <1>1, SweepInvariant, PTL

-----------------------------------------------------------------------------
(* A queued subdomain whose count is zero waits for nothing.               *)
LEMMA ZeroCount ==
  ASSUME IndInv, NEW s \in queue, depends[s] = 0
  PROVE  \A d \in Dim :
           /\ recv[s][d] = "none"
           /\ HasUpwind(s, d) => Arrived(s, d)
<1> USE DEF IndInv, TypeOK, CommTypeOK
<1>1. depends[s] = Count({d \in Dim : Pending(s, d)})
  BY DEF DependsInv
<1>2. \A d \in Dim : ~ Pending(s, d)
  BY <1>1, CountNat
<1>3. \A d \in Dim : recv[s][d] = "none"
  BY <1>2 DEF PhaseInv, Pending, RemoteUpwind
<1>4. QED
  BY <1>2, <1>3 DEF Pending, Arrived

(* What is known of a subdomain on the ready list.                         *)
LEMMA ReadyFacts ==
  ASSUME IndInv, NEW r \in Rank, NEW s \in ready[r]
  PROVE  s \in queue /\ s \in Sdom /\ owner[s] = r /\ depends[s] = 0 /\ active[r] # s
<1>1. s \in ReadyList(r) /\ (active[r] # NoSdom => active[r] # s)
  BY DEF IndInv, ReadyListValid
<1>2. s \in Sdom /\ owner[s] = r /\ s \in queue /\ depends[s] = 0
  BY <1>1 DEF ReadyList, Owned
<1>3. s # NoSdom
  BY <1>2, GraphAssumption DEF Neighbours
<1>4. QED
  BY <1>1, <1>2, <1>3

(* The sweep kernel reads the flux of this iteration in every dimension.   *)
THEOREM ReadyReadsItsInputs == Spec => []ReadyHasInputs
<1>1. IndInv => ReadyHasInputs
  <2> SUFFICES ASSUME IndInv, NEW r \in Rank, NEW s \in ready[r], NEW d \in Dim
               PROVE  Incoming(s)[d] = Expected(s, d) /\ recv[s][d] = "none"
    BY DEF ReadyHasInputs
  <2>1. s \in queue /\ s \in Sdom /\ owner[s] = r /\ depends[s] = 0 /\ active[r] # s
    BY ReadyFacts
  <2>2. recv[s][d] = "none" /\ (HasUpwind(s, d) => Arrived(s, d))
    BY <2>1, ZeroCount
  <2>3. HasUpwind(s, d) => plane[s][d] = Flux(upwind[s][d], d, iter[owner[s]])
    BY <2>1, <2>2 DEF IndInv, PlaneInv
  <2>4. QED
    BY <2>2, <2>3 DEF Incoming, Expected
<1>2. QED
  BY <1>1, SweepInvariant, PTL

(* Each receive is matched with the plane it was posted for, although all  *)
(* messages to a subdomain have the same tag in every iteration.           *)
THEOREM MessagesMatchAsMeant == Spec => []MatchedAsMeant
<1>1. IndInv => MatchedAsMeant
  <2> SUFFICES ASSUME IndInv, NEW r \in Rank, NEW t \in Sdom, NEW d \in Dim,
                      chan[r][t] # << >>, FirstPosted(r, t, d)
               PROVE  LET m == Head(chan[r][t])
                      IN  /\ m.from = upwind[t][d] /\ m.dim = d
                          /\ Payload(m, plane) = Expected(t, d)
    BY DEF MatchedAsMeant
  <2>1. recv[t][d] = "posted" /\ owner[upwind[t][d]] = r
    BY DEF FirstPosted, RecvSource
  <2>2. t \in queue /\ RemoteUpwind(t, d)
    BY <2>1 DEF IndInv, PhaseInv
  <2>3. PICK e \in Dim :
          /\ RemoteUpwind(t, e)
          /\ owner[upwind[t][e]] = r
          /\ Len(chan[r][t]) = 1
          /\ Carries(chan[r][t][1], upwind[t][e], e, Received(t, e))
          /\ Payload(chan[r][t][1], plane) = Flux(upwind[t][e], e, Received(t, e))
    BY MessageFacts
  <2>4. e = d
    BY <2>1, <2>2, <2>3, OneSource
  <2>5. Received(t, d) = iter[owner[t]]
    <3>1. ~ Completed(t)
      BY <2>2 DEF Completed, IndInv, PhaseInv
    <3>2. QED
      BY <2>1, <3>1, OwnerType, NumIterAssumption DEF Received, Taken, IndInv, TypeOK
  <2>6. Head(chan[r][t]) = chan[r][t][1]
    BY DEF IndInv, TypeOK, CommTypeOK
  <2>7. QED
    BY <2>2, <2>3, <2>4, <2>5, <2>6 DEF Carries, Expected, RemoteUpwind
<1>2. QED
  BY <1>1, SweepInvariant, PTL

(* MPI never holds two messages with one envelope.                         *)
THEOREM AtMostOneMessage == Spec => []OneMessagePerEnvelope
<1>1. IndInv => OneMessagePerEnvelope
  <2> SUFFICES ASSUME IndInv, NEW r \in Rank, NEW t \in Sdom PROVE Len(chan[r][t]) <= 1
    BY DEF OneMessagePerEnvelope
  <2>1. CASE chan[r][t] = << >>
    BY <2>1
  <2>2. CASE chan[r][t] # << >>
    <3>1. \E d \in Dim : Len(chan[r][t]) = 1
      BY <2>2, MessageFacts
    <3>2. QED
      BY <3>1
  <2>3. QED
    BY <2>1, <2>2
<1>2. QED
  BY <1>1, SweepInvariant, PTL

-----------------------------------------------------------------------------
(* MPI still has to read a plane only of a completed subdomain, whose send *)
(* request has not completed.                                              *)
LEMMA UnbufferedFacts ==
  ASSUME IndInv, NEW r \in Rank, NEW t \in Sdom, NEW i \in DOMAIN chan[r][t],
         ~ chan[r][t][i].buffered
  PROVE  LET m == chan[r][t][i]
         IN  /\ m.from \in Sdom /\ owner[m.from] = r /\ m.dim \in Dim
             /\ send[m.from][m.dim] = "posted"
             /\ Completed(m.from) /\ pc[r] # "reduce"
<1>1. chan[r][t] # << >>
  OBVIOUS
<1>2. PICK e \in Dim :
        /\ upwind[t][e] \in Sdom
        /\ owner[upwind[t][e]] = r
        /\ Len(chan[r][t]) = 1
        /\ Carries(chan[r][t][1], upwind[t][e], e, Received(t, e))
        /\ ~ chan[r][t][1].buffered => send[upwind[t][e]][e] = "posted"
  BY <1>1, MessageFacts
<1>3. i = 1
  BY <1>2 DEF IndInv, TypeOK, CommTypeOK
<1>4. send[upwind[t][e]][e] = "posted"
  BY <1>2, <1>3
<1>5. Completed(upwind[t][e]) /\ pc[r] # "reduce"
  BY <1>2, <1>4 DEF IndInv, PhaseInv
<1>6. QED
  BY <1>2, <1>3, <1>4, <1>5 DEF Carries

(* When a rank leaves its sweep nothing refers to the planes any more.     *)
THEOREM NothingPending == Spec => []NothingPendingAfterSweep
<1>1. IndInv => NothingPendingAfterSweep
  <2> SUFFICES ASSUME IndInv, NEW r \in Rank, pc[r] \in {"reduce", "start", "done"}
               PROVE  /\ ~ WorkRemaining(r)
                      /\ \A s \in Owned(r) : \A d \in Dim : send[s][d] = "none"
                      /\ \A t \in Sdom : \A i \in DOMAIN chan[r][t] : chan[r][t][i].buffered
    BY DEF NothingPendingAfterSweep
  <2>1. ~ WorkRemaining(r)
    BY DEF WorkRemaining, Owned, IndInv, PhaseInv
  <2>2. ASSUME NEW s \in Owned(r), NEW d \in Dim PROVE send[s][d] = "none"
    BY DEF Owned, IndInv, PhaseInv, Completed
  <2>3. ASSUME NEW t \in Sdom, NEW i \in DOMAIN chan[r][t] PROVE chan[r][t][i].buffered
    BY <2>2, UnbufferedFacts DEF Owned
  <2>4. QED
    BY <2>1, <2>2, <2>3
<1>2. QED
  BY <1>1, SweepInvariant, PTL

(* A plane with a pending send or receive is only written by the receive.  *)
THEOREM BuffersSafe == Spec => BuffersBelongToMPI
<1> DEFINE Safe == \A s \in Sdom, d \in Dim : plane'[s][d] # plane[s][d] =>
                     /\ ~ BeingSent(s, d)
                     /\ recv[s][d] = "posted" => recv'[s][d] = "complete"
<1>1. IndInv /\ [Next]_vars => Safe
  <2> SUFFICES ASSUME IndInv, [Next]_vars, NEW s \in Sdom, NEW d \in Dim,
                      plane'[s][d] # plane[s][d]
               PROVE  /\ ~ BeingSent(s, d)
                      /\ recv[s][d] = "posted" => recv'[s][d] = "complete"
    OBVIOUS
  <2> DEFINE Goal == /\ ~ BeingSent(s, d)
                     /\ recv[s][d] = "posted" => recv'[s][d] = "complete"
  <2>a. owner[s] \in Rank
    BY OwnerType
  <2>1. BeingSent(s, d) => Completed(s) /\ pc[owner[s]] # "reduce"
    BY <2>a, UnbufferedFacts DEF BeingSent
  <2>2. s \in queue => ~ Completed(s)
    BY DEF IndInv, PhaseInv, Completed
  <2>3. recv[s][d] = "posted" =>
          s \in queue /\ RemoteUpwind(s, d) /\ pc[owner[s]] \in {"add", "loop", "test", "work"}
    BY DEF IndInv, PhaseInv
  <2>4. ASSUME NEW r \in Rank, StartSweep(r) PROVE Goal
    <3>1. owner[s] = r /\ pc[r] = "start"
      BY <2>4 DEF StartSweep, IndInv, TypeOK, CommTypeOK
    <3>2. QED
      BY <3>1, <2>1, <2>3 DEF Completed
  <2>5. ASSUME NEW r \in Rank, NEW x \in Sdom, SweepSubdomain(r, x) PROVE Goal
    <3>1. s = x /\ x \in ready[r]
      BY <2>5 DEF SweepSubdomain, IndInv, TypeOK, CommTypeOK
    <3>2. s \in queue /\ recv[s][d] = "none"
      BY <3>1, ReadyFacts, ZeroCount
    <3>3. QED
      BY <3>2, <2>1, <2>2
  <2>6. ASSUME NEW r \in Rank, MarkComplete(r) PROVE Goal
    <3> DEFINE x == active[r]
    <3>1. x \in queue /\ x \in Sdom
      BY <2>6 DEF MarkComplete, IndInv, TypeOK, CommTypeOK
    <3>2. downwind[x][d] = s /\ LocalEdge(x, s)
      BY <2>6 DEF MarkComplete, PostSends, IndInv, TypeOK, CommTypeOK
    <3>3. upwind[s][d] = x /\ HasUpwind(s, d) /\ ~ RemoteUpwind(s, d)
      BY <3>1, <3>2, DownwindFacts DEF RemoteUpwind, LocalEdge
    <3>4. ~ Completed(x)
      BY <3>1 DEF IndInv, PhaseInv, Completed
    <3>5. ~ Completed(s)
      BY <3>3, <3>4 DEF IndInv, DependsInv
    <3>6. QED
      BY <3>3, <3>5, <2>1, <2>3
  <2>7. ASSUME NEW r \in Rank, NEW t \in Sdom, NEW e \in Dim, Deliver(r, t, e) PROVE Goal
    <3>1. s = t /\ d = e
      BY <2>7 DEF Deliver, Match, IndInv, TypeOK, CommTypeOK
    <3>2. recv[s][d] = "posted" /\ recv'[s][d] = "complete"
      BY <2>7, <3>1 DEF Deliver, Match, FirstPosted, IndInv, TypeOK, CommTypeOK
    <3>3. QED
      BY <3>2, <2>1, <2>2, <2>3
  <2>8. ASSUME plane' # plane
        PROVE  \/ \E r \in Rank : StartSweep(r)
               \/ \E r \in Rank, x \in Sdom : SweepSubdomain(r, x)
               \/ \E r \in Rank : MarkComplete(r)
               \/ \E r \in Rank, t \in Sdom, e \in Dim : Deliver(r, t, e)
    <3>1. ~ UNCHANGED vars
      BY <2>8 DEF vars, commVars
    <3>2. \A r \in Rank : RankStep(r) =>
            \/ StartSweep(r)
            \/ \E x \in Sdom : SweepSubdomain(r, x)
            \/ MarkComplete(r)
      BY <2>8 DEF RankStep, AddSubdomain, PostRecvs, Loop, TestRecieves, TestReceive,
                  ReadySubdomains, Flush, WaitAllSends, FinishIteration, commVars
    <3>3. \A r \in Rank, t \in Sdom : ~ BufferSend(r, t)
      BY <2>8 DEF BufferSend, Buffer
    <3>4. QED
      BY <3>1, <3>2, <3>3 DEF Next, AllDone
  <2>9. QED
    BY <2>4, <2>5, <2>6, <2>7, <2>8
<1>2. QED
  BY <1>1, SweepInvariant, PTL DEF Spec, BuffersBelongToMPI

-----------------------------------------------------------------------------
(* The solver implements the abstract transport sweep.                     *)

(* A step that is not a sweep leaves every count alone.                    *)
LEMMA StutterStep ==
  ASSUME IndInv, [Next]_vars,
         ~ \E r \in Rank, s \in Sdom : SweepSubdomain(r, s)
  PROVE  Swept' = Swept
<1> USE DEF IndInv, TypeOK, CommTypeOK
<1>1. ASSUME NEW r \in Rank, NEW x \in Sdom, AddSubdomain(r, x) PROVE Swept' = Swept
  <2>1. /\ pc[r] = "add" /\ pc'[r] \in {"add", "loop"} /\ owner[x] = r
        /\ queue' = queue \cup {x}
        /\ pc'[r] = "loop" => Owned(r) \subseteq queue'
        /\ \A q \in Rank : q # r => pc'[q] = pc[q]
        /\ UNCHANGED <<iter, active>>
    BY <1>1 DEF AddSubdomain, PostRecvs, Owned, Goto
  <2>2. QED
    BY <2>1, AddKeepsSwept
<1>2. ASSUME NEW r \in Rank, NEW x \in Sdom, active[r] = x, MarkComplete(r)
      PROVE  Swept' = Swept
  <2>1. owner[x] = r
    BY <1>2, ActiveFacts, GraphAssumption DEF Neighbours
  <2>2. QED
    BY <1>2, <2>1, CompleteKeepsSwept DEF MarkComplete, Goto
<1>3. ASSUME UNCHANGED <<queue, pc, iter, active>> PROVE Swept' = Swept
  BY <1>3 DEF Swept, Completed
<1>4. ASSUME NEW r \in Rank, RankStep(r) PROVE Swept' = Swept
  <2>1. CASE MarkComplete(r)
    BY <1>2, <2>1 DEF MarkComplete
  <2>2. CASE \E s \in Sdom, d \in Dim : TestRecieves(r, s, d)
    BY <1>3, <2>2 DEF TestRecieves, TestReceive, rankVars
  <2>3. CASE \/ StartSweep(r) \/ Loop(r) \/ ReadySubdomains(r)
             \/ Flush(r) \/ FinishIteration(r)
    <3>1. pc[r] # "work" => active[r] = NoSdom
      BY DEF PhaseInv
    <3>2. QED
      BY <2>3, <3>1, LoopKeepsSwept
  <2>4. QED
    BY <1>1, <1>4, <2>1, <2>2, <2>3 DEF RankStep
<1>5. ASSUME NEW r \in Rank, NEW t \in Sdom, BufferSend(r, t) PROVE Swept' = Swept
  BY <1>3, <1>5 DEF BufferSend, Buffer, rankVars
<1>6. ASSUME NEW r \in Rank, NEW t \in Sdom, NEW d \in Dim, Deliver(r, t, d)
      PROVE  Swept' = Swept
  BY <1>3, <1>6 DEF Deliver, Match, rankVars
<1>7. CASE UNCHANGED vars
  BY <1>3, <1>7 DEF vars, commVars, rankVars
<1>8. QED
  BY <1>4, <1>5, <1>6, <1>7 DEF Next, AllDone

(* A sweep of the solver is a sweep of the abstract system: the ready list *)
(* names a subdomain only after all its upwind neighbours were swept in    *)
(* this iteration, and no rank is an iteration behind.                     *)
LEMMA SweepStep ==
  ASSUME IndInv, NEW r \in Rank, NEW s \in Sdom, SweepSubdomain(r, s)
  PROVE  Sweeps!Sweep(s)
<1> USE OwnerType DEF IndInv, TypeOK, CommTypeOK
<1>1. /\ s \in queue /\ owner[s] = r /\ depends[s] = 0
      /\ pc[r] = "work" /\ active[r] = NoSdom
  BY ReadyFacts DEF SweepSubdomain
<1>2. ~ Completed(s) /\ s # NoSdom
  BY <1>1, GraphAssumption DEF Completed, Neighbours
<1>3. Swept[s] = iter[r]
  BY <1>1, <1>2 DEF Swept
<1>4. /\ Swept[s] < NumIter
      /\ \A t \in Sdom : Swept[t] >= Swept[s]
      /\ Swept' = [Swept EXCEPT ![s] = @ + 1]
  BY <1>1, SweepCounts
<1>5. ASSUME NEW d \in Dim, HasUpwind(s, d) PROVE Swept[upwind[s][d]] = Swept[s] + 1
  <2> DEFINE u == upwind[s][d]
  <2>1. u \in Sdom /\ recv[s][d] = "none" /\ Arrived(s, d)
    BY <1>1, <1>5, EdgeFacts, ZeroCount
  <2>2. iter[owner[u]] \in Int /\ iter[r] \in Int
    BY <2>1, NumIterAssumption
  <2>3. CASE RemoteUpwind(s, d)
    <3>1. Received(s, d) = iter[r] + 1
      BY <1>1, <2>1 DEF Received, Taken
    <3>2. Sent(u) >= iter[r] + 1
      BY <2>2, <2>3, <3>1 DEF ChannelInv, ChannelOK
    <3>3. Swept[u] >= Sent(u)
      BY <2>1, <2>2 DEF Swept, Sent
    <3>4. iter[owner[u]] <= iter[r]
      BY <1>1, <2>1, <2>2 DEF BarrierInv
    <3>5. Swept[u] <= iter[r] + 1 /\ Swept[u] \in Int
      BY <2>1, <2>2, <3>4 DEF Swept
    <3>6. Sent(u) \in Int
      BY <2>2 DEF Sent
    <3>7. QED
      BY <1>3, <2>2, <3>2, <3>3, <3>5, <3>6
  <2>4. CASE ~ RemoteUpwind(s, d)
    <3>1. owner[u] = r /\ Completed(u)
      BY <1>1, <1>5, <2>1, <2>4 DEF Arrived, RemoteUpwind, LocalEdge
    <3>2. QED
      BY <1>3, <2>1, <3>1 DEF Swept
  <2>5. QED
    BY <2>3, <2>4
<1>6. QED
  BY <1>4, <1>5 DEF Sweeps!Sweep, HasUpwind, Dim

(* Every behaviour of the solver is, as far as sweeps go, a behaviour of   *)
(* the abstract transport sweep: once per iteration and in upwind order.   *)
THEOREM SweepsAreInOrder == Spec => SweepsInOrder
<1>1. Init => Sweeps!Init
  <2> SUFFICES ASSUME Init PROVE Sweeps!Init
    OBVIOUS
  <2>1. \A s \in Sdom : Swept[s] = 0
    BY OwnerType, GraphAssumption DEF Init, CommInit, LoopInit, Swept, Completed, Neighbours
  <2>2. QED
    BY <2>1 DEF Swept, Sweeps!Init
<1>2. IndInv /\ [Next]_vars => [Sweeps!Next]_Swept
  <2> SUFFICES ASSUME IndInv, [Next]_vars PROVE [Sweeps!Next]_Swept
    OBVIOUS
  <2>1. CASE \E r \in Rank, s \in Sdom : SweepSubdomain(r, s)
    BY <2>1, SweepStep DEF Sweeps!Next
  <2>2. CASE ~ \E r \in Rank, s \in Sdom : SweepSubdomain(r, s)
    BY <2>2, StutterStep
  <2>3. QED
    BY <2>1, <2>2
<1>3. QED
  BY <1>1, <1>2, SweepInvariant, PTL DEF Spec, SweepsInOrder, Sweeps!Spec

=============================================================================
