---------------------------- MODULE ParallelComm ----------------------------
(***************************************************************************)
(* The work queue and the communication of boundary planes shared by the   *)
(* two communicators of a sweep: class ParallelComm, and the part of MPI   *)
(* it uses.  Subdomains have one owner, so the queues of all ranks are one *)
(* set and the request lists are functions of the subdomain and dimension  *)
(* they were posted for.                                                   *)
(*                                                                         *)
(* The contents of a plane are abstracted to their origin: Flux(s, d, n)   *)
(* is the outgoing flux of subdomain s through dimension d in iteration n, *)
(* Vacuum is the constant 0.0.                                             *)
(*                                                                         *)
(* A message stays in chan from MPI_Isend until it is matched.  MPI may    *)
(* copy the send buffer at once (eager protocol) or read it only when the  *)
(* receive is there (rendezvous): an unbuffered message stands for the     *)
(* live contents of the buffer it was posted with.                         *)
(***************************************************************************)
EXTENDS SubdomainGraph, Sequences

VARIABLES
  queue,    \* queue_sdom_ids of all ranks
  depends,  \* queue_depends, by subdomain
  recv,     \* recv_requests, by subdomain and dimension
  send,     \* send_requests, by subdomain and dimension
  plane,    \* i_plane, j_plane, k_plane
  chan      \* chan[r][t]: unmatched messages of rank r with tag t, oldest first

commVars == <<queue, depends, recv, send, plane, chan>>

Flux(s, d, n) == [from |-> s, dim |-> d, it |-> n]

Vacuum == Flux(NoSdom, 0, 0)

FluxSet == [from : Sdom \cup {NoSdom}, dim : Dim, it : Nat]

Message == [from : Sdom, dim : Dim, buffered : BOOLEAN, data : FluxSet]

RequestState == {"none", "posted", "complete"}

CommTypeOK ==
  /\ queue \in SUBSET Sdom
  /\ depends \in [Sdom -> Int]
  /\ recv \in [Sdom -> [Dim -> RequestState]]
  /\ send \in [Sdom -> [Dim -> RequestState]]
  /\ plane \in [Sdom -> [Dim -> FluxSet]]
  /\ chan \in [Rank -> [Sdom -> Seq(Message)]]

CommInit ==
  /\ queue = {}
  /\ depends = [s \in Sdom |-> 0]
  /\ recv = [s \in Sdom |-> [d \in Dim |-> "none"]]
  /\ send = [s \in Sdom |-> [d \in Dim |-> "none"]]
  /\ plane = [s \in Sdom |-> [d \in Dim |-> Vacuum]]
  /\ chan = [r \in Rank |-> [t \in Sdom |-> << >>]]

-----------------------------------------------------------------------------
(* ParallelComm.                                                           *)

(* Mutant: a dependency on the own rank is not counted.                    *)
PostRecvs_RemoteOnly(s) ==
  /\ queue' = queue \cup {s}
  /\ depends' = [depends EXCEPT ![s] = Count({d \in Dim : RemoteUpwind(s, d)})]
  /\ recv' = [recv EXCEPT ![s] =
                [d \in Dim |-> IF RemoteUpwind(s, d) THEN "posted" ELSE @[d]]]
  /\ UNCHANGED <<send, plane, chan>>

(* Mutant: a posted receive is not counted as a dependency.                *)
PostRecvs_LocalOnly(s) ==
  /\ queue' = queue \cup {s}
  /\ depends' = [depends EXCEPT ![s] =
       Count({d \in Dim : HasUpwind(s, d) /\ ~ RemoteUpwind(s, d)})]
  /\ recv' = [recv EXCEPT ![s] =
                [d \in Dim |-> IF RemoteUpwind(s, d) THEN "posted" ELSE @[d]]]
  /\ UNCHANGED <<send, plane, chan>>

PostRecvs(s) ==
  /\ queue' = queue \cup {s}
  /\ depends' = [depends EXCEPT ![s] = Count({d \in Dim : HasUpwind(s, d)})]
  /\ recv' = [recv EXCEPT ![s] =
                [d \in Dim |-> IF RemoteUpwind(s, d) THEN "posted" ELSE @[d]]]
  /\ UNCHANGED <<send, plane, chan>>

(* The messages of s with tag t, in the order of the Isends.               *)
Outgoing(s, t) ==
  LET Isend(d) == IF downwind[s][d] = t
                    THEN << [from |-> s, dim |-> d, buffered |-> FALSE, data |-> Vacuum] >>
                    ELSE << >>
  IN  Isend(0) \o Isend(1) \o Isend(2)

(* Mutant: the copy on the same rank does not release the dependency.      *)
PostSends_NoDecrement(s, src, waiting) ==
  /\ plane' = [t \in Sdom |-> [d \in Dim |->
       IF downwind[s][d] = t /\ LocalEdge(s, t) THEN src[s][d] ELSE plane[t][d]]]
  /\ send' = [send EXCEPT ![s] = [d \in Dim |->
       IF HasDownwind(s, d) /\ ~ LocalEdge(s, downwind[s][d]) THEN "posted" ELSE @[d]]]
  /\ chan' = [chan EXCEPT ![owner[s]] = [t \in Sdom |->
       IF LocalEdge(s, t) THEN @[t] ELSE @[t] \o Outgoing(s, t)]]
  /\ UNCHANGED depends

(* Hand the planes src[s] to the downwind neighbours: a copy and one       *)
(* dependency less on the same rank, a message to another one.  waiting is *)
(* the work queue the neighbours are looked up in.                         *)
PostSends(s, src, waiting) ==
  /\ depends' = [t \in Sdom |->
       IF t \in waiting /\ LocalEdge(s, t)
         THEN depends[t] - Count({d \in Dim : downwind[s][d] = t})
         ELSE depends[t]]
  /\ plane' = [t \in Sdom |-> [d \in Dim |->
       IF downwind[s][d] = t /\ LocalEdge(s, t) THEN src[s][d] ELSE plane[t][d]]]
  /\ send' = [send EXCEPT ![s] = [d \in Dim |->
       IF HasDownwind(s, d) /\ ~ LocalEdge(s, downwind[s][d]) THEN "posted" ELSE @[d]]]
  /\ chan' = [chan EXCEPT ![owner[s]] = [t \in Sdom |->
       IF LocalEdge(s, t) THEN @[t] ELSE @[t] \o Outgoing(s, t)]]

WorkRemaining(r) ==
  \E s \in Owned(r) : s \in queue \/ \E d \in Dim : recv[s][d] # "none"

(* Mutant: the completed request stays in the list.                        *)
TestReceive_NotErased(s, d) ==
  /\ recv[s][d] = "complete"
  /\ depends' = [depends EXCEPT ![s] = IF s \in queue THEN @ - 1 ELSE @]
  /\ UNCHANGED <<queue, recv, send, plane, chan>>

(* One MPI_Testany that reports a completed receive.                       *)
TestReceive(s, d) ==
  /\ recv[s][d] = "complete"
  /\ recv' = [recv EXCEPT ![s][d] = "none"]
  /\ depends' = [depends EXCEPT ![s] = IF s \in queue THEN @ - 1 ELSE @]
  /\ UNCHANGED <<queue, send, plane, chan>>

(* The MPI_Testany that ends the loop.                                     *)
NothingReceived(r) ==
  \A s \in Owned(r) : \A d \in Dim : recv[s][d] # "complete"

(* Mutant: one dependency may be left.                                     *)
ReadyList_OffByOne(r) == {s \in Owned(r) \cap queue : depends[s] <= 1}

ReadyList(r) == {s \in Owned(r) \cap queue : depends[s] = 0}

(* Mutant: the requests are dropped, not waited for.                       *)
WaitAllSends_NoWait(r) ==
  /\ send' = [s \in Sdom |-> IF owner[s] = r THEN [d \in Dim |-> "none"] ELSE send[s]]
  /\ UNCHANGED <<queue, depends, recv, plane, chan>>

WaitAllSends(r) ==
  /\ \A s \in Owned(r) : \A d \in Dim : send[s][d] # "posted"
  /\ send' = [s \in Sdom |-> IF owner[s] = r THEN [d \in Dim |-> "none"] ELSE send[s]]
  /\ UNCHANGED <<queue, depends, recv, plane, chan>>

-----------------------------------------------------------------------------
(* MPI.                                                                    *)

Payload(m, src) == IF m.buffered THEN m.data ELSE src[m.from][m.dim]

(* A standard-mode send may complete locally, its buffer copied.           *)
Buffer(src, r, t) ==
  \E i \in DOMAIN chan[r][t] :
    LET m == chan[r][t][i] IN
    /\ ~ m.buffered
    /\ chan' = [chan EXCEPT ![r][t][i] =
                  [m EXCEPT !.buffered = TRUE, !.data = src[m.from][m.dim]]]
    /\ send' = [send EXCEPT ![m.from][m.dim] = "complete"]
    /\ UNCHANGED <<queue, depends, recv, plane>>

(* The source a receive was posted with.                                   *)
RecvSource(t, d, r) == owner[upwind[t][d]] = r

(* The receive of t for messages of rank r that was posted first.          *)
FirstPosted(r, t, d) ==
  LET Posted(e) == recv[t][e] = "posted" /\ RecvSource(t, e, r)
  IN  Posted(d) /\ \A e \in Dim : e < d => ~ Posted(e)

(* Messages of one source and tag are matched in the order they were sent. *)
Match(src, r, t, d) ==
  /\ chan[r][t] # << >>
  /\ FirstPosted(r, t, d)
  /\ LET m == Head(chan[r][t]) IN
     /\ plane' = [plane EXCEPT ![t][d] = Payload(m, src)]
     /\ send' = IF m.buffered THEN send ELSE [send EXCEPT ![m.from][m.dim] = "complete"]
  /\ recv' = [recv EXCEPT ![t][d] = "complete"]
  /\ chan' = [chan EXCEPT ![r][t] = Tail(@)]
  /\ UNCHANGED <<queue, depends>>

=============================================================================
