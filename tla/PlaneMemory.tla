---------------------------- MODULE PlaneMemory -----------------------------
(***************************************************************************)
(* Where the contents of the boundary planes are, in a build with CHAI:    *)
(* a plane has a copy on the host and one on the device, kernels run       *)
(* behind the host's back, and MPI reads and writes one of the copies.     *)
(* One rank's sweeps, with the calls of Field, Kernel.h, ParallelComm and  *)
(* the two communicators that touch a plane; queues and requests are those *)
(* of ParallelComm, reduced to what decides when a subdomain is swept.     *)
(*                                                                         *)
(* CHAI (external): data(space) copies the array from the space it was     *)
(* last used in, if that is another one, and records the new space.  A     *)
(* copy waits for the device.  RAJA (external): forall with cuda_exec or   *)
(* hip_exec returns when the kernel has run, a kernel policy with          *)
(* CudaKernelAsync or HipKernelAsync returns at once; kernels run in the   *)
(* order they were launched.                                               *)
(***************************************************************************)
EXTENDS Dimension, Sequences

CONSTANTS
  Local,        \* the rank's subdomains
  Remote,       \* stands for any subdomain of another rank
  upwind,       \* field "upwind"
  downwind,     \* field "downwind"
  Programs,     \* the builds to look at, with the method
  NumIter       \* iterations

(* host: the architecture is Sequential or OpenMP.  staged: a device, and  *)
(* messages through host memory.  aware: KRIPKE_USE_GPU_AWARE_MPI.         *)
(* direct: also KRIPKE_USE_DIRECT_UMPIRE_PLANE_STORAGE.                    *)
ASSUME PlaneAssumption ==
  /\ Programs \subseteq {"host", "staged", "aware", "direct"} \X {"sweep", "bj"}
  /\ NumIter \in Nat \ {0}
  /\ Remote \notin Local /\ NoSdom \notin Local /\ Remote # NoSdom
  /\ upwind \in [Local -> [Dim -> Local \cup {Remote, NoSdom}]]
  /\ downwind \in [Local -> [Dim -> Local \cup {Remote, NoSdom}]]
  /\ \A s, t \in Local, d \in Dim : upwind[t][d] = s <=> downwind[s][d] = t

VARIABLES
  build,   \* the build that runs
  method,  \* parallel_method
  iter,    \* sweeps finished
  pc,      \* where SweepSolver is
  add,     \* subdomains to add to the queue
  waits,   \* the dimensions a queued subdomain waits for
  swept,   \* subdomains swept
  active,  \* <<s, d>>: s is swept, its planes below dimension d are handed on
  mem,     \* i_plane, j_plane, k_plane
  old,     \* the old planes of block Jacobi
  stream,  \* sweep kernels launched and not yet run
  recv,    \* receives
  send,    \* sends
  input,   \* what the sweep read from each plane
  sent     \* what MPI sent from each plane

vars == <<build, method, iter, pc, add, waits, swept, active, mem, old, stream, recv, send, input, sent>>

(* Contents are named by where they come from.                             *)
Zero == <<"zero", NoSdom, 0>>
Garbage == <<"garbage", NoSdom, 0>>
Incoming == <<"message", Remote, iter>>
Outgoing(s) == <<"flux", s, iter>>

(* A plane: its two copies, and the space it was last used in.             *)
Space == {"CPU", "GPU"}

Content == {"zero", "garbage", "message", "flux"} \X (Local \cup {Remote, NoSdom}) \X Nat

Plane == [copy : [Space -> Content], last : Space]

-----------------------------------------------------------------------------
(* Fields.                                                                 *)

OnDevice == build # "host"

BlockJacobi == method = "bj"

GpuAware == build \in {"aware", "direct"}

(* fieldAllocationSpace: where kernels use the planes.                     *)
Home == IF OnDevice THEN "GPU" ELSE "CPU"

Fresh(home) == [copy |-> [space \in Space |-> Garbage], last |-> home]

Data(m, space) ==
  IF m.last = space
    THEN m
    ELSE [copy |-> [m.copy EXCEPT ![space] = m.copy[m.last]], last |-> space]

(* Mutant: the pointer only, as for direct storage.                        *)
GetHostData_NoMove(m) == m

GetHostData(m) == Data(m, "CPU")

GetDeviceData(m) == IF build = "direct" THEN m ELSE Data(m, "GPU")

(* getViewOrder, kConst and kCopy pick by the allocation space.            *)
GetView(m) == IF OnDevice THEN GetDeviceData(m) ELSE GetHostData(m)

Overwrite(m, value) == [m EXCEPT !.copy[Home] = value]

Write(m, value) == Overwrite(GetView(m), value)

(* kCopy, copyPlane.                                                       *)
Read(m) == GetView(m).copy[Home]

(* Mutant: MPI is handed the host copy in every build.                     *)
MPISpace_Host == "CPU"

MPISpace == IF GpuAware THEN "GPU" ELSE "CPU"

(* The pointer handed to MPI is taken from the field first.                *)
ForMPI(m) == IF GpuAware THEN GetDeviceData(m) ELSE GetHostData(m)

Idle == stream = << >>

(* Mutant: MPI does not wait for the device.                               *)
SynchronizedForMPI_Never(m) == TRUE

(* synchronizeDeviceForMPI, or the copy to the host, waits for the sweeps. *)
SynchronizedForMPI(m) == GpuAware \/ m.last = "GPU" => Idle

-----------------------------------------------------------------------------
Planes(v) == [s \in Local |-> [d \in Dim |-> v]]

Init ==
  /\ \E p \in Programs : build = p[1] /\ method = p[2]
  /\ iter = 0
  /\ pc = "start"
  /\ add = {}
  /\ waits = [s \in Local |-> {}]
  /\ swept = {}
  /\ active = << >>
  /\ mem = Planes(Fresh(IF build = "host" THEN "CPU" ELSE "GPU"))
  /\ old = mem
  /\ stream = << >>
  /\ recv = Planes("none")
  /\ send = Planes("none")
  /\ input = Planes(Garbage)
  /\ sent = Planes(Garbage)

(* kConst of all planes; block Jacobi creates its old planes.              *)
Start ==
  /\ pc = "start"
  /\ mem' = [s \in Local |-> [d \in Dim |-> Write(mem[s][d], Zero)]]
  /\ old' = IF BlockJacobi THEN Planes(Fresh(Home)) ELSE old
  /\ add' = Local
  /\ pc' = "add"
  /\ UNCHANGED <<build, method, iter, waits, swept, active, stream, recv, send, input, sent>>

(* addSubdomain: block Jacobi first copies all planes to its old ones.     *)
AddSubdomain(s) ==
  /\ pc = "add"
  /\ s \in add
  /\ add' = add \ {s}
  /\ old' = IF BlockJacobi
              THEN [t \in Local |-> [d \in Dim |-> Write(old[t][d], Read(mem[t][d]))]]
              ELSE old
  /\ LET seen == IF BlockJacobi
                   THEN [t \in Local |-> [d \in Dim |-> GetView(mem[t][d])]] ELSE mem
     IN  mem' = [seen EXCEPT ![s] =
                   [d \in Dim |-> IF upwind[s][d] = Remote THEN ForMPI(@[d]) ELSE @[d]]]
  /\ recv' = [recv EXCEPT ![s] =
                [d \in Dim |-> IF upwind[s][d] = Remote THEN "posted" ELSE @[d]]]
  /\ waits' = [waits EXCEPT ![s] = {d \in Dim : upwind[s][d] # NoSdom}]
  /\ UNCHANGED <<build, method, iter, pc, swept, active, stream, send, input, sent>>

(* Hand plane d of s to its downwind neighbour, from the planes src: a     *)
(* copy, which is over when it returns, or a message.                      *)
HandOn(s, d, src) ==
  LET t == downwind[s][d] IN
  \/ /\ t = NoSdom
     /\ UNCHANGED <<waits, mem, old, send>>
  \/ /\ t \in Local
     /\ Idle
     /\ waits' = [waits EXCEPT ![t] = @ \ {d}]
     /\ LET copied == [mem EXCEPT ![t][d] = Write(@, Read(src[s][d]))]
        IN  IF BlockJacobi
              THEN mem' = copied /\ old' = [old EXCEPT ![s][d] = GetView(@)]
              ELSE mem' = [copied EXCEPT ![s][d] = GetView(@)] /\ UNCHANGED old
     /\ UNCHANGED send
  \/ /\ t = Remote
     /\ SynchronizedForMPI(src[s][d])
     /\ IF BlockJacobi
          THEN old' = [old EXCEPT ![s][d] = ForMPI(@)] /\ UNCHANGED mem
          ELSE mem' = [mem EXCEPT ![s][d] = ForMPI(@)] /\ UNCHANGED old
     /\ send' = [send EXCEPT ![s][d] = "posted"]
     /\ UNCHANGED waits

Source == IF BlockJacobi THEN old ELSE mem

(* Block Jacobi: the first workRemaining sends from all of the queue.      *)
AddedAll ==
  /\ pc = "add" /\ add = {} /\ active = << >>
  /\ IF BlockJacobi THEN pc' = "post" /\ add' = Local ELSE pc' = "loop" /\ UNCHANGED add
  /\ UNCHANGED <<build, method, iter, waits, swept, active, mem, old, stream, recv, send, input, sent>>

(* postSends, one dimension after the other.                               *)
PostSend ==
  /\ active # << >>
  /\ HandOn(active[1], active[2], Source)
  /\ active' = IF active[2] < 2 THEN <<active[1], active[2] + 1>> ELSE << >>
  /\ UNCHANGED <<build, method, iter, pc, add, swept, stream, recv, input, sent>>

PostNext(s) ==
  /\ pc = "post" /\ active = << >> /\ s \in add
  /\ active' = <<s, 0>>
  /\ add' = add \ {s}
  /\ UNCHANGED <<build, method, iter, pc, waits, swept, mem, old, stream, recv, send, input, sent>>

PostedAll ==
  /\ pc = "post" /\ active = << >> /\ add = {}
  /\ pc' = "loop"
  /\ UNCHANGED <<build, method, iter, add, waits, swept, active, mem, old, stream, recv, send,
                 input, sent>>

(* testRecieves; registerDeviceTouch records what ForMPI has recorded.     *)
TestReceive(s, d) ==
  /\ pc = "loop" /\ active = << >>
  /\ recv[s][d] = "complete"
  /\ recv' = [recv EXCEPT ![s][d] = "none"]
  /\ mem' = IF build = "aware" THEN [mem EXCEPT ![s][d].last = "GPU"] ELSE mem
  /\ waits' = [waits EXCEPT ![s] = @ \ {d}]
  /\ UNCHANGED <<build, method, iter, pc, add, swept, active, old, stream, send, input, sent>>

(* The kernel's effect on the planes m of a subdomain.                     *)
Kernel(s, m) ==
  /\ input' = [input EXCEPT ![s] = [d \in Dim |-> m[d].copy[Home]]]
  /\ mem' = [mem EXCEPT ![s] = [d \in Dim |-> Overwrite(m[d], Outgoing(s))]]

(* Clear the planes at the boundary, which waits for the device, then      *)
(* sweep: on the device the kernel is launched and not waited for.         *)
Sweep(s) ==
  /\ pc = "loop" /\ active = << >>
  /\ s \in Local \ swept /\ waits[s] = {}
  /\ LET cleared == [d \in Dim |-> IF upwind[s][d] = NoSdom
                                     THEN Write(mem[s][d], Zero) ELSE GetView(mem[s][d])]
     IN  IF OnDevice
           THEN /\ (\E d \in Dim : upwind[s][d] = NoSdom) => Idle
                /\ mem' = [mem EXCEPT ![s] = cleared]
                /\ stream' = Append(stream, s)
                /\ UNCHANGED input
           ELSE Kernel(s, cleared) /\ UNCHANGED stream
  /\ swept' = swept \cup {s}
  /\ active' = IF BlockJacobi THEN << >> ELSE <<s, 0>>
  /\ UNCHANGED <<build, method, iter, pc, add, waits, old, recv, send, sent>>

(* waitAllSends.                                                           *)
Flush ==
  /\ pc = "loop" /\ swept = Local /\ active = << >>
  /\ \A s \in Local, d \in Dim : recv[s][d] = "none" /\ send[s][d] # "posted"
  /\ send' = Planes("none")
  /\ pc' = "sync"
  /\ UNCHANGED <<build, method, iter, add, waits, swept, active, mem, old, stream, recv, input, sent>>

(* Mutant: SweepSolver returns without waiting for the device.             *)
SynchronizeDevice_None == TRUE

SynchronizeDevice == Idle

(* SweepSolver returns; the fluxes are used.                               *)
Synchronize ==
  /\ pc = "sync"
  /\ SynchronizeDevice
  /\ pc' = "returned"
  /\ UNCHANGED <<build, method, iter, add, waits, swept, active, mem, old, stream, recv, send,
                 input, sent>>

NextIteration ==
  /\ pc = "returned" /\ iter + 1 < NumIter
  /\ iter' = iter + 1
  /\ pc' = "start"
  /\ swept' = {}
  /\ input' = Planes(Garbage)
  /\ sent' = Planes(Garbage)
  /\ UNCHANGED <<build, method, add, waits, active, mem, old, stream, recv, send>>

Done == pc = "returned" /\ iter + 1 = NumIter /\ UNCHANGED vars

-----------------------------------------------------------------------------
(* The device and MPI.                                                     *)

RunKernel ==
  /\ stream # << >>
  /\ Kernel(Head(stream), mem[Head(stream)])
  /\ stream' = Tail(stream)
  /\ UNCHANGED <<build, method, iter, pc, add, waits, swept, active, old, recv, send, sent>>

(* A message arrives in the buffer its receive was posted with.            *)
Arrive(s, d) ==
  /\ recv[s][d] = "posted"
  /\ recv' = [recv EXCEPT ![s][d] = "complete"]
  /\ mem' = [mem EXCEPT ![s][d].copy[MPISpace] = Incoming]
  /\ UNCHANGED <<build, method, iter, pc, add, waits, swept, active, old, stream, send, input, sent>>

(* MPI reads the send buffer.                                              *)
Depart(s, d) ==
  /\ send[s][d] = "posted"
  /\ send' = [send EXCEPT ![s][d] = "complete"]
  /\ sent' = [sent EXCEPT ![s][d] = Source[s][d].copy[MPISpace]]
  /\ UNCHANGED <<build, method, iter, pc, add, waits, swept, active, mem, old, stream, recv, input>>

Next ==
  \/ Start
  \/ \E s \in Local : AddSubdomain(s) \/ PostNext(s) \/ Sweep(s)
  \/ AddedAll \/ PostSend \/ PostedAll
  \/ \E s \in Local, d \in Dim : TestReceive(s, d) \/ Arrive(s, d) \/ Depart(s, d)
  \/ RunKernel
  \/ Flush \/ Synchronize \/ NextIteration \/ Done

Spec == Init /\ [][Next]_vars

-----------------------------------------------------------------------------
(* Block Jacobi with device planes and messages through host memory:       *)
(* addSubdomain copies all planes on the device, also those whose host     *)
(* copy a receive is posted into already.                                  *)
Astray == BlockJacobi /\ build = "staged"

(* What plane d of s should hold when s is swept.  A message that went     *)
(* astray leaves the zero it should have replaced.  Block Jacobi copies    *)
(* old planes inside the rank, whose contents BlockJacobi follows.         *)
Expected(s, d) ==
  CASE upwind[s][d] = NoSdom -> {Zero}
    [] upwind[s][d] = Remote -> IF Astray THEN {Zero, Incoming} ELSE {Incoming}
    [] OTHER -> IF BlockJacobi THEN {Zero, Incoming} ELSE {Outgoing(upwind[s][d])}

(* A sweep reads from every plane what its upwind neighbour handed over    *)
(* in this iteration, whichever copy it arrived in: no message is lost on  *)
(* the side the kernel does not read, and none is overwritten by a move;   *)
(* where messages go astray it reads the message or the zero from before.  *)
ReadsWhatArrived ==
  \A s \in Local, d \in Dim : input[s][d] # Garbage => input[s][d] \in Expected(s, d)

(* A receive completes in the copy that the next use of the plane takes:   *)
(* "Receives use either direct GPU plane buffers or direct host plane      *)
(* buffers" (postRecvs).  The one combination in which it does not is      *)
(* Astray.                                                                 *)
ReceivesInPlace ==
  ~ Astray =>
    \A s \in Local, d \in Dim : recv[s][d] = "complete" => mem[s][d].last = MPISpace

(* MPI sends the flux the sweep of this iteration computed, although the   *)
(* sweep is only launched when the send is prepared; block Jacobi sends    *)
(* what it copied, zeros or planes that have arrived meanwhile.            *)
SendsTheFlux ==
  \A s \in Local, d \in Dim : sent[s][d] # Garbage =>
    sent[s][d] \in (IF BlockJacobi THEN {Zero, Incoming} ELSE {Outgoing(s)})

(* When SweepSolver returns the flux of every subdomain is computed.       *)
SweptOnReturn ==
  pc = "returned" => \A s \in Local, d \in Dim : input[s][d] # Garbage

-----------------------------------------------------------------------------
(* The inductive invariant.                                                *)

TypeOK ==
  /\ <<build, method>> \in Programs
  /\ iter \in Nat
  /\ pc \in {"start", "add", "post", "loop", "sync", "returned"}
  /\ add \in SUBSET Local
  /\ waits \in [Local -> SUBSET Dim]
  /\ swept \in SUBSET Local
  /\ active \in {<< >>} \cup Local \X Dim
  /\ mem \in [Local -> [Dim -> Plane]]
  /\ old \in [Local -> [Dim -> Plane]]
  /\ stream \in Seq(Local)
  /\ recv \in [Local -> [Dim -> {"none", "posted", "complete"}]]
  /\ send \in [Local -> [Dim -> {"none", "posted", "complete"}]]
  /\ input \in [Local -> [Dim -> Content]]
  /\ sent \in [Local -> [Dim -> Content]]

(* The copy that the next data(space) takes.                               *)
Current(m) == m.copy[m.last]

Launched(s) == \E n \in 1 .. Len(stream) : stream[n] = s

(* postSends has begun with s, and is through with its plane d.            *)
Posting(s) ==
  IF BlockJacobi
    THEN (pc = "post" /\ s \notin add) \/ pc \in {"loop", "sync", "returned"}
    ELSE s \in swept

HandedOn(s, d) == Posting(s) /\ \A e \in 0 .. d : active # <<s, e>>

(* addSubdomain has put t in the queue (where it may not be any more).     *)
Queued(t) == pc \in {"post", "loop"} \/ (pc = "add" /\ t \notin add)

(* Each part of the state is in use in a phase of the sweep only.          *)
PhaseInv ==
  /\ pc \notin {"add", "post"} => add = {}
  /\ pc = "post" => BlockJacobi
  /\ pc \in {"start", "add", "post"} => swept = {}
  /\ pc \in {"sync", "returned"} => swept = Local
  /\ \A s \in Local, e \in Dim : active = <<s, e>> =>
       Posting(s) /\ pc = (IF BlockJacobi THEN "post" ELSE "loop")
  /\ \A s \in Local, d \in Dim : recv[s][d] # "none" =>
       upwind[s][d] = Remote /\ Queued(s)
  /\ \A s \in Local, d \in Dim : send[s][d] # "none" =>
       HandedOn(s, d) /\ downwind[s][d] = Remote /\ pc \in {"post", "loop"}

(* Kernels launched are those of different subdomains already swept.       *)
StreamInv ==
  /\ OnDevice \/ Idle
  /\ pc = "returned" => Idle
  /\ \A n \in 1 .. Len(stream) : stream[n] \in swept
  /\ \A n, k \in 1 .. Len(stream) : stream[n] = stream[k] => n = k

(* Plane d of t was not handed to it.                                      *)
Missing(t, d) ==
  /\ upwind[t][d] # NoSdom
  /\ upwind[t][d] = Remote => recv[t][d] # "none"
  /\ \A u \in Local : upwind[t][d] = u => ~ HandedOn(u, d)

(* A queued subdomain waits for the planes it misses.                      *)
WaitsInv ==
  /\ \A t \in Local : Queued(t) => waits[t] = {d \in Dim : Missing(t, d)}
  /\ pc = "loop" => \A t \in swept : waits[t] = {}

(* A plane is in the space of the kernels or in that of MPI: in that of    *)
(* MPI while it has the plane, unless moved away behind its back, in that  *)
(* of the kernels before one runs.                                         *)
SpaceOK(s, d) ==
  /\ mem[s][d].last \in {Home, MPISpace}
  /\ old[s][d].last \in {Home, MPISpace}
  /\ recv[s][d] # "none" /\ ~ Astray => mem[s][d].last = MPISpace
  /\ send[s][d] = "posted" => Source[s][d].last = MPISpace
  /\ Launched(s) => mem[s][d].last = Home

SpaceInv == \A s \in Local, d \in Dim : SpaceOK(s, d)

(* What a plane holds, from the receive, copy or sweep that fills it to    *)
(* the end of the sweep.                                                   *)
ContentOK(s, d) ==
  /\ recv[s][d] = "complete" => Current(mem[s][d]) \in Expected(s, d)
  /\ recv[s][d] = "posted" /\ Astray => Current(mem[s][d]) \in Expected(s, d)
  /\ Queued(s) /\ s \notin swept /\ upwind[s][d] # NoSdom /\ d \notin waits[s] =>
       Current(mem[s][d]) \in Expected(s, d)
  /\ Launched(s) => Current(mem[s][d]) \in Expected(s, d)
  /\ ~ BlockJacobi /\ s \in swept /\ ~ Launched(s) => Current(mem[s][d]) = Outgoing(s)
  /\ ~ BlockJacobi /\ send[s][d] = "posted" => ~ Launched(s)
  /\ BlockJacobi /\ pc \in {"add", "post"} => Current(mem[s][d]) \in {Zero, Incoming}
  /\ BlockJacobi /\ (pc \in {"post", "loop"} \/ (pc = "add" /\ add # Local)) =>
       Current(old[s][d]) \in {Zero, Incoming}

ContentInv == \A s \in Local, d \in Dim : ContentOK(s, d)

(* What kernels have read and MPI has sent.                                *)
UseOK(s, d) ==
  /\ s \in swept /\ ~ Launched(s) => input[s][d] \in Expected(s, d)
  /\ s \notin swept \/ Launched(s) => input[s][d] = Garbage
  /\ sent[s][d] # Garbage =>
       sent[s][d] \in (IF BlockJacobi THEN {Zero, Incoming} ELSE {Outgoing(s)})

UseInv == \A s \in Local, d \in Dim : UseOK(s, d)

IndInv ==
  TypeOK /\ PhaseInv /\ StreamInv /\ WaitsInv /\ SpaceInv /\ ContentInv /\ UseInv

=============================================================================
