----------------------------- MODULE PlaneProofs -----------------------------
(***************************************************************************)
(* Proofs about PlaneMemory: IndInv is an invariant, and the properties of *)
(* the contents follow from it.                                            *)
(***************************************************************************)
EXTENDS PlaneMemory, SequenceTheorems, TLAPS

-----------------------------------------------------------------------------
(* Moving, reading and writing a plane.                                    *)

(* A kernel and MPI each take one of the two copies, and the copies are    *)
(* one and the same in all builds but "staged".                            *)
LEMMA Spaces ==
  /\ Home \in Space
  /\ MPISpace \in Space
  BY DEF Home, MPISpace, Space

(* data(space) keeps the contents that were current.                       *)
LEMMA DataFacts ==
  ASSUME NEW m \in Plane, NEW space \in Space
  PROVE  /\ Data(m, space) \in Plane
         /\ Data(m, space).last = space
         /\ Current(Data(m, space)) = Current(m)
<1>1. CASE m.last = space
  BY <1>1 DEF Data, Plane
<1>2. CASE m.last # space
  <2> DEFINE n == [copy |-> [m.copy EXCEPT ![space] = m.copy[m.last]], last |-> space]
  <2>1. Data(m, space) = n
    BY <1>2 DEF Data
  <2>2. m.copy \in [Space -> Content] /\ m.last \in Space
    BY DEF Plane
  <2>3. n \in Plane /\ n.last = space /\ n.copy[space] = m.copy[m.last]
    BY <2>2 DEF Plane
  <2>4. QED
    BY <2>1, <2>3 DEF Current
<1>3. QED
  BY <1>1, <1>2

(* The view of a kernel: kernels see the current contents.                 *)
LEMMA ViewFacts ==
  ASSUME TypeOK, NEW m \in Plane
  PROVE  /\ GetView(m) \in Plane
         /\ m.last \in {Home, MPISpace} =>
              /\ GetView(m).last = Home
              /\ Current(GetView(m)) = Current(m)
              /\ Read(m) = Current(m)
<1>1. build \in {"host", "staged", "aware", "direct"}
  BY PlaneAssumption DEF TypeOK
<1>2. CASE build = "direct"
  BY <1>2 DEF GetView, GetDeviceData, Home, MPISpace, OnDevice, GpuAware, Read, Current
<1>3. CASE build \in {"staged", "aware"}
  <2>1. GetView(m) = Data(m, "GPU") /\ Home = "GPU"
    BY <1>3 DEF GetView, GetDeviceData, Home, OnDevice
  <2>2. QED
    BY <2>1, DataFacts DEF Space, Read, Current
<1>4. CASE build = "host"
  <2>1. GetView(m) = Data(m, "CPU") /\ Home = "CPU"
    BY <1>4 DEF GetView, GetHostData, Home, OnDevice
  <2>2. QED
    BY <2>1, DataFacts DEF Space, Read, Current
<1>5. QED
  BY <1>1, <1>2, <1>3, <1>4

(* A kernel reads and overwrites the copy on its side.                     *)
LEMMA OverwriteFacts ==
  ASSUME NEW m \in Plane, NEW v \in Content
  PROVE  /\ Overwrite(m, v) \in Plane
         /\ m.last = Home =>
              /\ m.copy[Home] = Current(m)
              /\ Overwrite(m, v).last = Home
              /\ Current(Overwrite(m, v)) = v
<1>1. m.copy \in [Space -> Content] /\ m.last \in Space
      /\ m = [copy |-> m.copy, last |-> m.last]
  BY DEF Plane
<1>2. Overwrite(m, v) = [copy |-> [m.copy EXCEPT ![Home] = v], last |-> m.last]
  BY <1>1 DEF Overwrite
<1>3. QED
  BY <1>1, <1>2, Spaces DEF Plane, Current

LEMMA WriteFacts ==
  ASSUME TypeOK, NEW m \in Plane, NEW v \in Content
  PROVE  /\ Write(m, v) \in Plane
         /\ m.last \in {Home, MPISpace} =>
              /\ Write(m, v).last = Home
              /\ Current(Write(m, v)) = v
  BY ViewFacts, OverwriteFacts DEF Write

(* The pointer for MPI: MPI sees the current contents.                     *)
LEMMA ForMPIFacts ==
  ASSUME TypeOK, NEW m \in Plane
  PROVE  /\ ForMPI(m) \in Plane
         /\ m.last \in {Home, MPISpace} =>
              /\ ForMPI(m).last = MPISpace
              /\ Current(ForMPI(m)) = Current(m)
<1>1. build \in {"host", "staged", "aware", "direct"}
  BY PlaneAssumption DEF TypeOK
<1>2. CASE build = "direct"
  BY <1>2 DEF ForMPI, GetDeviceData, Home, MPISpace, OnDevice, GpuAware
<1>3. CASE build = "aware"
  <2>1. ForMPI(m) = Data(m, "GPU") /\ MPISpace = "GPU"
    BY <1>3 DEF ForMPI, GetDeviceData, MPISpace, GpuAware
  <2>2. QED
    BY <2>1, DataFacts DEF Space
<1>4. CASE build \in {"host", "staged"}
  <2>1. ForMPI(m) = Data(m, "CPU") /\ MPISpace = "CPU"
    BY <1>4 DEF ForMPI, GetHostData, MPISpace, GpuAware
  <2>2. QED
    BY <2>1, DataFacts DEF Space
<1>5. QED
  BY <1>1, <1>2, <1>3, <1>4

(* Block Jacobi uses one copy, unless messages go astray.                  *)
LEMMA OneCopy ==
  ASSUME TypeOK, BlockJacobi, ~ Astray
  PROVE  Home = MPISpace
<1>1. build \in {"host", "aware", "direct"}
  BY PlaneAssumption DEF TypeOK, Astray
<1>2. QED
  BY <1>1 DEF Home, MPISpace, OnDevice, GpuAware

(* Contents, by where they come from.                                      *)
LEMMA Contents ==
  ASSUME TypeOK
  PROVE  /\ Zero \in Content /\ Garbage \in Content /\ Incoming \in Content
         /\ \A s \in Local : Outgoing(s) \in Content
         /\ Zero # Garbage /\ Incoming # Garbage
         /\ \A s \in Local : Outgoing(s) # Garbage
  BY DEF TypeOK, Zero, Garbage, Incoming, Outgoing, Content

(* A plane is expected to hold something.                                  *)
LEMMA ExpectedFacts ==
  ASSUME TypeOK, NEW s \in Local, NEW d \in Dim
  PROVE  /\ Expected(s, d) \subseteq Content
         /\ Garbage \notin Expected(s, d)
         /\ upwind[s][d] = Remote =>
              Expected(s, d) = (IF Astray THEN {Zero, Incoming} ELSE {Incoming})
<1>1. upwind[s][d] \in Local \cup {Remote, NoSdom} /\ Remote \notin Local /\ Remote # NoSdom
  BY PlaneAssumption
<1>2. QED
  BY <1>1, Contents DEF Expected

-----------------------------------------------------------------------------
(* Types.                                                                  *)

LEMMA TypeInit == Init => TypeOK
<1> SUFFICES ASSUME Init PROVE TypeOK
  OBVIOUS
<1>1. <<build, method>> \in Programs
  <2>1. PICK p \in Programs : build = p[1] /\ method = p[2]
    BY DEF Init
  <2>2. p = <<p[1], p[2]>>
    BY PlaneAssumption
  <2>3. QED
    BY <2>1, <2>2
<1>2. Garbage \in Content
  BY DEF Garbage, Content
<1>3. \A home \in Space : Fresh(home) \in Plane
  BY <1>2 DEF Fresh, Plane
<1>4. mem \in [Local -> [Dim -> Plane]] /\ old \in [Local -> [Dim -> Plane]]
  BY <1>3 DEF Init, Planes, Space
<1>5. stream \in Seq(Local)
  BY DEF Init
<1>6. QED
  BY <1>1, <1>2, <1>4, <1>5 DEF Init, TypeOK, Planes

LEMMA HandOnType ==
  ASSUME TypeOK, NEW s \in Local, NEW d \in Dim, HandOn(s, d, Source)
  PROVE  /\ waits' \in [Local -> SUBSET Dim]
         /\ mem' \in [Local -> [Dim -> Plane]]
         /\ old' \in [Local -> [Dim -> Plane]]
         /\ send' \in [Local -> [Dim -> {"none", "posted", "complete"}]]
<1> DEFINE t == downwind[s][d]
<1>1. mem[s][d] \in Plane /\ old[s][d] \in Plane /\ Source[s][d] \in Plane
  BY DEF TypeOK, Source
<1>2. Read(Source[s][d]) \in Content
  BY <1>1, ViewFacts, Spaces DEF Read, Plane
<1>3. \A m \in Plane : GetView(m) \in Plane /\ ForMPI(m) \in Plane
                        /\ Write(m, Read(Source[s][d])) \in Plane
  BY <1>2, ViewFacts, ForMPIFacts, WriteFacts
<1>4. CASE t = NoSdom /\ UNCHANGED <<waits, mem, old, send>>
  BY <1>4 DEF TypeOK
<1>5. CASE /\ t \in Local
           /\ waits' = [waits EXCEPT ![t] = @ \ {d}]
           /\ LET copied == [mem EXCEPT ![t][d] = Write(@, Read(Source[s][d]))]
              IN  IF BlockJacobi
                    THEN mem' = copied /\ old' = [old EXCEPT ![s][d] = GetView(@)]
                    ELSE mem' = [copied EXCEPT ![s][d] = GetView(@)] /\ UNCHANGED old
           /\ UNCHANGED send
  <2> DEFINE copied == [mem EXCEPT ![t][d] = Write(@, Read(Source[s][d]))]
  <2>1. waits' \in [Local -> SUBSET Dim]
    BY <1>5 DEF TypeOK
  <2>2. copied \in [Local -> [Dim -> Plane]]
    <3>1. Write(mem[t][d], Read(Source[s][d])) \in Plane
      BY <1>3, <1>5 DEF TypeOK
    <3>2. QED
      BY <1>5, <3>1 DEF TypeOK
  <2>3. CASE BlockJacobi
    <3>1. mem' = copied /\ old' = [old EXCEPT ![s][d] = GetView(@)]
      BY <1>5, <2>3
    <3> HIDE DEF copied
    <3>2. old' \in [Local -> [Dim -> Plane]]
      BY <1>1, <1>3, <3>1 DEF TypeOK
    <3>3. QED
      BY <1>5, <2>1, <2>2, <3>1, <3>2 DEF TypeOK
  <2>4. CASE ~ BlockJacobi
    <3>1. mem' = [copied EXCEPT ![s][d] = GetView(@)] /\ UNCHANGED old
      BY <1>5, <2>4
    <3> HIDE DEF copied
    <3>2. copied[s][d] \in Plane
      BY <2>2
    <3>3. mem' \in [Local -> [Dim -> Plane]]
      BY <1>3, <2>2, <3>1, <3>2
    <3>4. QED
      BY <1>5, <2>1, <3>1, <3>3 DEF TypeOK
  <2>5. QED
    BY <2>3, <2>4
<1>6. CASE /\ t = Remote
           /\ IF BlockJacobi
                THEN old' = [old EXCEPT ![s][d] = ForMPI(@)] /\ UNCHANGED mem
                ELSE mem' = [mem EXCEPT ![s][d] = ForMPI(@)] /\ UNCHANGED old
           /\ send' = [send EXCEPT ![s][d] = "posted"]
           /\ UNCHANGED waits
  <2>1. /\ ForMPI(mem[s][d]) \in Plane /\ ForMPI(old[s][d]) \in Plane
        /\ send' \in [Local -> [Dim -> {"none", "posted", "complete"}]]
    BY <1>1, <1>3, <1>6 DEF TypeOK
  <2>2. CASE BlockJacobi
    <3>1. old' = [old EXCEPT ![s][d] = ForMPI(@)] /\ UNCHANGED <<waits, mem>>
      BY <1>6, <2>2
    <3>2. old' \in [Local -> [Dim -> Plane]]
      BY <2>1, <3>1 DEF TypeOK
    <3>3. QED
      BY <2>1, <3>1, <3>2 DEF TypeOK
  <2>3. CASE ~ BlockJacobi
    <3>1. mem' = [mem EXCEPT ![s][d] = ForMPI(@)] /\ UNCHANGED <<waits, old>>
      BY <1>6, <2>3
    <3>2. mem' \in [Local -> [Dim -> Plane]]
      BY <2>1, <3>1 DEF TypeOK
    <3>3. QED
      BY <2>1, <3>1, <3>2 DEF TypeOK
  <2>4. QED
    BY <2>2, <2>3
<1>7. QED
  BY <1>4, <1>5, <1>6 DEF HandOn

LEMMA TypeStep == TypeOK /\ [Next]_vars => TypeOK'
<1> SUFFICES ASSUME TypeOK, [Next]_vars PROVE TypeOK'
  OBVIOUS
<1>0. \A s \in Local, d \in Dim : mem[s][d] \in Plane /\ old[s][d] \in Plane
  BY DEF TypeOK
<1>1. CASE Start
  <2>1. \A s \in Local, d \in Dim : Write(mem[s][d], Zero) \in Plane
    BY <1>0, WriteFacts, Contents
  <2>2. Fresh(Home) \in Plane
    BY Spaces, Contents DEF Fresh, Plane
  <2>3. QED
    BY <1>1, <2>1, <2>2 DEF Start, TypeOK, Planes
<1>2. ASSUME NEW s \in Local, AddSubdomain(s) PROVE TypeOK'
  <2> DEFINE copies == [t \in Local |-> [d \in Dim |-> Write(old[t][d], Read(mem[t][d]))]]
             views == [t \in Local |-> [d \in Dim |-> GetView(mem[t][d])]]
             seen == IF BlockJacobi THEN views ELSE mem
             posted == [d \in Dim |-> IF upwind[s][d] = Remote
                                         THEN ForMPI(seen[s][d]) ELSE seen[s][d]]
  <2>1. \A t \in Local, d \in Dim : Read(mem[t][d]) \in Content
    BY <1>0, ViewFacts, Spaces DEF Read, Plane
  <2>2. copies \in [Local -> [Dim -> Plane]]
    BY <1>0, <2>1, WriteFacts
  <2>3. seen \in [Local -> [Dim -> Plane]]
    BY <1>0, ViewFacts DEF TypeOK
  <2>4. old' \in [Local -> [Dim -> Plane]]
    BY <1>2, <2>2 DEF AddSubdomain, TypeOK
  <2>5. mem' = [seen EXCEPT ![s] = posted]
    <3>1. mem' = [seen EXCEPT ![s] = [d \in Dim |-> IF upwind[s][d] = Remote
                                                       THEN ForMPI(@[d]) ELSE @[d]]]
      BY <1>2 DEF AddSubdomain
    <3> HIDE DEF seen
    <3>2. QED
      BY <3>1, <2>3
  <2>6. posted \in [Dim -> Plane]
    <3> HIDE DEF seen
    <3>1. QED
      BY <2>3, ForMPIFacts
  <2>7. mem' \in [Local -> [Dim -> Plane]]
    <3> HIDE DEF seen, posted
    <3>1. QED
      BY <2>3, <2>5, <2>6
  <2> HIDE DEF copies, views, seen, posted
  <2>8. recv' \in [Local -> [Dim -> {"none", "posted", "complete"}]]
    BY <1>2 DEF AddSubdomain, TypeOK
  <2>9. QED
    BY <1>2, <2>4, <2>7, <2>8 DEF AddSubdomain, TypeOK
<1>3. ASSUME NEW s \in Local, PostNext(s) PROVE TypeOK'
  BY <1>3 DEF PostNext, TypeOK, Dim
<1>4. ASSUME NEW s \in Local, Sweep(s) PROVE TypeOK'
  <2> DEFINE cleared == [d \in Dim |-> IF upwind[s][d] = NoSdom
                                     THEN Write(mem[s][d], Zero) ELSE GetView(mem[s][d])]
  <2>1. cleared \in [Dim -> Plane]
    BY <1>0, ViewFacts, WriteFacts, Contents
  <2>2. active' \in {<< >>} \cup Local \X Dim /\ swept' \in SUBSET Local
    BY <1>4 DEF Sweep, TypeOK, Dim
  <2>3. CASE OnDevice
    <3>1. mem' = [mem EXCEPT ![s] = cleared] /\ stream' = Append(stream, s) /\ UNCHANGED input
      BY <1>4, <2>3 DEF Sweep
    <3> HIDE DEF cleared
    <3>2. mem' \in [Local -> [Dim -> Plane]] /\ stream' \in Seq(Local)
      BY <2>1, <3>1, AppendProperties DEF TypeOK
    <3>3. QED
      BY <1>4, <2>2, <3>1, <3>2 DEF Sweep, TypeOK
  <2>4. CASE ~ OnDevice
    <3>1. Kernel(s, cleared) /\ UNCHANGED stream
      BY <1>4, <2>4 DEF Sweep
    <3> HIDE DEF cleared
    <3>2. \A d \in Dim : Overwrite(cleared[d], Outgoing(s)) \in Plane
      BY <2>1, OverwriteFacts, Contents
    <3>3. \A d \in Dim : cleared[d].copy[Home] \in Content
      BY <2>1, Spaces DEF Plane
    <3>4. mem' \in [Local -> [Dim -> Plane]] /\ input' \in [Local -> [Dim -> Content]]
      BY <3>1, <3>2, <3>3 DEF Kernel, TypeOK
    <3>5. QED
      BY <1>4, <2>2, <3>1, <3>4 DEF Sweep, TypeOK
  <2>5. QED
    BY <2>3, <2>4
<1>5. CASE AddedAll
  BY <1>5 DEF AddedAll, TypeOK
<1>6. CASE PostSend
  <2>1. PICK s \in Local, d \in Dim : active = <<s, d>>
    BY <1>6 DEF PostSend, TypeOK
  <2>2. HandOn(s, d, Source)
    BY <1>6, <2>1 DEF PostSend
  <2>3. active' \in {<< >>} \cup Local \X Dim
    BY <1>6, <2>1 DEF PostSend, Dim
  <2>4. QED
    BY <1>6, <2>2, <2>3, HandOnType DEF PostSend, TypeOK
<1>7. CASE PostedAll
  BY <1>7 DEF PostedAll, TypeOK
<1>8. ASSUME NEW s \in Local, NEW d \in Dim, TestReceive(s, d) PROVE TypeOK'
  <2>1. mem' \in [Local -> [Dim -> Plane]]
    <3>1. [mem[s][d] EXCEPT !.last = "GPU"] \in Plane
      BY <1>0 DEF Plane, Space
    <3>2. QED
      BY <1>8, <3>1 DEF TestReceive, TypeOK
  <2>2. QED
    BY <1>8, <2>1 DEF TestReceive, TypeOK
<1>9. ASSUME NEW s \in Local, NEW d \in Dim, Arrive(s, d) PROVE TypeOK'
  <2>1. mem' \in [Local -> [Dim -> Plane]]
    <3>1. [mem[s][d] EXCEPT !.copy[MPISpace] = Incoming] \in Plane
      BY <1>0, Spaces, Contents DEF Plane
    <3>2. QED
      BY <1>9, <3>1 DEF Arrive, TypeOK
  <2>2. QED
    BY <1>9, <2>1 DEF Arrive, TypeOK
<1>10. ASSUME NEW s \in Local, NEW d \in Dim, Depart(s, d) PROVE TypeOK'
  <2>1. Source[s][d].copy[MPISpace] \in Content
    BY <1>0, Spaces DEF Source, Plane
  <2>2. QED
    BY <1>10, <2>1 DEF Depart, TypeOK
<1>11. CASE RunKernel
  <2> DEFINE h == Head(stream)
  <2>1. h \in Local /\ stream' \in Seq(Local)
    BY <1>11, HeadTailProperties DEF RunKernel, TypeOK
  <2>2. Kernel(h, mem[h])
    BY <1>11 DEF RunKernel
  <2> HIDE DEF h
  <2>3. \A d \in Dim : Overwrite(mem[h][d], Outgoing(h)) \in Plane
    BY <1>0, <2>1, OverwriteFacts, Contents
  <2>4. \A d \in Dim : mem[h][d].copy[Home] \in Content
    BY <1>0, <2>1, Spaces DEF Plane
  <2>5. mem' \in [Local -> [Dim -> Plane]] /\ input' \in [Local -> [Dim -> Content]]
    BY <2>2, <2>3, <2>4 DEF Kernel, TypeOK
  <2>6. QED
    BY <1>11, <2>1, <2>5 DEF RunKernel, TypeOK
<1>12. CASE Flush
  BY <1>12 DEF Flush, TypeOK, Planes
<1>13. CASE Synchronize
  BY <1>13 DEF Synchronize, TypeOK
<1>14. CASE NextIteration
  BY <1>14, Contents DEF NextIteration, TypeOK, Planes
<1>15. CASE Done \/ UNCHANGED vars
  BY <1>15 DEF Done, vars, TypeOK
<1>16. QED
  BY <1>1, <1>2, <1>3, <1>4, <1>5, <1>6, <1>7, <1>8, <1>9, <1>10, <1>11, <1>12, <1>13,
     <1>14, <1>15 DEF Next

-----------------------------------------------------------------------------
(* What the actions leave alone.                                           *)

LEMMA Stable ==
  ASSUME UNCHANGED <<build, method, iter>>
  PROVE  /\ Home' = Home /\ MPISpace' = MPISpace /\ OnDevice' = OnDevice
         /\ BlockJacobi' = BlockJacobi /\ Astray' = Astray
         /\ Incoming' = Incoming
         /\ \A s \in Local : Outgoing(s)' = Outgoing(s)
         /\ \A s \in Local, d \in Dim : Expected(s, d)' = Expected(s, d)
<1>1. /\ Home' = Home /\ MPISpace' = MPISpace /\ OnDevice' = OnDevice
      /\ BlockJacobi' = BlockJacobi /\ Astray' = Astray
  BY DEF Home, MPISpace, OnDevice, GpuAware, BlockJacobi, Astray
<1>2. Incoming' = Incoming
  BY DEF Incoming
<1>3. \A s : Outgoing(s)' = Outgoing(s)
  BY DEF Outgoing
<1>4. \A s \in Local, d \in Dim : Expected(s, d)' = Expected(s, d)
  BY <1>1, <1>2, <1>3 DEF Expected
<1>5. QED
  BY <1>1, <1>2, <1>3, <1>4

LEMMA SameStream ==
  ASSUME UNCHANGED stream
  PROVE  /\ Idle' = Idle
         /\ \A s \in Local : Launched(s)' = Launched(s)
  BY DEF Idle, Launched

LEMMA SameHandedOn ==
  ASSUME UNCHANGED <<method, pc, add, swept, active>>
  PROVE  /\ \A s \in Local : Queued(s)' = Queued(s)
         /\ \A s \in Local : Posting(s)' = Posting(s)
         /\ \A s \in Local, d \in Dim : HandedOn(s, d)' = HandedOn(s, d)
  BY DEF Queued, Posting, HandedOn, BlockJacobi

LEMMA SameUse ==
  ASSUME UseInv, UNCHANGED <<build, method, iter, swept, stream, input, sent>>
  PROVE  UseInv'
<1> SUFFICES ASSUME NEW s \in Local, NEW d \in Dim PROVE UseOK(s, d)'
  BY DEF UseInv
<1>1. UseOK(s, d)
  BY DEF UseInv
<1>2. Garbage' = Garbage /\ Zero' = Zero
  BY DEF Garbage, Zero
<1>3. QED
  BY <1>1, <1>2, Stable, SameStream DEF UseOK

(* A subdomain that is swept has received what it waited for, and its      *)
(* upwind neighbours on the rank have handed their planes on.              *)
LEMMA SweptFacts ==
  ASSUME IndInv, NEW s \in swept, NEW d \in Dim
  PROVE  /\ recv[s][d] = "none"
         /\ pc = "loop" => ~ Missing(s, d)
<1>1. pc = "loop" => ~ Missing(s, d)
  BY DEF IndInv, WaitsInv, Queued, TypeOK
<1>2. CASE pc = "loop"
  BY <1>1, <1>2, PlaneAssumption DEF IndInv, PhaseInv, Missing, TypeOK
<1>3. CASE pc # "loop"
  BY <1>3 DEF IndInv, PhaseInv, Queued, TypeOK
<1>4. QED
  BY <1>1, <1>2, <1>3

(* A subdomain waits for a plane that has a receive.                       *)
LEMMA ReceiveFacts ==
  ASSUME IndInv, NEW s \in Local, NEW d \in Dim, recv[s][d] # "none"
  PROVE  /\ upwind[s][d] = Remote
         /\ s \notin swept
         /\ Queued(s)
         /\ d \in waits[s]
<1>1. upwind[s][d] = Remote /\ s \notin swept /\ Queued(s)
  BY SweptFacts DEF IndInv, PhaseInv
<1>2. Missing(s, d)
  BY <1>1, PlaneAssumption DEF Missing
<1>3. waits[s] = {e \in Dim : Missing(s, e)}
  BY <1>1 DEF IndInv, WaitsInv
<1>4. QED
  BY <1>1, <1>2, <1>3

(* No kernel is pending in an empty stream, and one that is has a plane    *)
(* on the device.                                                          *)
LEMMA LaunchedFacts ==
  ASSUME IndInv, NEW s \in Local
  PROVE  /\ Idle => ~ Launched(s)
         /\ Launched(s) => s \in swept /\ OnDevice
<1>1. Idle => ~ Launched(s)
  BY DEF Idle, Launched
<1>2. Launched(s) => s \in swept /\ OnDevice
  BY <1>1 DEF IndInv, StreamInv, Launched
<1>3. QED
  BY <1>1, <1>2

-----------------------------------------------------------------------------
(* Messages.                                                               *)

LEMMA ArriveInd ==
  ASSUME IndInv, NEW s \in Local, NEW d \in Dim, Arrive(s, d)
  PROVE  IndInv'
<1> USE DEF IndInv
<1>1. TypeOK'
  BY TypeStep DEF Next
<1>2. UNCHANGED <<build, method, iter, pc, add, waits, swept, active, old, stream, send, input, sent>>
  BY DEF Arrive
<1>3. /\ recv[s][d] = "posted" /\ s \notin swept /\ ~ Launched(s)
      /\ Queued(s) /\ d \in waits[s] /\ upwind[s][d] = Remote
  BY ReceiveFacts, LaunchedFacts DEF Arrive
<1>4. /\ recv'[s][d] = "complete"
      /\ mem'[s][d].last = mem[s][d].last
      /\ Current(mem'[s][d]) \in Expected(s, d)
  <2>1. /\ mem[s][d] \in Plane
        /\ ~ Astray => mem[s][d].last = MPISpace
        /\ Astray => Current(mem[s][d]) \in Expected(s, d)
    BY <1>3 DEF TypeOK, SpaceInv, SpaceOK, ContentInv, ContentOK
  <2>2. mem'[s][d] = [mem[s][d] EXCEPT !.copy[MPISpace] = Incoming]
    BY DEF Arrive, TypeOK
  <2>3. /\ mem'[s][d].last = mem[s][d].last
        /\ mem'[s][d].copy[MPISpace] = Incoming
        /\ \A space \in Space : space # MPISpace => mem'[s][d].copy[space] = mem[s][d].copy[space]
    BY <2>1, <2>2, Spaces DEF Plane
  <2>4. recv'[s][d] = "complete"
    BY DEF Arrive, TypeOK
  <2>5. Current(mem'[s][d]) = Incoming \/ (Astray /\ Current(mem'[s][d]) = Current(mem[s][d]))
    BY <2>1, <2>3 DEF Current, Plane
  <2>6. Incoming \in Expected(s, d)
    BY <1>3, ExpectedFacts
  <2>7. QED
    BY <2>1, <2>3, <2>4, <2>5, <2>6
<1>5. \A u \in Local, e \in Dim : u # s \/ e # d =>
        mem'[u][e] = mem[u][e] /\ recv'[u][e] = recv[u][e]
  BY DEF Arrive, TypeOK
<1>6. PhaseInv'
  BY <1>2, <1>3, <1>5, Stable, SameHandedOn DEF PhaseInv
<1>7. StreamInv'
  BY <1>2, Stable, SameStream DEF StreamInv
<1>8. \A u \in Local, e \in Dim : Missing(u, e)' = Missing(u, e)
  BY <1>2, <1>3, <1>4, <1>5, SameHandedOn DEF Missing
<1>9. WaitsInv'
  BY <1>2, <1>8, SameHandedOn DEF WaitsInv
<1>10. SpaceInv'
  BY <1>2, <1>3, <1>4, <1>5, Stable, SameStream DEF SpaceInv, SpaceOK, Source
<1>11. ContentInv'
  <2> SUFFICES ASSUME NEW u \in Local, NEW e \in Dim PROVE ContentOK(u, e)'
    BY DEF ContentInv
  <2>1. ContentOK(u, e)
    BY DEF ContentInv
  <2>2. CASE u = s /\ e = d
    <3>1. BlockJacobi /\ pc \in {"add", "post"} => Current(mem'[s][d]) \in {Zero, Incoming}
      BY <1>3, <1>4, ExpectedFacts
    <3>2. Zero' = Zero
      BY DEF Zero
    <3>3. QED
      BY <1>2, <1>3, <1>4, <2>1, <2>2, <3>1, <3>2, Stable, SameStream, SameHandedOn DEF ContentOK
  <2>3. CASE u # s \/ e # d
    BY <1>2, <1>5, <2>1, <2>3, Stable, SameStream, SameHandedOn DEF ContentOK
  <2>4. QED
    BY <2>2, <2>3
<1>12. UseInv'
  BY <1>2, SameUse
<1>13. QED
  BY <1>1, <1>6, <1>7, <1>9, <1>10, <1>11, <1>12

LEMMA TestReceiveInd ==
  ASSUME IndInv, NEW s \in Local, NEW d \in Dim, TestReceive(s, d)
  PROVE  IndInv'
<1> USE DEF IndInv
<1>1. TypeOK'
  BY TypeStep DEF Next
<1>2. UNCHANGED <<build, method, iter, pc, add, swept, active, old, stream, send, input, sent>>
  BY DEF TestReceive
<1>3. /\ recv[s][d] = "complete" /\ s \notin swept /\ Queued(s)
      /\ upwind[s][d] = Remote /\ pc = "loop"
  BY ReceiveFacts DEF TestReceive
<1>4. \A u \in Local, e \in Dim :
        mem'[u][e].last = mem[u][e].last /\ Current(mem'[u][e]) = Current(mem[u][e])
  <2>1. CASE build = "aware"
    <3>1. mem[s][d] \in Plane /\ mem[s][d].last = "GPU"
      BY <1>3, <2>1 DEF TypeOK, SpaceInv, SpaceOK, Home, MPISpace, OnDevice, GpuAware, Astray
    <3>2. mem'[s][d] = [mem[s][d] EXCEPT !.last = "GPU"]
      BY <2>1 DEF TestReceive, TypeOK
    <3>3. mem'[s][d] = mem[s][d]
      BY <3>1, <3>2 DEF Plane
    <3>4. \A u \in Local, e \in Dim : mem'[u][e] = mem[u][e]
      BY <2>1, <3>3 DEF TestReceive, TypeOK
    <3>5. QED
      BY <3>4
  <2>2. CASE build # "aware"
    BY <2>2 DEF TestReceive
  <2>3. QED
    BY <2>1, <2>2
<1>5. /\ recv'[s][d] = "none"
      /\ \A u \in Local, e \in Dim : u # s \/ e # d => recv'[u][e] = recv[u][e]
      /\ waits'[s] = waits[s] \ {d}
      /\ \A u \in Local : u # s => waits'[u] = waits[u]
  BY DEF TestReceive, TypeOK
<1>6. PhaseInv'
  BY <1>2, <1>3, <1>5, Stable, SameHandedOn DEF PhaseInv
<1>7. StreamInv'
  BY <1>2, Stable, SameStream DEF StreamInv
<1>8. /\ ~ Missing(s, d)'
      /\ \A u \in Local, e \in Dim : u # s \/ e # d => Missing(u, e)' = Missing(u, e)
  BY <1>2, <1>3, <1>5, SameHandedOn DEF Missing
<1>9. WaitsInv'
  <2>1. \A u \in Local : Queued(u)' => waits'[u] = {e \in Dim : Missing(u, e)'}
    BY <1>2, <1>5, <1>8, SameHandedOn DEF WaitsInv
  <2>2. \A u \in swept' : waits'[u] = {}
    BY <1>2, <1>3, <1>5 DEF WaitsInv, TypeOK
  <2>3. QED
    BY <2>1, <2>2 DEF WaitsInv
<1>10. SpaceInv'
  BY <1>2, <1>4, <1>5, Stable, SameStream DEF SpaceInv, SpaceOK, Source
<1>11. ContentInv'
  <2> SUFFICES ASSUME NEW u \in Local, NEW e \in Dim PROVE ContentOK(u, e)'
    BY DEF ContentInv
  <2>1. ContentOK(u, e)
    BY DEF ContentInv
  <2>2. CASE u = s /\ e = d
    <3>1. Current(mem[s][d]) \in Expected(s, d)
      BY <1>3, <2>1, <2>2 DEF ContentOK
    <3>2. QED
      BY <1>2, <1>4, <1>5, <2>1, <2>2, <3>1, Stable, SameStream, SameHandedOn DEF ContentOK
  <2>3. CASE u # s \/ e # d
    <3>1. e \notin waits'[u] => e \notin waits[u]
      BY <1>5, <2>3
    <3>2. QED
      BY <1>2, <1>4, <1>5, <2>1, <2>3, <3>1, Stable, SameStream, SameHandedOn DEF ContentOK
  <2>4. QED
    BY <2>2, <2>3
<1>12. UseInv'
  BY <1>2, SameUse
<1>13. QED
  BY <1>1, <1>6, <1>7, <1>9, <1>10, <1>11, <1>12

LEMMA DepartInd ==
  ASSUME IndInv, NEW s \in Local, NEW d \in Dim, Depart(s, d)
  PROVE  IndInv'
<1> USE DEF IndInv
<1>1. TypeOK'
  BY TypeStep DEF Next
<1>2. /\ UNCHANGED <<build, method, iter, pc, add, waits, swept, active, mem, old, stream>>
      /\ UNCHANGED <<recv, input>>
  BY DEF Depart
<1>3. /\ send[s][d] = "posted" /\ send'[s][d] = "complete"
      /\ sent'[s][d] = Source[s][d].copy[MPISpace]
      /\ \A u \in Local, e \in Dim : u # s \/ e # d =>
           send'[u][e] = send[u][e] /\ sent'[u][e] = sent[u][e]
  BY DEF Depart, TypeOK
<1>4. sent'[s][d] = Current(Source[s][d])
  BY <1>3 DEF SpaceInv, SpaceOK, Current
<1>5. HandedOn(s, d) /\ pc \in {"post", "loop"}
  BY <1>3 DEF PhaseInv
<1>6. Current(Source[s][d]) \in (IF BlockJacobi THEN {Zero, Incoming} ELSE {Outgoing(s)})
  <2>1. ContentOK(s, d)
    BY DEF ContentInv
  <2>2. CASE BlockJacobi
    BY <1>5, <2>1, <2>2 DEF ContentOK, Source
  <2>3. CASE ~ BlockJacobi
    BY <1>3, <1>5, <2>1, <2>3 DEF ContentOK, Source, HandedOn, Posting
  <2>4. QED
    BY <2>2, <2>3
<1>7. PhaseInv'
  BY <1>2, <1>3, Stable, SameHandedOn DEF PhaseInv
<1>8. StreamInv'
  BY <1>2, Stable, SameStream DEF StreamInv
<1>9. \A u \in Local, e \in Dim : Missing(u, e)' = Missing(u, e)
  BY <1>2, SameHandedOn DEF Missing
<1>10. WaitsInv'
  BY <1>2, <1>9, SameHandedOn DEF WaitsInv
<1>11. SpaceInv'
  BY <1>2, <1>3, Stable, SameStream DEF SpaceInv, SpaceOK, Source
<1>12. ContentInv'
  <2> SUFFICES ASSUME NEW u \in Local, NEW e \in Dim PROVE ContentOK(u, e)'
    BY DEF ContentInv
  <2>1. ContentOK(u, e)
    BY DEF ContentInv
  <2>2. send'[u][e] = "posted" => send[u][e] = "posted"
    BY <1>3
  <2>3. QED
    BY <1>2, <2>1, <2>2, Stable, SameStream, SameHandedOn DEF ContentOK
<1>13. UseInv'
  <2> SUFFICES ASSUME NEW u \in Local, NEW e \in Dim PROVE UseOK(u, e)'
    BY DEF UseInv
  <2>1. UseOK(u, e)
    BY DEF UseInv
  <2>2. sent'[u][e] = sent[u][e] \/ (u = s /\ sent'[u][e] = Current(Source[s][d]))
    BY <1>3, <1>4
  <2>3. QED
    BY <1>2, <1>6, <2>1, <2>2, Stable, SameStream DEF UseOK
<1>14. QED
  BY <1>1, <1>7, <1>8, <1>10, <1>11, <1>12, <1>13

-----------------------------------------------------------------------------
(* The host between the sweeps.                                            *)

(* A step of the host alone, which neither reads nor writes a plane, ends  *)
(* no waiting and keeps to the phases, keeps the invariant.                *)
LEMMA ControlInd ==
  ASSUME IndInv, TypeOK', PhaseInv',
         UNCHANGED <<build, method, iter, waits, swept, mem, old, stream, recv, input, sent>>,
         \A s \in Local, d \in Dim : send'[s][d] = "posted" => send[s][d] = "posted",
         \A s \in Local : Queued(s)' => Queued(s),
         \A s \in Local, d \in Dim : HandedOn(s, d)' = HandedOn(s, d),
         pc' = "returned" => Idle,
         pc' = "loop" => pc = "loop" \/ swept = {},
         BlockJacobi => /\ pc' # "add"
                        /\ pc' = "post" => pc \in {"add", "post"}
                        /\ pc' \in {"post", "loop"} =>
                             pc \in {"post", "loop"} \/ (pc = "add" /\ add = {})
  PROVE  IndInv'
<1> USE DEF IndInv
<1>1. StreamInv'
  BY Stable, SameStream DEF StreamInv
<1>2. \A u \in Local, e \in Dim : Missing(u, e)' = Missing(u, e)
  BY DEF Missing
<1>3. WaitsInv'
  BY <1>2 DEF WaitsInv
<1>4. SpaceInv'
  BY Stable, SameStream DEF SpaceInv, SpaceOK, Source
<1>5. ContentInv'
  <2> SUFFICES ASSUME NEW u \in Local, NEW e \in Dim PROVE ContentOK(u, e)'
    BY DEF ContentInv
  <2>1. ContentOK(u, e)
    BY DEF ContentInv
  <2>2. add = {} => add # Local
    OBVIOUS
  <2>3. QED
    BY <2>1, <2>2, Stable, SameStream DEF ContentOK
<1>6. UseInv'
  BY SameUse
<1>7. QED
  BY <1>1, <1>3, <1>4, <1>5, <1>6

LEMMA PostNextInd ==
  ASSUME IndInv, NEW s \in Local, PostNext(s)
  PROVE  IndInv'
<1> USE DEF IndInv
<1>1. TypeOK'
  BY TypeStep DEF Next
<1>2. /\ pc = "post" /\ active = << >> /\ s \in add /\ BlockJacobi
      /\ active' = <<s, 0>> /\ add' = add \ {s}
      /\ UNCHANGED <<build, method, iter, pc, waits, swept, mem, old, stream, recv, send>>
      /\ UNCHANGED <<input, sent>>
  BY DEF PostNext, PhaseInv
<1>3. \A u \in Local : Posting(u)' <=> Posting(u) \/ u = s
  BY <1>2 DEF Posting, BlockJacobi
<1>4. \A u \in Local, d \in Dim : HandedOn(u, d)' = HandedOn(u, d)
  <2> SUFFICES ASSUME NEW u \in Local, NEW d \in Dim PROVE HandedOn(u, d)' <=> HandedOn(u, d)
    BY DEF HandedOn
  <2>1. CASE u = s
    <3>1. 0 \in 0 .. d
      BY DEF Dim
    <3>2. ~ HandedOn(u, d)'
      BY <1>2, <2>1, <3>1 DEF HandedOn
    <3>3. ~ Posting(u)
      BY <1>2, <2>1 DEF Posting
    <3>4. QED
      BY <3>2, <3>3 DEF HandedOn
  <2>2. CASE u # s
    BY <1>2, <1>3, <2>2 DEF HandedOn
  <2>3. QED
    BY <2>1, <2>2
<1>5. PhaseInv'
  BY <1>2, <1>3, <1>4, Stable DEF PhaseInv, Queued
<1>6. QED
  BY <1>1, <1>2, <1>4, <1>5, ControlInd DEF Queued

LEMMA AddedAllInd ==
  ASSUME IndInv, AddedAll
  PROVE  IndInv'
<1> USE DEF IndInv
<1>1. TypeOK'
  BY TypeStep DEF Next
<1>2. /\ pc = "add" /\ add = {} /\ active = << >> /\ swept = {}
      /\ pc' = (IF BlockJacobi THEN "post" ELSE "loop")
      /\ add' = (IF BlockJacobi THEN Local ELSE add)
      /\ UNCHANGED <<build, method, iter, waits, swept, active, mem, old, stream, recv, send>>
      /\ UNCHANGED <<input, sent>>
  BY DEF AddedAll, PhaseInv
<1>3. \A u \in Local : ~ Posting(u) /\ ~ Posting(u)'
  BY <1>2 DEF Posting, BlockJacobi
<1>4. PhaseInv'
  BY <1>2, <1>3, Stable DEF PhaseInv, Queued, HandedOn
<1>5. \A u \in Local, d \in Dim : HandedOn(u, d)' = HandedOn(u, d)
  BY <1>3 DEF HandedOn
<1>6. \A u \in Local : Queued(u)
  BY <1>2 DEF Queued
<1>7. QED
  BY <1>1, <1>2, <1>4, <1>5, <1>6, ControlInd

LEMMA PostedAllInd ==
  ASSUME IndInv, PostedAll
  PROVE  IndInv'
<1> USE DEF IndInv
<1>1. TypeOK'
  BY TypeStep DEF Next
<1>2. /\ pc = "post" /\ pc' = "loop" /\ add = {} /\ active = << >> /\ swept = {}
      /\ BlockJacobi
      /\ UNCHANGED <<build, method, iter, add, waits, swept, active, mem, old, stream, recv>>
      /\ UNCHANGED <<send, input, sent>>
  BY DEF PostedAll, PhaseInv
<1>3. \A u \in Local : Posting(u) /\ Posting(u)'
  BY <1>2 DEF Posting, BlockJacobi
<1>4. \A u \in Local, d \in Dim : HandedOn(u, d)' = HandedOn(u, d)
  BY <1>2, <1>3 DEF HandedOn
<1>5. PhaseInv'
  BY <1>2, <1>3, <1>4, Stable DEF PhaseInv, Queued
<1>6. QED
  BY <1>1, <1>2, <1>4, <1>5, ControlInd DEF Queued

LEMMA FlushInd ==
  ASSUME IndInv, Flush
  PROVE  IndInv'
<1> USE DEF IndInv
<1>1. TypeOK'
  BY TypeStep DEF Next
<1>2. /\ pc = "loop" /\ pc' = "sync" /\ swept = Local /\ active = << >>
      /\ \A s \in Local, d \in Dim : recv[s][d] = "none" /\ send'[s][d] = "none"
      /\ UNCHANGED <<build, method, iter, add, waits, swept, active, mem, old, stream, recv>>
      /\ UNCHANGED <<input, sent>>
  BY DEF Flush, Planes
<1>3. \A u \in Local : Posting(u)' = Posting(u)
  BY <1>2 DEF Posting, BlockJacobi
<1>4. \A u \in Local, d \in Dim : HandedOn(u, d)' = HandedOn(u, d)
  BY <1>2, <1>3 DEF HandedOn
<1>5. PhaseInv'
  BY <1>2, <1>4, Stable DEF PhaseInv
<1>6. QED
  BY <1>1, <1>2, <1>4, <1>5, ControlInd DEF Queued

LEMMA SynchronizeInd ==
  ASSUME IndInv, Synchronize
  PROVE  IndInv'
<1> USE DEF IndInv
<1>1. TypeOK'
  BY TypeStep DEF Next
<1>2. /\ pc = "sync" /\ pc' = "returned" /\ Idle
      /\ UNCHANGED <<build, method, iter, add, waits, swept, active, mem, old, stream, recv>>
      /\ UNCHANGED <<send, input, sent>>
  BY DEF Synchronize, SynchronizeDevice
<1>3. \A u \in Local : Posting(u)' = Posting(u)
  BY <1>2 DEF Posting, BlockJacobi
<1>4. \A u \in Local, d \in Dim : HandedOn(u, d)' = HandedOn(u, d)
  BY <1>2, <1>3 DEF HandedOn
<1>5. PhaseInv'
  BY <1>2, <1>4, Stable DEF PhaseInv, Queued
<1>6. QED
  BY <1>1, <1>2, <1>4, <1>5, ControlInd DEF Queued

LEMMA NextIterationInd ==
  ASSUME IndInv, NextIteration
  PROVE  IndInv'
<1> USE DEF IndInv
<1>1. TypeOK'
  BY TypeStep DEF Next
<1>2. /\ pc = "returned" /\ pc' = "start" /\ swept' = {} /\ add = {}
      /\ UNCHANGED <<build, method, add, waits, active, mem, old, stream, recv, send>>
      /\ \A s \in Local, d \in Dim : input'[s][d] = Garbage /\ sent'[s][d] = Garbage
  BY DEF NextIteration, PhaseInv, Planes
<1>3. /\ Home' = Home /\ MPISpace' = MPISpace /\ BlockJacobi' = BlockJacobi
  BY <1>2 DEF Home, MPISpace, OnDevice, GpuAware, BlockJacobi
<1>4. Idle /\ Idle' /\ \A s \in Local : ~ Launched(s) /\ ~ Launched(s)'
  BY <1>2 DEF StreamInv, Idle, Launched
<1>5. \A s \in Local, d \in Dim : active # <<s, d>> /\ recv[s][d] = "none" /\ send[s][d] = "none"
  BY <1>2 DEF PhaseInv, Queued
<1>6. PhaseInv'
  BY <1>2, <1>5 DEF PhaseInv
<1>7. StreamInv'
  BY <1>2, <1>4 DEF StreamInv, Idle
<1>8. WaitsInv'
  BY <1>2 DEF WaitsInv, Queued
<1>9. SpaceInv'
  BY <1>2, <1>3, <1>4, <1>5 DEF SpaceInv, SpaceOK
<1>10. ContentInv'
  BY <1>2, <1>4, <1>5 DEF ContentInv, ContentOK, Queued
<1>11. Garbage' = Garbage
  BY DEF Garbage
<1>12. UseInv'
  BY <1>2, <1>4, <1>11 DEF UseInv, UseOK
<1>13. QED
  BY <1>1, <1>6, <1>7, <1>8, <1>9, <1>10, <1>12

LEMMA StartInd ==
  ASSUME IndInv, Start
  PROVE  IndInv'
<1> USE DEF IndInv
<1>1. TypeOK'
  BY TypeStep DEF Next
<1>2. /\ pc = "start" /\ pc' = "add" /\ add' = Local /\ swept = {} /\ add = {}
      /\ UNCHANGED <<build, method, iter, waits, swept, active, stream, recv, send, input, sent>>
  BY DEF Start, PhaseInv
<1>3. \A s \in Local : ~ Launched(s) /\ ~ Launched(s)'
  BY <1>2, LaunchedFacts, SameStream
<1>4. \A s \in Local, d \in Dim : active # <<s, d>> /\ recv[s][d] = "none" /\ send[s][d] = "none"
  BY <1>2 DEF PhaseInv, Queued
<1>5. \A s \in Local, d \in Dim : mem'[s][d].last = Home /\ Current(mem'[s][d]) = Zero
  <2> TAKE s \in Local, d \in Dim
  <2>1. mem'[s][d] = Write(mem[s][d], Zero)
    BY DEF Start
  <2>2. mem[s][d] \in Plane /\ mem[s][d].last \in {Home, MPISpace}
    BY DEF TypeOK, SpaceInv, SpaceOK
  <2>3. QED
    BY <2>1, <2>2, WriteFacts, Contents
<1>6. \A s \in Local, d \in Dim : old'[s][d].last \in {Home, MPISpace}
  <2>1. CASE BlockJacobi
    BY <2>1 DEF Start, Planes, Fresh
  <2>2. CASE ~ BlockJacobi
    BY <2>2 DEF Start, SpaceInv, SpaceOK
  <2>3. QED
    BY <2>1, <2>2
<1>7. PhaseInv'
  BY <1>2, <1>4 DEF PhaseInv
<1>8. StreamInv'
  BY <1>2, Stable, SameStream DEF StreamInv
<1>9. WaitsInv'
  BY <1>2 DEF WaitsInv, Queued
<1>10. SpaceInv'
  BY <1>2, <1>3, <1>4, <1>5, <1>6, Stable DEF SpaceInv, SpaceOK
<1>11. Zero' = Zero
  BY DEF Zero
<1>12. ContentInv'
  BY <1>2, <1>3, <1>4, <1>5, <1>11 DEF ContentInv, ContentOK, Queued
<1>13. UseInv'
  BY <1>2, SameUse
<1>14. QED
  BY <1>1, <1>7, <1>8, <1>9, <1>10, <1>12, <1>13

LEMMA AddSubdomainInd ==
  ASSUME IndInv, NEW s \in Local, AddSubdomain(s)
  PROVE  IndInv'
<1> USE DEF IndInv
<1>1. TypeOK'
  BY TypeStep DEF Next
<1>2. /\ pc = "add" /\ s \in add /\ add' = add \ {s} /\ swept = {}
      /\ UNCHANGED <<build, method, iter, pc, swept, active, stream, send, input, sent>>
  BY DEF AddSubdomain, PhaseInv
<1>3. \A u \in Local : ~ Launched(u) /\ ~ Launched(u)'
  BY <1>2, LaunchedFacts, SameStream
<1>4. \A u \in Local, d \in Dim :
        /\ active # <<u, d>> /\ send[u][d] = "none" /\ recv[s][d] = "none"
        /\ mem[u][d] \in Plane /\ mem[u][d].last \in {Home, MPISpace}
        /\ old[u][d] \in Plane /\ old[u][d].last \in {Home, MPISpace}
  BY <1>2 DEF PhaseInv, Queued, TypeOK, SpaceInv, SpaceOK
<1>5. \A u \in Local : Queued(u)' <=> Queued(u) \/ u = s
  BY <1>2 DEF Queued
<1>6. /\ waits'[s] = {d \in Dim : upwind[s][d] # NoSdom}
      /\ \A u \in Local : u # s => waits'[u] = waits[u]
      /\ \A d \in Dim : recv'[s][d] = IF upwind[s][d] = Remote THEN "posted" ELSE "none"
      /\ \A u \in Local, d \in Dim : u # s => recv'[u][d] = recv[u][d]
  BY <1>4 DEF AddSubdomain, TypeOK
<1> DEFINE seen == IF BlockJacobi
                     THEN [t \in Local |-> [d \in Dim |-> GetView(mem[t][d])]] ELSE mem
<1>7. \A u \in Local, d \in Dim :
        /\ seen[u][d] \in Plane
        /\ seen[u][d].last = (IF BlockJacobi THEN Home ELSE mem[u][d].last)
        /\ Current(seen[u][d]) = Current(mem[u][d])
  BY <1>4, ViewFacts
<1>8. /\ \A d \in Dim : mem'[s][d] = IF upwind[s][d] = Remote THEN ForMPI(seen[s][d])
                                                            ELSE seen[s][d]
      /\ \A u \in Local, d \in Dim : u # s => mem'[u][d] = seen[u][d]
  <2>1. mem' = [seen EXCEPT ![s] = [d \in Dim |-> IF upwind[s][d] = Remote
                                                     THEN ForMPI(@[d]) ELSE @[d]]]
    BY DEF AddSubdomain
  <2>2. seen \in [Local -> [Dim -> Plane]]
    BY <1>7 DEF TypeOK
  <2> HIDE DEF seen
  <2>3. QED
    BY <2>1, <2>2
<1> HIDE DEF seen
<1>9. \A u \in Local, d \in Dim :
        /\ mem'[u][d].last \in {Home, MPISpace}
        /\ Current(mem'[u][d]) = Current(mem[u][d])
        /\ recv'[u][d] # "none" /\ ~ Astray => mem'[u][d].last = MPISpace
  <2> TAKE u \in Local, d \in Dim
  <2>1. /\ seen[u][d].last \in {Home, MPISpace}
        /\ recv[u][d] # "none" /\ ~ Astray => seen[u][d].last = MPISpace
    BY <1>4, <1>7, OneCopy DEF SpaceInv, SpaceOK
  <2>2. CASE u = s /\ upwind[u][d] = Remote
    <3>1. mem'[u][d] = ForMPI(seen[u][d])
      BY <1>8, <2>2
    <3>2. mem'[u][d].last = MPISpace /\ Current(mem'[u][d]) = Current(seen[u][d])
      BY <1>7, <2>1, <3>1, ForMPIFacts
    <3>3. QED
      BY <1>7, <3>2
  <2>3. CASE u = s /\ upwind[u][d] # Remote
    BY <1>6, <1>7, <1>8, <2>1, <2>3
  <2>4. CASE u # s
    BY <1>6, <1>7, <1>8, <2>1, <2>4
  <2>5. QED
    BY <2>2, <2>3, <2>4
<1>10. \A u \in Local, d \in Dim :
         /\ old'[u][d].last \in {Home, MPISpace}
         /\ BlockJacobi => Current(old'[u][d]) = Current(mem[u][d])
  <2> TAKE u \in Local, d \in Dim
  <2>1. CASE BlockJacobi
    <3>1. old'[u][d] = Write(old[u][d], Read(mem[u][d]))
      BY <2>1 DEF AddSubdomain
    <3>2. Read(mem[u][d]) = Current(mem[u][d]) /\ Current(mem[u][d]) \in Content
      BY <1>4, ViewFacts DEF Current, Plane
    <3>3. QED
      BY <1>4, <3>1, <3>2, WriteFacts
  <2>2. CASE ~ BlockJacobi
    BY <1>4, <2>2 DEF AddSubdomain
  <2>3. QED
    BY <2>1, <2>2
<1>11. \A u \in Local : ~ Posting(u) /\ ~ Posting(u)'
  BY <1>2 DEF Posting, BlockJacobi
<1>12. PhaseInv'
  BY <1>2, <1>4, <1>5, <1>6, Stable DEF PhaseInv
<1>13. StreamInv'
  BY <1>2, Stable, SameStream DEF StreamInv
<1>14. WaitsInv'
  <2> SUFFICES ASSUME NEW u \in Local, Queued(u)'
               PROVE  waits'[u] = {d \in Dim : Missing(u, d)'}
    BY <1>2 DEF WaitsInv
  <2>1. \A d \in Dim : Missing(u, d)' <=>
          upwind[u][d] # NoSdom /\ (upwind[u][d] = Remote => recv'[u][d] # "none")
    BY <1>11 DEF Missing, HandedOn
  <2>2. CASE u = s
    BY <1>6, <2>1, <2>2
  <2>3. CASE u # s
    <3>1. waits[u] = {d \in Dim : Missing(u, d)}
      BY <1>5, <2>3 DEF WaitsInv
    <3>2. \A d \in Dim : Missing(u, d)' <=> Missing(u, d)
      BY <1>6, <1>11, <2>1, <2>3 DEF Missing, HandedOn
    <3>3. QED
      BY <1>6, <2>3, <3>1, <3>2
  <2>4. QED
    BY <2>2, <2>3
<1>15. SpaceInv'
  BY <1>2, <1>3, <1>4, <1>9, <1>10, Stable DEF SpaceInv, SpaceOK
<1>16. ContentInv'
  <2> SUFFICES ASSUME NEW u \in Local, NEW d \in Dim PROVE ContentOK(u, d)'
    BY DEF ContentInv
  <2>1. ContentOK(u, d)
    BY DEF ContentInv
  <2>2. /\ recv'[u][d] = "complete" => recv[u][d] = "complete"
        /\ recv'[u][d] = "posted" => upwind[u][d] = Remote
    BY <1>6 DEF PhaseInv
  <2>3. Queued(u)' /\ upwind[u][d] # NoSdom /\ d \notin waits'[u] =>
          Queued(u) /\ d \notin waits[u]
    BY <1>5, <1>6
  <2>4. recv'[u][d] = "posted" /\ Astray => Current(mem'[u][d]) \in Expected(u, d)
    <3>1. Astray => Current(mem'[u][d]) \in {Zero, Incoming}
      BY <1>2, <1>9, <2>1 DEF ContentOK, Astray
    <3>2. QED
      BY <2>2, <3>1, ExpectedFacts
  <2>5. Zero' = Zero
    BY DEF Zero
  <2>6. QED
    BY <1>2, <1>3, <1>4, <1>9, <1>10, <2>1, <2>2, <2>3, <2>4, <2>5, Stable DEF ContentOK
<1>17. UseInv'
  BY <1>2, SameUse
<1>18. QED
  BY <1>1, <1>12, <1>13, <1>14, <1>15, <1>16, <1>17

-----------------------------------------------------------------------------
(* Sweeps.                                                                 *)

(* A subdomain that waits for nothing has what the kernel should read, on  *)
(* the kernel's side once the views are taken.                             *)
LEMMA ClearedFacts ==
  ASSUME IndInv, NEW s \in Local, Sweep(s), NEW d \in Dim,
         NEW m, m = IF upwind[s][d] = NoSdom THEN Write(mem[s][d], Zero) ELSE GetView(mem[s][d])
  PROVE  /\ m \in Plane
         /\ m.last = Home
         /\ Current(m) \in Expected(s, d)
         /\ recv[s][d] = "none"
         /\ ~ BlockJacobi => send[s][d] = "none"
<1> USE DEF IndInv
<1>1. pc = "loop" /\ s \notin swept /\ waits[s] = {} /\ Queued(s)
  BY DEF Sweep, Queued
<1>2. mem[s][d] \in Plane /\ mem[s][d].last \in {Home, MPISpace}
  BY DEF TypeOK, SpaceInv, SpaceOK
<1>3. m \in Plane /\ m.last = Home
  BY <1>2, ViewFacts, WriteFacts, Contents
<1>4. Current(m) \in Expected(s, d)
  <2>1. CASE upwind[s][d] = NoSdom
    <3>1. Current(m) = Zero
      BY <1>2, <2>1, WriteFacts, Contents
    <3>2. Expected(s, d) = {Zero}
      BY <2>1, PlaneAssumption DEF Expected
    <3>3. QED
      BY <3>1, <3>2
  <2>2. CASE upwind[s][d] # NoSdom
    <3>1. Current(m) = Current(mem[s][d])
      BY <1>2, <2>2, ViewFacts
    <3>2. ContentOK(s, d)
      BY DEF ContentInv
    <3>3. QED
      BY <1>1, <2>2, <3>1, <3>2 DEF ContentOK
  <2>3. QED
    BY <2>1, <2>2
<1>5. recv[s][d] = "none"
  BY <1>1, ReceiveFacts
<1>6. ~ BlockJacobi => send[s][d] = "none"
  BY <1>1 DEF PhaseInv, HandedOn, Posting
<1>7. QED
  BY <1>3, <1>4, <1>5, <1>6

(* The part of the invariant that is the same whether the kernel has run   *)
(* when Sweep returns or not.                                              *)
LEMMA SweepFacts ==
  ASSUME IndInv, NEW s \in Local, Sweep(s)
  PROVE  /\ PhaseInv' /\ WaitsInv'
         /\ \A u \in Local : Queued(u)' = Queued(u)
<1> USE DEF IndInv
<1>1. /\ pc = "loop" /\ active = << >> /\ s \notin swept /\ waits[s] = {}
      /\ swept' = swept \cup {s}
      /\ active' = (IF BlockJacobi THEN << >> ELSE <<s, 0>>)
      /\ UNCHANGED <<build, method, iter, pc, add, waits, old, recv, send, sent>>
  BY DEF Sweep
<1>2. \A u \in Local : Queued(u)' = Queued(u)
  BY <1>1 DEF Queued
<1>3. \A u \in Local : Posting(u)' <=> Posting(u) \/ u = s
  BY <1>1 DEF Posting, BlockJacobi
<1>4. \A u \in Local, d \in Dim : HandedOn(u, d)' = HandedOn(u, d)
  <2> SUFFICES ASSUME NEW u \in Local, NEW d \in Dim PROVE HandedOn(u, d)' <=> HandedOn(u, d)
    BY DEF HandedOn
  <2>1. CASE BlockJacobi
    BY <1>1, <1>3, <2>1 DEF HandedOn, Posting, BlockJacobi
  <2>2. CASE ~ BlockJacobi /\ u = s
    <3>1. 0 \in 0 .. d
      BY DEF Dim
    <3>2. QED
      BY <1>1, <2>2, <3>1 DEF HandedOn, Posting
  <2>3. CASE ~ BlockJacobi /\ u # s
    BY <1>1, <1>3, <2>3 DEF HandedOn
  <2>4. QED
    BY <2>1, <2>2, <2>3
<1>5. PhaseInv'
  BY <1>1, <1>2, <1>3, <1>4, Stable DEF PhaseInv
<1>6. \A u \in Local, d \in Dim : Missing(u, d)' = Missing(u, d)
  BY <1>1, <1>4 DEF Missing
<1>7. WaitsInv'
  BY <1>1, <1>2, <1>6 DEF WaitsInv
<1>8. QED
  BY <1>2, <1>5, <1>7

LEMMA SweepInd ==
  ASSUME IndInv, NEW s \in Local, Sweep(s)
  PROVE  IndInv'
<1> USE DEF IndInv
<1>1. TypeOK'
  BY TypeStep DEF Next
<1>2. /\ pc = "loop" /\ s \notin swept /\ swept' = swept \cup {s}
      /\ UNCHANGED <<build, method, iter, pc, add, waits, old, recv, send, sent>>
  BY DEF Sweep
<1> DEFINE cleared == [d \in Dim |-> IF upwind[s][d] = NoSdom
                                        THEN Write(mem[s][d], Zero) ELSE GetView(mem[s][d])]
<1>3. \A d \in Dim :
        /\ cleared[d] \in Plane
        /\ cleared[d].last = Home
        /\ Current(cleared[d]) \in Expected(s, d)
        /\ recv[s][d] = "none"
        /\ ~ BlockJacobi => send[s][d] = "none"
  BY ClearedFacts
<1>4. PhaseInv' /\ WaitsInv' /\ \A u \in Local : Queued(u)' = Queued(u)
  BY SweepFacts
<1>5. IF OnDevice
        THEN mem' = [mem EXCEPT ![s] = cleared] /\ stream' = Append(stream, s)
             /\ UNCHANGED input
        ELSE Kernel(s, cleared) /\ UNCHANGED stream
  BY DEF Sweep
<1> HIDE DEF cleared
<1>6. \A u \in Local : Launched(u) => u # s /\ u \in swept
  BY <1>2, LaunchedFacts
<1>7. CASE OnDevice
  <2>1. /\ \A d \in Dim : mem'[s][d] = cleared[d]
        /\ \A u \in Local, d \in Dim : u # s => mem'[u][d] = mem[u][d]
        /\ stream' = Append(stream, s) /\ UNCHANGED input
    BY <1>5, <1>7 DEF TypeOK
  <2>2. /\ Len(stream') = Len(stream) + 1 /\ Len(stream) \in Nat
        /\ \A n \in 1 .. Len(stream) : stream'[n] = stream[n]
        /\ stream'[Len(stream) + 1] = s
    BY <2>1, AppendProperties, LenProperties DEF TypeOK
  <2>3. \A u \in Local : Launched(u)' <=> Launched(u) \/ u = s
    <3> TAKE u \in Local
    <3>1. Launched(u)' => Launched(u) \/ u = s
      BY <2>2 DEF Launched
    <3>2. Launched(u) => Launched(u)'
      BY <2>2 DEF Launched
    <3>3. u = s => Launched(u)'
      BY <2>2 DEF Launched
    <3>4. QED
      BY <3>1, <3>2, <3>3
  <2>4. StreamInv'
    <3>1. OnDevice' /\ pc' # "returned"
      BY <1>2, <1>7, Stable
    <3>2. \A n \in 1 .. Len(stream') : stream'[n] \in swept'
      BY <1>2, <2>2 DEF StreamInv
    <3>3. \A n \in 1 .. Len(stream) : stream[n] # s
      BY <1>2 DEF StreamInv
    <3>4. \A n, k \in 1 .. Len(stream') : stream'[n] = stream'[k] => n = k
      BY <2>2, <3>3 DEF StreamInv
    <3>5. QED
      BY <3>1, <3>2, <3>4 DEF StreamInv
  <2>5. SpaceInv'
    BY <1>2, <1>3, <2>1, <2>3, Stable DEF SpaceInv, SpaceOK, Source
  <2>6. ContentInv'
    <3> SUFFICES ASSUME NEW u \in Local, NEW d \in Dim PROVE ContentOK(u, d)'
      BY DEF ContentInv
    <3>1. ContentOK(u, d)
      BY DEF ContentInv
    <3>2. CASE u = s
      BY <1>2, <1>3, <2>1, <2>3, <3>1, <3>2, Stable DEF ContentOK
    <3>3. CASE u # s
      BY <1>2, <1>4, <2>1, <2>3, <3>1, <3>3, Stable DEF ContentOK
    <3>4. QED
      BY <3>2, <3>3
  <2>7. UseInv'
    <3> SUFFICES ASSUME NEW u \in Local, NEW d \in Dim PROVE UseOK(u, d)'
      BY DEF UseInv
    <3>1. UseOK(u, d)
      BY DEF UseInv
    <3>2. QED
      BY <1>2, <2>1, <2>3, <3>1, Stable DEF UseOK
  <2>8. QED
    BY <1>1, <1>4, <2>4, <2>5, <2>6, <2>7
<1>8. CASE ~ OnDevice
  <2>1. /\ \A d \in Dim : mem'[s][d] = Overwrite(cleared[d], Outgoing(s))
        /\ \A d \in Dim : input'[s][d] = cleared[d].copy[Home]
        /\ \A u \in Local, d \in Dim : u # s => mem'[u][d] = mem[u][d] /\ input'[u][d] = input[u][d]
        /\ UNCHANGED stream
    BY <1>5, <1>8 DEF TypeOK, Kernel
  <2>2. \A d \in Dim : /\ mem'[s][d].last = Home
                       /\ Current(mem'[s][d]) = Outgoing(s)
                       /\ input'[s][d] \in Expected(s, d)
    <3> TAKE d \in Dim
    <3>1. Outgoing(s) \in Content
      BY Contents
    <3>2. QED
      BY <1>3, <2>1, <3>1, OverwriteFacts
  <2>3. \A u \in Local : Launched(u)' = Launched(u) /\ ~ Launched(u)
    BY <1>8, <2>1, SameStream, LaunchedFacts
  <2>4. StreamInv'
    BY <1>2, <2>1, Stable, SameStream DEF StreamInv
  <2>5. SpaceInv'
    BY <1>2, <1>3, <2>1, <2>2, <2>3, Stable DEF SpaceInv, SpaceOK, Source
  <2>6. ContentInv'
    <3> SUFFICES ASSUME NEW u \in Local, NEW d \in Dim PROVE ContentOK(u, d)'
      BY DEF ContentInv
    <3>1. ContentOK(u, d)
      BY DEF ContentInv
    <3>2. CASE u = s
      BY <1>2, <1>3, <2>2, <2>3, <3>1, <3>2, Stable DEF ContentOK
    <3>3. CASE u # s
      BY <1>2, <1>4, <2>1, <2>3, <3>1, <3>3, Stable DEF ContentOK
    <3>4. QED
      BY <3>2, <3>3
  <2>7. UseInv'
    <3> SUFFICES ASSUME NEW u \in Local, NEW d \in Dim PROVE UseOK(u, d)'
      BY DEF UseInv
    <3>1. UseOK(u, d)
      BY DEF UseInv
    <3>2. CASE u = s
      BY <1>2, <2>2, <2>3, <3>1, <3>2, Stable DEF UseOK
    <3>3. CASE u # s
      BY <1>2, <2>1, <2>3, <3>1, <3>3, Stable DEF UseOK
    <3>4. QED
      BY <3>2, <3>3
  <2>8. QED
    BY <1>1, <1>4, <2>4, <2>5, <2>6, <2>7
<1>9. QED
  BY <1>7, <1>8

LEMMA RunKernelInd ==
  ASSUME IndInv, RunKernel
  PROVE  IndInv'
<1> USE DEF IndInv
<1>1. TypeOK'
  BY TypeStep DEF Next
<1>2. UNCHANGED <<build, method, iter, pc, add, waits, swept, active, old, recv, send, sent>>
  BY DEF RunKernel
<1>0. PICK h \in Local : h = stream[1]
  BY EmptySeq, LenProperties, ElementOfSeq DEF RunKernel, TypeOK
<1>3. /\ Len(stream) \in Nat /\ Len(stream) >= 1 /\ Head(stream) = h
      /\ Len(stream') = Len(stream) - 1
      /\ \A n \in 1 .. Len(stream) - 1 : stream'[n] = stream[n + 1]
  BY <1>0, HeadTailProperties, EmptySeq, LenProperties DEF RunKernel, TypeOK
<1>4. h \in swept /\ h \in Local /\ Launched(h) /\ OnDevice /\ pc # "returned"
  BY <1>0, <1>3 DEF StreamInv, Idle, RunKernel, Launched, TypeOK
<1>5. \A u \in Local : Launched(u)' <=> Launched(u) /\ u # h
  <2> TAKE u \in Local
  <2>1. Launched(u)' => Launched(u) /\ u # h
    <3>1. ASSUME NEW n \in 1 .. Len(stream'), stream'[n] = u
          PROVE  n + 1 \in 1 .. Len(stream) /\ stream[n + 1] = u /\ n + 1 # 1
      BY <1>3, <3>1
    <3>2. QED
      BY <1>0, <1>3, <3>1 DEF Launched, StreamInv
  <2>2. Launched(u) /\ u # h => Launched(u)'
    <3>1. ASSUME NEW n \in 1 .. Len(stream), stream[n] = u, u # h
          PROVE  n - 1 \in 1 .. Len(stream') /\ stream'[n - 1] = u
      BY <1>0, <1>3, <3>1
    <3>2. QED
      BY <3>1 DEF Launched
  <2>3. QED
    BY <2>1, <2>2
<1>6. /\ \A d \in Dim : mem'[h][d] = Overwrite(mem[h][d], Outgoing(h))
      /\ \A d \in Dim : input'[h][d] = mem[h][d].copy[Home]
      /\ \A u \in Local, d \in Dim : u # h => mem'[u][d] = mem[u][d] /\ input'[u][d] = input[u][d]
  BY <1>3, <1>4 DEF RunKernel, Kernel, TypeOK
<1>7. \A d \in Dim : /\ mem'[h][d].last = Home
                     /\ Current(mem'[h][d]) = Outgoing(h)
                     /\ input'[h][d] \in Expected(h, d)
                     /\ recv[h][d] = "none"
                     /\ ~ BlockJacobi => send[h][d] # "posted"
  <2> TAKE d \in Dim
  <2>1. mem[h][d] \in Plane /\ mem[h][d].last = Home
    BY <1>4 DEF TypeOK, SpaceInv, SpaceOK
  <2>2. ContentOK(h, d)
    BY <1>4 DEF ContentInv
  <2>3. /\ Current(mem[h][d]) \in Expected(h, d)
        /\ ~ BlockJacobi => send[h][d] # "posted"
    BY <1>4, <2>2 DEF ContentOK
  <2>4. recv[h][d] = "none"
    BY <1>4, SweptFacts
  <2>5. /\ mem'[h][d].last = Home
        /\ Current(mem'[h][d]) = Outgoing(h)
        /\ input'[h][d] \in Expected(h, d)
    <3>1. /\ mem'[h][d] = Overwrite(mem[h][d], Outgoing(h))
          /\ input'[h][d] = mem[h][d].copy[Home]
      BY <1>6
    <3>2. Outgoing(h) \in Content
      BY Contents
    <3>3. QED
      BY <2>1, <2>3, <3>1, <3>2, OverwriteFacts
  <2>6. QED
    BY <2>3, <2>4, <2>5
<1>8. PhaseInv'
  BY <1>2, Stable, SameHandedOn DEF PhaseInv
<1>9. StreamInv'
  <2>1. OnDevice' /\ pc' # "returned"
    BY <1>2, <1>4, Stable
  <2>2. \A n \in 1 .. Len(stream') : n + 1 \in 1 .. Len(stream) /\ stream'[n] = stream[n + 1]
    BY <1>3
  <2>3. \A n \in 1 .. Len(stream') : stream'[n] \in swept'
    BY <1>2, <2>2 DEF StreamInv
  <2>4. \A n, k \in 1 .. Len(stream') : stream'[n] = stream'[k] => n = k
    <3> TAKE n \in 1 .. Len(stream'), k \in 1 .. Len(stream')
    <3>1. stream'[n] = stream'[k] => n + 1 = k + 1
      BY <2>2 DEF StreamInv
    <3>2. QED
      BY <1>3, <3>1
  <2>5. QED
    BY <2>1, <2>3, <2>4 DEF StreamInv
<1>10. \A u \in Local, e \in Dim : Missing(u, e)' = Missing(u, e)
  BY <1>2, SameHandedOn DEF Missing
<1>11. WaitsInv'
  BY <1>2, <1>10, SameHandedOn DEF WaitsInv
<1>12. SpaceInv'
  BY <1>2, <1>4, <1>5, <1>6, <1>7, Stable DEF SpaceInv, SpaceOK, Source
<1>13. ContentInv'
  <2> SUFFICES ASSUME NEW u \in Local, NEW d \in Dim PROVE ContentOK(u, d)'
    BY DEF ContentInv
  <2>1. ContentOK(u, d)
    BY DEF ContentInv
  <2>2. CASE u = h
    <3>1. pc \notin {"add", "post"}
      BY <1>4 DEF PhaseInv
    <3>2. QED
      BY <1>2, <1>4, <1>5, <1>7, <2>1, <2>2, <3>1, Stable, SameHandedOn DEF ContentOK
  <2>3. CASE u # h
    BY <1>2, <1>5, <1>6, <2>1, <2>3, Stable, SameHandedOn DEF ContentOK
  <2>4. QED
    BY <2>2, <2>3
<1>14. UseInv'
  <2> SUFFICES ASSUME NEW u \in Local, NEW d \in Dim PROVE UseOK(u, d)'
    BY DEF UseInv
  <2>1. UseOK(u, d)
    BY DEF UseInv
  <2>2. CASE u = h
    BY <1>2, <1>4, <1>5, <1>7, <2>1, <2>2, Stable DEF UseOK
  <2>3. CASE u # h
    BY <1>2, <1>5, <1>6, <2>1, <2>3, Stable DEF UseOK
  <2>4. QED
    BY <2>2, <2>3
<1>15. QED
  BY <1>1, <1>8, <1>9, <1>11, <1>12, <1>13, <1>14

-----------------------------------------------------------------------------
(* Sends.                                                                  *)

(* Plane d of s is about to be handed on: the neighbour below misses it.   *)
LEMMA PostSendFacts ==
  ASSUME IndInv, NEW s \in Local, NEW d \in Dim, active = <<s, d>>, PostSend
  PROVE  /\ HandOn(s, d, Source)
         /\ pc = (IF BlockJacobi THEN "post" ELSE "loop")
         /\ ~ BlockJacobi => s \in swept
         /\ \A u \in Local : Posting(u)' = Posting(u) /\ Queued(u)' = Queued(u) /\ Queued(u)
         /\ \A u \in Local, e \in Dim :
              HandedOn(u, e)' <=> HandedOn(u, e) \/ (u = s /\ e = d)
         /\ \A u \in Local, e \in Dim :
              Missing(u, e)' <=> Missing(u, e) /\ ~ (u = downwind[s][d] /\ e = d)
         /\ send[s][d] = "none"
         /\ ~ BlockJacobi => recv[s][d] = "none"
         /\ downwind[s][d] \in Local =>
              /\ downwind[s][d] \notin swept
              /\ upwind[downwind[s][d]][d] = s
              /\ recv[downwind[s][d]][d] = "none"
              /\ ~ BlockJacobi => send[downwind[s][d]][d] = "none"
<1> USE DEF IndInv
<1> DEFINE t == downwind[s][d]
<1>1. /\ HandOn(s, d, Source)
      /\ active' = (IF d < 2 THEN <<s, d + 1>> ELSE << >>)
      /\ UNCHANGED <<build, method, iter, pc, add, swept, stream, recv, input, sent>>
  BY DEF PostSend
<1>2. Posting(s) /\ pc = (IF BlockJacobi THEN "post" ELSE "loop")
  BY DEF PhaseInv
<1>3. ~ BlockJacobi => s \in swept
  BY <1>2 DEF Posting
<1>4. \A u \in Local : Posting(u)' = Posting(u) /\ Queued(u)' = Queued(u) /\ Queued(u)
  BY <1>1, <1>2 DEF Posting, Queued, BlockJacobi
<1>5. ~ HandedOn(s, d)
  <2>1. d \in 0 .. d
    BY DEF Dim
  <2>2. QED
    BY <2>1 DEF HandedOn
<1>6. \A u \in Local, e \in Dim : HandedOn(u, e)' <=> HandedOn(u, e) \/ (u = s /\ e = d)
  <2> TAKE u \in Local, e \in Dim
  <2>1. CASE u # s
    BY <1>1, <1>4, <2>1 DEF HandedOn
  <2>2. CASE u = s
    <3>1. HandedOn(u, e) <=> e < d
      BY <1>2, <2>2 DEF HandedOn, Dim
    <3>2. HandedOn(u, e)' <=> (d < 2 => e < d + 1)
      BY <1>1, <1>2, <1>4, <2>2 DEF HandedOn, Dim
    <3>3. QED
      BY <2>2, <3>1, <3>2 DEF Dim
  <2>3. QED
    BY <2>1, <2>2
<1>7. \A u \in Local, e \in Dim : upwind[u][e] = s /\ e = d <=> u = t /\ e = d
  BY PlaneAssumption
<1>8. \A u \in Local, e \in Dim : Missing(u, e)' <=> Missing(u, e) /\ ~ (u = t /\ e = d)
  BY <1>1, <1>6, <1>7 DEF Missing
<1>9. send[s][d] = "none"
  BY <1>5 DEF PhaseInv
<1>10. ~ BlockJacobi => recv[s][d] = "none"
  BY <1>3, SweptFacts
<1>11. ASSUME t \in Local
       PROVE  /\ t \notin swept
              /\ upwind[t][d] = s
              /\ recv[t][d] = "none"
              /\ ~ BlockJacobi => send[t][d] = "none"
  <2>1. upwind[t][d] = s
    BY <1>7, <1>11
  <2>2. Missing(t, d)
    BY <1>5, <2>1, PlaneAssumption DEF Missing
  <2>3. t \notin swept
    <3>1. CASE BlockJacobi
      BY <1>2, <3>1 DEF PhaseInv
    <3>2. CASE ~ BlockJacobi
      BY <1>2, <2>2, <3>2, SweptFacts
    <3>3. QED
      BY <3>1, <3>2
  <2>4. recv[t][d] = "none"
    BY <1>11, <2>1, PlaneAssumption DEF PhaseInv
  <2>5. ~ BlockJacobi => send[t][d] = "none"
    BY <1>11, <2>3 DEF PhaseInv, HandedOn, Posting
  <2>6. QED
    BY <2>1, <2>3, <2>4, <2>5
<1>12. QED
  BY <1>1, <1>2, <1>3, <1>4, <1>6, <1>8, <1>9, <1>10, <1>11

(* What happens to the planes: nothing changes but the plane below, which  *)
(* receives a copy, and the spaces the two planes are in.                  *)
LEMMA HandOnFacts ==
  ASSUME IndInv, NEW s \in Local, NEW d \in Dim, active = <<s, d>>, PostSend
  PROVE  /\ \A u \in Local, e \in Dim :
              /\ mem'[u][e].last \in {Home, MPISpace}
              /\ mem'[u][e].last = mem[u][e].last
                   \/ (u = downwind[s][d] /\ e = d)
                   \/ (~ BlockJacobi /\ downwind[s][d] # NoSdom /\ u = s /\ e = d)
              /\ u # downwind[s][d] \/ e # d => Current(mem'[u][e]) = Current(mem[u][e])
              /\ old'[u][e].last \in {Home, MPISpace}
              /\ u # s \/ e # d => old'[u][e].last = old[u][e].last
              /\ Current(old'[u][e]) = Current(old[u][e])
         /\ downwind[s][d] = Remote => Source'[s][d].last = MPISpace
         /\ downwind[s][d] \in Local =>
              /\ Idle
              /\ Current(mem'[downwind[s][d]][d]) = Current(Source[s][d])
<1> USE DEF IndInv
<1> DEFINE t == downwind[s][d]
<1>1. HandOn(s, d, Source) /\ UNCHANGED <<build, method, iter>>
  BY PostSendFacts DEF PostSend
<1>2. \A u \in Local, e \in Dim :
        /\ mem[u][e] \in Plane /\ mem[u][e].last \in {Home, MPISpace}
        /\ old[u][e] \in Plane /\ old[u][e].last \in {Home, MPISpace}
  BY DEF TypeOK, SpaceInv, SpaceOK
<1>3. \A m \in Plane : m.last \in {Home, MPISpace} =>
        /\ GetView(m) \in Plane /\ GetView(m).last = Home
        /\ Current(GetView(m)) = Current(m) /\ Read(m) = Current(m)
        /\ ForMPI(m).last = MPISpace /\ Current(ForMPI(m)) = Current(m)
  BY ViewFacts, ForMPIFacts
<1>4. t = NoSdom \/ t = Remote \/ t \in Local
  BY PlaneAssumption
<1>5. CASE t = NoSdom
  <2>1. UNCHANGED <<mem, old>>
    BY <1>1, <1>5, PlaneAssumption DEF HandOn
  <2>2. QED
    BY <1>2, <1>5, <2>1, PlaneAssumption
<1>6. CASE t = Remote
  <2>1. IF BlockJacobi
          THEN old' = [old EXCEPT ![s][d] = ForMPI(@)] /\ UNCHANGED mem
          ELSE mem' = [mem EXCEPT ![s][d] = ForMPI(@)] /\ UNCHANGED old
    BY <1>1, <1>6, PlaneAssumption DEF HandOn
  <2>2. CASE BlockJacobi
    <3>1. UNCHANGED mem /\ old'[s][d] = ForMPI(old[s][d]) /\ Source' = old'
          /\ \A u \in Local, e \in Dim : u # s \/ e # d => old'[u][e] = old[u][e]
      BY <1>1, <2>1, <2>2, Stable DEF TypeOK, Source
    <3>2. old'[s][d].last = MPISpace /\ Current(old'[s][d]) = Current(old[s][d])
      BY <1>2, <1>3, <3>1
    <3>3. QED
      BY <1>2, <1>6, <3>1, <3>2, PlaneAssumption
  <2>3. CASE ~ BlockJacobi
    <3>1. UNCHANGED old /\ mem'[s][d] = ForMPI(mem[s][d]) /\ Source' = mem'
          /\ \A u \in Local, e \in Dim : u # s \/ e # d => mem'[u][e] = mem[u][e]
      BY <1>1, <2>1, <2>3, Stable DEF TypeOK, Source
    <3>2. mem'[s][d].last = MPISpace /\ Current(mem'[s][d]) = Current(mem[s][d])
      BY <1>2, <1>3, <3>1
    <3>3. QED
      BY <1>2, <1>6, <2>3, <3>1, <3>2, PlaneAssumption
  <2>4. QED
    BY <2>2, <2>3
<1>7. CASE t \in Local
  <2> DEFINE copied == [mem EXCEPT ![t][d] = Write(@, Read(Source[s][d]))]
  <2>1. /\ Idle
        /\ IF BlockJacobi
             THEN mem' = copied /\ old' = [old EXCEPT ![s][d] = GetView(@)]
             ELSE mem' = [copied EXCEPT ![s][d] = GetView(@)] /\ UNCHANGED old
    BY <1>1, <1>7, PlaneAssumption DEF HandOn
  <2>2. Source[s][d] \in Plane /\ Read(Source[s][d]) = Current(Source[s][d])
    BY <1>2, <1>3 DEF Source
  <2>3. Current(Source[s][d]) \in Content
    BY <2>2 DEF Current, Plane
  <2>4. Write(mem[t][d], Read(Source[s][d])) \in Plane
        /\ Write(mem[t][d], Read(Source[s][d])).last = Home
        /\ Current(Write(mem[t][d], Read(Source[s][d]))) = Current(Source[s][d])
    BY <1>2, <1>7, <2>2, <2>3, WriteFacts
  <2>5. /\ copied \in [Local -> [Dim -> Plane]]
        /\ copied[t][d] = Write(mem[t][d], Read(Source[s][d]))
        /\ \A u \in Local, e \in Dim : u # t \/ e # d => copied[u][e] = mem[u][e]
    BY <1>7, <2>4 DEF TypeOK
  <2> HIDE DEF copied
  <2>6. CASE BlockJacobi
    <3>1. mem' = copied /\ old'[s][d] = GetView(old[s][d])
          /\ \A u \in Local, e \in Dim : u # s \/ e # d => old'[u][e] = old[u][e]
      BY <2>1, <2>6 DEF TypeOK
    <3>2. old'[s][d].last = Home /\ Current(old'[s][d]) = Current(old[s][d])
      BY <1>2, <1>3, <3>1
    <3>3. QED
      BY <1>2, <1>7, <2>1, <2>4, <2>5, <2>6, <3>1, <3>2, PlaneAssumption
  <2>7. CASE ~ BlockJacobi
    <3>1. t # s
      BY <1>7, <2>7, PostSendFacts
    <3>2. UNCHANGED old /\ mem'[s][d] = GetView(mem[s][d])
          /\ \A u \in Local, e \in Dim : u # s \/ e # d => mem'[u][e] = copied[u][e]
      BY <2>1, <2>5, <2>7, <3>1
    <3>3. mem'[s][d].last = Home /\ Current(mem'[s][d]) = Current(mem[s][d])
      BY <1>2, <1>3, <3>2
    <3>4. QED
      BY <1>2, <1>7, <2>1, <2>4, <2>5, <2>7, <3>1, <3>2, <3>3, PlaneAssumption
  <2>8. QED
    BY <2>6, <2>7
<1>8. QED
  BY <1>4, <1>5, <1>6, <1>7

LEMMA PostSendInd ==
  ASSUME IndInv, PostSend
  PROVE  IndInv'
<1> USE DEF IndInv
<1>1. TypeOK'
  BY TypeStep DEF Next
<1>2. PICK s \in Local, d \in Dim : active = <<s, d>>
  BY DEF PostSend, TypeOK
<1> DEFINE t == downwind[s][d]
<1>3. /\ UNCHANGED <<build, method, iter, pc, add, swept, stream, recv, input, sent>>
      /\ active' = (IF d < 2 THEN <<s, d + 1>> ELSE << >>)
  BY <1>2 DEF PostSend
<1>4. /\ pc = (IF BlockJacobi THEN "post" ELSE "loop")
      /\ ~ BlockJacobi => s \in swept
      /\ \A u \in Local : Posting(u)' = Posting(u) /\ Queued(u)' = Queued(u) /\ Queued(u)
      /\ \A u \in Local, e \in Dim :
           HandedOn(u, e)' <=> HandedOn(u, e) \/ (u = s /\ e = d)
      /\ \A u \in Local, e \in Dim :
           Missing(u, e)' <=> Missing(u, e) /\ ~ (u = t /\ e = d)
      /\ send[s][d] = "none"
      /\ ~ BlockJacobi => recv[s][d] = "none"
  BY <1>2, PostSendFacts
<1>5. t \in Local => /\ t \notin swept /\ upwind[t][d] = s /\ recv[t][d] = "none"
                     /\ ~ BlockJacobi => send[t][d] = "none"
  BY <1>2, PostSendFacts
<1>6. \A u \in Local, e \in Dim :
        /\ mem'[u][e].last \in {Home, MPISpace}
        /\ mem'[u][e].last = mem[u][e].last
             \/ (u = t /\ e = d) \/ (~ BlockJacobi /\ t # NoSdom /\ u = s /\ e = d)
        /\ u # t \/ e # d => Current(mem'[u][e]) = Current(mem[u][e])
        /\ old'[u][e].last \in {Home, MPISpace}
        /\ u # s \/ e # d => old'[u][e].last = old[u][e].last
        /\ Current(old'[u][e]) = Current(old[u][e])
  BY <1>2, HandOnFacts
<1>7. /\ t = Remote => Source'[s][d].last = MPISpace
      /\ t \in Local => Idle /\ Current(mem'[t][d]) = Current(Source[s][d])
  BY <1>2, HandOnFacts
<1>8. /\ waits' = (IF t \in Local THEN [waits EXCEPT ![t] = @ \ {d}] ELSE waits)
      /\ send' = (IF t = Remote THEN [send EXCEPT ![s][d] = "posted"] ELSE send)
      /\ t = Remote => SynchronizedForMPI(Source[s][d])
  <2>1. HandOn(s, d, Source)
    BY <1>2, PostSendFacts
  <2>2. QED
    BY <2>1, PlaneAssumption DEF HandOn
<1> HIDE DEF t
<1>9. /\ t = NoSdom \/ t = Remote \/ t \in Local
      /\ Remote \notin Local /\ NoSdom \notin Local /\ Remote # NoSdom
  BY PlaneAssumption DEF t
<1>10. ~ BlockJacobi /\ t # NoSdom => ~ Launched(s)
  <2> SUFFICES ASSUME ~ BlockJacobi, t # NoSdom, Launched(s) PROVE FALSE
    OBVIOUS
  <2>1. mem[s][d].last = "GPU"
    BY LaunchedFacts DEF SpaceInv, SpaceOK, Home
  <2>2. Idle
    BY <1>7, <1>8, <1>9, <2>1 DEF SynchronizedForMPI, Source
  <2>3. QED
    BY <2>2, LaunchedFacts
<1>11. /\ \A u \in Local, e \in Dim : u # s \/ e # d => send'[u][e] = send[u][e]
       /\ send'[s][d] = (IF t = Remote THEN "posted" ELSE "none")
  BY <1>4, <1>8 DEF TypeOK
<1>12. \A u \in Local : waits'[u] = (IF u = t THEN waits[u] \ {d} ELSE waits[u])
  BY <1>8 DEF TypeOK
<1>13. PhaseInv'
  <2>1. \A u \in Local, e \in Dim : active' = <<u, e>> =>
          Posting(u)' /\ pc' = (IF BlockJacobi' THEN "post" ELSE "loop")
    <3>1. Posting(s)
      BY <1>2 DEF PhaseInv
    <3>2. QED
      BY <1>3, <1>4, <3>1, Stable
  <2>2. \A u \in Local, e \in Dim : recv'[u][e] # "none" => upwind[u][e] = Remote /\ Queued(u)'
    BY <1>3, <1>4 DEF PhaseInv
  <2>3. \A u \in Local, e \in Dim : send'[u][e] # "none" =>
          HandedOn(u, e)' /\ downwind[u][e] = Remote /\ pc' \in {"post", "loop"}
    <3> SUFFICES ASSUME NEW u \in Local, NEW e \in Dim, send'[u][e] # "none"
                 PROVE  HandedOn(u, e)' /\ downwind[u][e] = Remote /\ pc' \in {"post", "loop"}
      OBVIOUS
    <3>1. CASE u = s /\ e = d
      BY <1>3, <1>4, <1>11, <3>1 DEF t
    <3>2. CASE u # s \/ e # d
      BY <1>3, <1>4, <1>11, <3>2 DEF PhaseInv
    <3>3. QED
      BY <3>1, <3>2
  <2>4. QED
    BY <1>3, <2>1, <2>2, <2>3, Stable DEF PhaseInv
<1>14. StreamInv'
  BY <1>3, Stable, SameStream DEF StreamInv
<1>15. WaitsInv'
  <2>1. \A u \in Local : waits'[u] = {e \in Dim : Missing(u, e)'}
    BY <1>4, <1>12 DEF WaitsInv
  <2>2. pc' = "loop" => \A u \in swept' : waits'[u] = {}
    BY <1>3, <1>12 DEF WaitsInv, TypeOK
  <2>3. QED
    BY <2>1, <2>2 DEF WaitsInv
<1>16. SpaceInv'
  <2> SUFFICES ASSUME NEW u \in Local, NEW e \in Dim PROVE SpaceOK(u, e)'
    BY <1>3, Stable DEF SpaceInv
  <2>1. SpaceOK(u, e)
    BY DEF SpaceInv
  <2>2. recv'[u][e] # "none" /\ ~ Astray' => mem'[u][e].last = MPISpace
    BY <1>3, <1>4, <1>5, <1>6, <2>1, Stable DEF SpaceOK
  <2>3. Launched(u)' => mem'[u][e].last = Home
    BY <1>3, <1>6, <1>7, <1>9, <1>10, <2>1, SameStream, LaunchedFacts DEF SpaceOK
  <2>4. send'[u][e] = "posted" => Source'[u][e].last = MPISpace
    <3>1. CASE u = s /\ e = d
      BY <1>7, <1>11, <3>1
    <3>2. CASE (u # s \/ e # d) /\ BlockJacobi
      BY <1>3, <1>6, <1>11, <2>1, <3>2, Stable DEF SpaceOK, Source
    <3>3. CASE (u # s \/ e # d) /\ ~ BlockJacobi
      BY <1>3, <1>5, <1>6, <1>9, <1>11, <2>1, <3>3, Stable DEF SpaceOK, Source
    <3>4. QED
      BY <3>1, <3>2, <3>3
  <2>5. QED
    BY <1>3, <1>6, <2>2, <2>3, <2>4, Stable DEF SpaceOK, Source
<1>17. ContentInv'
  <2> SUFFICES ASSUME NEW u \in Local, NEW e \in Dim PROVE ContentOK(u, e)'
    BY DEF ContentInv
  <2>1. ContentOK(u, e) /\ ContentOK(s, d)
    BY DEF ContentInv
  <2>2. ~ BlockJacobi /\ send'[u][e] = "posted" => ~ Launched(u)
    <3>1. CASE u = s /\ e = d
      BY <1>9, <1>10, <1>11, <3>1
    <3>2. CASE u # s \/ e # d
      BY <1>11, <2>1, <3>2 DEF ContentOK
    <3>3. QED
      BY <3>1, <3>2
  <2>3. BlockJacobi => Current(old'[u][e]) \in {Zero, Incoming}
    BY <1>4, <1>6, <2>1 DEF ContentOK
  <2>4. CASE u = t /\ e = d
    <3>1. Current(mem'[u][e]) = Current(Source[s][d]) /\ ~ Launched(u) /\ u \notin swept
          /\ recv[u][e] = "none"
      BY <1>5, <1>7, <2>4, LaunchedFacts
    <3>2. CASE BlockJacobi
      <4>1. Current(mem'[u][e]) \in {Zero, Incoming}
        BY <1>4, <2>1, <3>1, <3>2 DEF ContentOK, Source
      <4>2. Expected(u, e) = {Zero, Incoming}
        BY <1>5, <1>9, <2>4, <3>2 DEF Expected
      <4>3. QED
        BY <1>3, <2>3, <3>1, <3>2, <4>1, <4>2, Stable, SameStream DEF ContentOK
    <3>3. CASE ~ BlockJacobi
      <4>1. ~ Launched(s)
        BY <1>9, <1>10, <2>4, <3>3
      <4>2. Current(mem'[u][e]) = Outgoing(s)
        BY <1>4, <2>1, <3>1, <3>3, <4>1 DEF ContentOK, Source
      <4>3. Expected(u, e) = {Outgoing(s)}
        BY <1>5, <1>9, <2>4, <3>3 DEF Expected
      <4>4. QED
        BY <1>3, <3>1, <3>3, <4>2, <4>3, Stable, SameStream DEF ContentOK
    <3>4. QED
      BY <3>2, <3>3
  <2>5. CASE u # t \/ e # d
    <3>1. Current(mem'[u][e]) = Current(mem[u][e])
      BY <1>6, <2>5
    <3>2. e \notin waits'[u] => e \notin waits[u]
      BY <1>12, <2>5
    <3>3. QED
      BY <1>3, <1>4, <2>1, <2>2, <2>3, <3>1, <3>2, Stable, SameStream DEF ContentOK
  <2>6. QED
    BY <2>4, <2>5
<1>18. UseInv'
  BY <1>3, SameUse
<1>19. QED
  BY <1>1, <1>13, <1>14, <1>15, <1>16, <1>17, <1>18

-----------------------------------------------------------------------------
(* The invariant and what follows from it.                                 *)

LEMMA InitInd == Init => IndInv
<1> SUFFICES ASSUME Init PROVE IndInv
  OBVIOUS
<1>1. TypeOK
  BY TypeInit
<1>2. /\ pc = "start" /\ add = {} /\ swept = {} /\ active = << >> /\ stream = << >>
      /\ \A s \in Local, d \in Dim :
           /\ recv[s][d] = "none" /\ send[s][d] = "none"
           /\ input[s][d] = Garbage /\ sent[s][d] = Garbage
      /\ mem = Planes(Fresh(IF build = "host" THEN "CPU" ELSE "GPU")) /\ old = mem
  BY DEF Init, Planes
<1>3. Idle /\ \A s \in Local : ~ Launched(s)
  BY <1>2 DEF Idle, Launched
<1>4. PhaseInv
  BY <1>2 DEF PhaseInv
<1>5. StreamInv
  BY <1>2, <1>3 DEF StreamInv
<1>6. WaitsInv
  BY <1>2 DEF WaitsInv, Queued
<1>7. SpaceInv
  <2>1. \A s \in Local, d \in Dim : mem[s][d].last = Home /\ old[s][d].last = Home
    BY <1>2 DEF Planes, Fresh, Home, OnDevice
  <2>2. QED
    BY <1>2, <1>3, <2>1 DEF SpaceInv, SpaceOK
<1>8. ContentInv
  BY <1>2, <1>3 DEF ContentInv, ContentOK, Queued
<1>9. UseInv
  BY <1>2 DEF UseInv, UseOK
<1>10. QED
  BY <1>1, <1>4, <1>5, <1>6, <1>7, <1>8, <1>9 DEF IndInv

LEMMA StepInd == IndInv /\ [Next]_vars => IndInv'
<1> SUFFICES ASSUME IndInv, [Next]_vars PROVE IndInv'
  OBVIOUS
<1>1. CASE UNCHANGED vars
  <2>1. /\ UNCHANGED <<build, method, iter, pc, add, waits, swept, active, mem, old, stream>>
        /\ UNCHANGED <<recv, send, input, sent>>
    BY <1>1 DEF vars
  <2>2. TypeOK'
    BY TypeStep DEF IndInv
  <2>3. PhaseInv'
    BY <2>1, Stable, SameHandedOn DEF IndInv, PhaseInv
  <2>4. StreamInv' /\ UseInv'
    BY <2>1, Stable, SameStream, SameUse DEF IndInv, StreamInv
  <2>5. \A s \in Local, d \in Dim : Missing(s, d)' = Missing(s, d)
    BY <2>1, SameHandedOn DEF Missing
  <2>6. WaitsInv'
    BY <2>1, <2>5, SameHandedOn DEF IndInv, WaitsInv
  <2>7. SpaceInv'
    BY <2>1, Stable, SameStream DEF IndInv, SpaceInv, SpaceOK, Source
  <2>8. ContentInv'
    BY <2>1, Stable, SameStream, SameHandedOn DEF IndInv, ContentInv, ContentOK
  <2>9. QED
    BY <2>2, <2>3, <2>4, <2>6, <2>7, <2>8 DEF IndInv
<1>2. CASE Done
  BY <1>1, <1>2 DEF Done
<1>3. ASSUME NEW s \in Local, AddSubdomain(s) \/ PostNext(s) \/ Sweep(s) PROVE IndInv'
  BY <1>3, AddSubdomainInd, PostNextInd, SweepInd
<1>4. ASSUME NEW s \in Local, NEW d \in Dim, TestReceive(s, d) \/ Arrive(s, d) \/ Depart(s, d)
      PROVE  IndInv'
  BY <1>4, TestReceiveInd, ArriveInd, DepartInd
<1>5. CASE Start \/ AddedAll \/ PostSend \/ PostedAll \/ RunKernel
  BY <1>5, StartInd, AddedAllInd, PostSendInd, PostedAllInd, RunKernelInd
<1>6. CASE Flush \/ Synchronize \/ NextIteration
  BY <1>6, FlushInd, SynchronizeInd, NextIterationInd
<1>7. QED
  BY <1>1, <1>2, <1>3, <1>4, <1>5, <1>6 DEF Next

(* For any subdomains of a rank, any neighbours, any number of sweeps and  *)
(* every build with either method, IndInv holds in every reachable state.  *)
THEOREM PlaneInvariant == Spec => []IndInv
<1>1. QED
  BY InitInd, StepInd, PTL DEF Spec

(* The sweep kernel reads from every plane what the upwind neighbour left  *)
(* there in this iteration, whichever copy it arrived in; in block Jacobi  *)
(* with messages through host memory that, or the zero it should replace.  *)
THEOREM KernelsReadWhatArrived == Spec => []ReadsWhatArrived
<1>1. IndInv => ReadsWhatArrived
  BY DEF IndInv, UseInv, UseOK, ReadsWhatArrived
<1>2. QED
  BY <1>1, PlaneInvariant, PTL

(* MPI sends what the kernel has computed, not what is in the other copy   *)
(* or what a launched kernel has still to write.                           *)
THEOREM MessagesCarryTheFlux == Spec => []SendsTheFlux
<1>1. IndInv => SendsTheFlux
  BY DEF IndInv, UseInv, UseOK, SendsTheFlux
<1>2. QED
  BY <1>1, PlaneInvariant, PTL

(* SweepSolver does not return before the device has swept everything.     *)
THEOREM AllSweptOnReturn == Spec => []SweptOnReturn
<1>1. IndInv => SweptOnReturn
  <2> SUFFICES ASSUME IndInv, pc = "returned", NEW s \in Local, NEW d \in Dim
               PROVE  input[s][d] # Garbage
    BY DEF SweptOnReturn
  <2>1. s \in swept /\ ~ Launched(s)
    BY LaunchedFacts DEF IndInv, PhaseInv, StreamInv
  <2>2. input[s][d] \in Expected(s, d)
    BY <2>1 DEF IndInv, UseInv, UseOK
  <2>3. QED
    BY <2>2, ExpectedFacts DEF IndInv
<1>2. QED
  BY <1>1, PlaneInvariant, PTL

(* A message arrives in the copy that the next kernel or copy will use, in *)
(* every build and method but block Jacobi with messages through host      *)
(* memory, which ReceivesInPlace leaves out because it fails there.        *)
THEOREM MessagesArriveInPlace == Spec => []ReceivesInPlace
<1>1. IndInv => ReceivesInPlace
  BY DEF IndInv, SpaceInv, SpaceOK, ReceivesInPlace
<1>2. QED
  BY <1>1, PlaneInvariant, PTL

=============================================================================
