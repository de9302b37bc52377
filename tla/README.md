# A TLA+ model of Kripke

Kripke is a mini-app for deterministic neutral particle transport: the unknown
is the angular flux `psi(direction, group, zone)`, and a solve is a fixed
number of iterations, each of which computes a right-hand side locally and then
*sweeps* the mesh, in every direction, from the upwind to the downwind corner.
The mesh, the directions and the groups are cut into *subdomains*, the
subdomains are dealt to MPI ranks, and the sweep is a data-flow computation
over the graph of subdomains. That computation is the core of these modules: it
is asynchronous, it shares buffers with MPI, it tells messages apart by source
and tag only, and no test of the repository exercises its interleavings. Around
it are the set-up that builds the graph and the tables, the kernels with their
execution policies, the data flow of an iteration, and the memory the planes are
in.

All paths below are relative to `src/src/Kripke/` of the repository.

## 1. Inventory

| component | state | operations | interacts with |
|---|---|---|---|
| `SweepSolver.cpp` | the ready list and the loop position | clear planes, add subdomains, loop, sweep, mark complete, destroy | a `ParallelComm`; the sweep kernel; the plane fields |
| `ParallelComm.cpp` | `queue_sdom_ids`, `queue_depends`, `recv_requests` (with subdomain and dimension), `send_requests` | `postRecvs`, `postSends`, `dequeueSubdomain`, `testRecieves`, `getReadyList`, `workRemaining`, `waitAllSends` | MPI; the plane fields; the adjacency fields |
| `ParallelComm/SweepComm.cpp` | none of its own | `addSubdomain`, `workRemaining`, `readySubdomains`, `markComplete` | `ParallelComm` |
| `ParallelComm/BlockJacobiComm.cpp` | `posted_sends`, the fields `old_i_plane`, `old_j_plane`, `old_k_plane` | the same four | `ParallelComm`, the data store |
| `SteadyStateSolver.cpp` | `iter`, `psi`, `phi`, `phi_out`, `rhs` | one iteration: LTimes, scattering, source, LPlusTimes, sweep, population | kernels, `SweepSolver`, `allReduce` |
| `Core/PartitionSpace.cpp`, `Generate/Decomp.cpp` | layouts and offsets per space; `GlobalSdomId2Rank`, `GlobalSdomId2SdomId` | set-up collectives, id and coordinate conversions | `Core/Comm.h` |
| `Generate/Quadrature.cpp` | directions, octants; `upwind`, `downwind` | quadrature set, sets of directions, adjacency | `PartitionSpace` |
| `Generate/Space.cpp`, `Energy.cpp`, `Data.cpp` | mesh, materials, mixed elements, fields | set-up | `PartitionSpace`, collectives |
| `Kernel/*.cpp`, `Arch/*.h` | none | loop nests with an execution policy per architecture | fields |
| `Core/Set`, `Field`, `VarLayout`, `DomainVar` | chunk tables, layouts | index arithmetic, allocation | `PartitionSpace` |
| `Core/DataStore`, `BaseVar` | name to variable | add, delete, get | everything |
| `Core/Comm.h` | an MPI communicator | `split`, `allReduceSum*`, `scanSumLong` | MPI; `PartitionSpace`, the sets |
| `Core/MemoryManager`, `kripke.cpp` (pool size) | the Umpire pool of the device | count the arrays to come, make the pool | the fields |
| `InputVariables`, `kripke.cpp`, `Timing` | options, timers | checks, measurement | driver |

What is hard here, and hard to test:

* **Interleaving of ranks.** Every rank runs the loop at its own pace; the only
  global synchronisation is the reduction of the particle count at the end of
  an iteration. A fast rank sends planes of iteration *n+1* while a slow one is
  still leaving iteration *n*.
* **Matching.** A message carries the id of the receiving subdomain as its tag
  in all three dimensions and in every iteration. Nothing but the source rank
  tells two planes for one subdomain apart.
* **Buffers.** In a full sweep the plane that is received into, swept in place
  and sent from is one array. MPI may read it until the send completes.
* **Counting.** `queue_depends` is decremented from two sides (messages and
  local neighbours) and both sides skip a subdomain they do not find.
* **Progress.** Ranks are upwind and downwind of each other at the same time,
  in different octants, and wait for their sends only at the very end.
* **Set-up by collectives.** Each rank numbers its subdomains from the results
  of scans and sums on nine communicators; nothing compares the results.
* **Policies.** Every kernel has 24 tables of loops, one per architecture and
  layout. A loop that is parallel in one of them and reduced over, or upwind, is
  wrong in that build only.
* **In-place zones.** The sweep kernel overwrites the planes as it goes.
* **Two copies.** On a device a plane has a host and a device copy, sweep kernels
  run asynchronously, and MPI is handed one of the copies.
* **Two descriptions.** Mixed elements are counted and later filled; device
  memory is counted by `kripke.cpp` and later allocated by the generators.

What makes each component correct:

* `ParallelComm`: dependency counts are exact; requests are finished when the
  loop is left; the ready list names queued subdomains only.
* `SweepComm` / `SweepSolver`: a subdomain is swept once per iteration, after
  its upwind neighbours, with their planes of this iteration; the solve ends.
* `BlockJacobiComm`: what is sent does not depend on the progress of the
  receives; a subdomain is swept once per iteration; the solve ends.
* `SteadyStateSolver`: iterations of different ranks do not overlap in the sweep.
* `PartitionSpace`, `Quadrature`: ids and coordinates are in bijection, every
  rank computes the same owners, `downwind` mirrors `upwind`, and a direction
  set has one originating octant.
* `Set`, `Space`: the chunks of a set tile it; the zones of a subdomain lie where
  the subdomain graph has it; the tables of mixed elements agree with each other.
* kernels: each cell is accumulated by one iteration at a time; the in-place
  sweep of a subdomain visits a zone after its upwind zones.
* `SteadyStateSolver`, per rank: the right-hand side a sweep starts from is
  `LPlus*S*L*psi + Q`, each term once; the population counts every flux once.
* planes on a device: a sweep reads what arrived, a message carries what was
  computed.
* the pool: what `kripke.cpp` counts is what the generators allocate.

`PROJECT.json` lists the hazards one by one, each at its line.

## 2. Modules

```
Dimension             Dim, Count, the id -1
  SubdomainGraph      owner, upwind, downwind and what the code relies on
    ParallelComm      work queue, requests, planes, MPI channels
      SolverLoop      the iterations of a rank, for either communicator
        SweepSolver   + SweepComm        -- implements --> Transport
          SweepProofs    its invariant and what follows, proved
        BlockJacobi   + BlockJacobiComm  -- implements --> Transport without edges
          JacobiProofs   its invariant and what follows, proved
  SweepGrid           the graph the generators build
    SmallGrids        the instances TLC runs on
      MCSweep, MCJacobi   SweepSolver, BlockJacobi on those instances
ProblemSetup          input check, octants of the directions, direction sets
  SetupProofs         one octant per set, whose signs give SweepGrid the graph
                      that SubdomainGraph assumes, without a cycle
  MCSetup             its command lines

PhaseSpace            the subdomains of a rank, spaces, chunks, work lists
  Partition           set-up by collectives  -- builds the graph of --> SweepGrid
    PartitionProofs   counts, ids, tables and the graph; the pool; proved
  Mixture             painting, counting, filling, collapsing of materials
    MixtureProofs     tables, sums, symmetry and main's count, proved
  FieldFlow           the fields of one rank through an iteration
    FlowProofs        layouts and work lists of PhaseSpace; each term once, proved
  DevicePool          device memory: the count and the fields
    PartitionProofs   proves it too, with the sums over chunks of Partition
LoopNest              what a RAJA policy orders
  ExecPolicies        the tables of Arch/*.h
    Kernels           the kernels, iteration by iteration and zone by zone
      KernelProofs    its invariant and what follows, for all tables and extents
Dimension
  PlaneMemory         host and device copies of the planes
    PlaneProofs       its invariant and what follows, proved
MCPartition, MCMixture, MCFieldFlow, MCDevicePool, MCKernels, MCPlaneMemory
```

How the parts fit together: `Partition` builds the graph in the closed form of
`SweepGrid` (`BuildsTheSweepGrid`), which satisfies the assumption about the graph
(`GridIsGraph`) that `SweepSolver` and `BlockJacobi` are proved under.
`Kernels` justifies that `FieldFlow` adds a whole kernel's terms at once, and that
the step `SweepSubdomain` of `SolverLoop` replaces incoming planes by outgoing ones:
every zone along a cell of a plane has passed it on, in the order of the flight
(`NothingLost`, `SameSumEverywhere`). The order of the sweep on all ranks, which `FieldFlow` takes as one step, is `Transport`.
`Mixture` gives the tables `Kernels` and `FieldFlow` read, with each material at
most once in a zone (`RangesMatchZones`). `PlaneMemory` refines the planes of
`SolverLoop` to two copies.

`ProblemSetup` comes before the sweep: it says which direction sets, with which
signs, a problem has, and `SweepGrid` builds the graph from such signs (its
`SweepDir`). The two are separate modules because the sweep does not depend on
how the signs came about.

### State and actions against the code

| TLA+ | code |
|---|---|
| `queue`, `depends` | `queue_sdom_ids`, `queue_depends` of all ranks (a subdomain has one owner, so one set suffices) |
| `recv[s][d]`, `send[s][d]` | the entry of `recv_requests` / `send_requests` for plane `d` of subdomain `s`: `none`, `posted` (active), `complete` (finished, not yet tested or waited for) |
| `plane[s][d]` | `i_plane`, `j_plane`, `k_plane`, abstracted to the origin of their contents: `Flux(s, d, n)` is what `s` sent through `d` in iteration `n`, `Vacuum` is 0.0 |
| `chan[r][t]` | MPI: messages of rank `r` with tag `t` not yet matched, in order |
| `old[s][d]`, `unsent[r]` | `old_*_plane`; the position in the loop of the first `workRemaining` |
| `pc`, `iter`, `ready`, `active` | position, loop counter, what is left of `sdom_ready`, the subdomain between its sweep and its `markComplete` |
| `StartSweep`, `StartJacobi` | iteration up to the sweep; `SweepSolver` lines 27-39 |
| `AddSubdomain` | `comm->addSubdomain`: `PostRecvs`, and for block Jacobi `kCopy` of all planes first |
| `PostSend` | one pass of the loop in `BlockJacobiComm::workRemaining` |
| `Loop`, `Flush` | `workRemaining`: `true`, or `waitAllSends` and `false` |
| `TestRecieves`, `ReadySubdomains` | one successful `MPI_Testany`; the unsuccessful one, and `getReadyList` |
| `SweepSubdomain` | boundary conditions and `sweepSubdomain`: planes in become planes out |
| `MarkComplete` | `dequeueSubdomain` and (full sweep) `postSends` |
| `FinishIteration` | the `allReduce` in `population`, next iteration |
| `CheckValues`, `CreateSubdomains`, `CreateQuadratureSet` | `InputVariables::checkValues` and the exit behind it; the vectors over subdomains and sets that `generateDecomp`, `generateEnergy` and `generateQuadrature` make; `createQuadratureSet`. Failed assertions are phase `aborted`; a division by zero, and a vector of negative length (`std::length_error`, which nothing catches), are `crashed` |
| `direction[i]` | `id`, `jd`, `kd` of direction `i`: the signs of its cosines. A cosine that is zero but for rounding has either sign |
| `BufferSend`, `Deliver` | MPI copies a send buffer (eager); MPI matches and transfers |
| `problem`, `pc[r]`, `global`, `lower`, `owner`, `localId` (`Partition`) | `input_vars`; the collective a rank is in; `m_global_num_sdom` and set sizes; `m_global_sdom_lower` and the first chunk's `m_chunk_to_lower`; the two tables |
| `AllReduce`, `Scan`, `ReduceOwner`, `ReduceLocalId`, `Abort` | a rank returning from `MPI_Allreduce` (all have called) or `MPI_Scan` (those before it have), with the local code behind it; a failed `KRIPKE_ASSERT` |
| `call`, `waiting`, `loaded`, `cell` (`Kernels`) | one call of `RAJA::kernel`; iterations not begun; iterations between the load and the store of the lambda, with what they read; the cells, moments and right-hand sides as well as planes, as the iterations that went into their value |
| `Paint`, `CountMixed`, `FillZone`, `FillDone`, `CollapseSigt` (`Mixture`) | the loops of `generateSpace` in order; the collapse by mixed element or by zone |
| `psi`, `phi`, `phi_out`, `rhs`, `part` (`FieldFlow`) | the fields by chunk, as bags of terms with the factors they carry; the reduced population |
| `StartX`, `X` (`FieldFlow`) | the `kConst` and the call in `SteadyStateSolver`; one dispatch of the kernel on one entry of the work list |
| `mem`, `old` (`PlaneMemory`) | a `chai::ManagedArray` per plane: contents of the `CPU` and the `GPU` copy, and the space it was last used in |
| `stream`, `RunKernel`, `Idle` | sweep kernels launched and not yet run; the device runs one; nothing is left to run |
| `Arrive`, `Depart` | MPI writes a receive buffer, reads a send buffer |
| `build`, `method` (`PlaneMemory`), `direct` (`DevicePool`) | the compile-time options that decide where planes are and what MPI is handed; `parallel_method` |
| `input`, `names`, `used`, `CreateField`, `EndSweep` (`DevicePool`) | `input_vars`; keys of `m_vars`; bytes taken from the pool; `createField`; `~BlockJacobiComm` |

Tests of requests, waits and collectives are steps of their own. The receives of one
`postRecvs`, at most three, are one step, and so are the sends and local copies of one
`postSends`. Nothing is lost by that: a posting never blocks and reads nothing another
rank writes; those of one step have different requests, buffers and envelopes (two
planes of a subdomain never come from the same foreign rank); and a send that has not
been buffered denotes the live contents of its buffer. So whatever MPI or another rank
does between two of them has the same effect behind the last one, and an execution of
the code can be rearranged, posting by posting, into one of the model that ends in the
same state. Between two steps a rank touches only its own memory, except for the planes MPI
holds, and that exception is what `BuffersBelongToMPI` is about. A message is in `chan` from its send to its
match, and while it is not buffered it denotes the *live* contents of its
buffer: a buffer overwritten too early shows up as a wrong plane at the
receiver. MPI may buffer any message or none.

Iterations are numbered in the flux values so that a stale plane differs from
a current one. In `SolverLoop` the right-hand side kernels are part of
`StartSweep`: they do not communicate and write none of its state.

### External parts

Assumed of libraries, from how the code uses them, and marked external in
`PROJECT.json`:

* RAJA: `seq_exec` loops run in order, parallel loops in any order, hyperplanes
  one after the other. `forall` with `cuda_exec` or `hip_exec` returns when the
  kernel has run; a policy with `CudaKernelAsync` or `HipKernelAsync` returns at
  once, and kernels run in the order of their launch. `RAJA::Layout` is
  row-major and leaves out dimensions of extent zero.
* CHAI: `data(space)` of an array moves it from the space it was last used in and
  records the new one; with `false` it returns the pointer only. A
  `ManagedArray` keeps its memory until `free()`.
* Umpire: a `QuickPool` hands out multiples of 16 bytes.
* MPI: messages of one envelope are matched in order; a scan waits for lower
  ranks only.

### Mutants

Definitions named `X_Something` directly before a definition `X` are broken
versions of `X` (a dropped decrement, a missing wait, a list read with an
off-by-one). `PROJECT.json` pairs each property of each run with one of them and TLC
finds the property violated when `X` is replaced by it.

## 3. Runs

| run | instance | states | shows |
|---|---|---|---|
| `sweep_zonesets` | 2 ranks in x, 2 zone sets in y, direction sets (+,+,+) and (-,-,-): 8 subdomains; 2 iterations | 12 861 | `IndInv` and what follows from it, `SweepsInOrder`, `Termination` |
| `block_jacobi` | 2 ranks, 2 zone sets, one direction set; 2 iterations | 2 766 | `IndInv` and what follows from it, what copies and messages carry, once per iteration, termination |
| `block_jacobi_old_flux` | as `block_jacobi` | violated | `UsesOldFlux` (section 5) |
| `setup` | 118 command lines: fake sets, Gauss-Legendre sets, one bad field each, negative numbers of sets | 335 | octants, direction sets and group sets of the problems that are set up |
| `setup_dirsets` | the fake sets | violated | `DirsetsAreMultipleOf8` (section 5) |
| `setup_octants` | Gauss-Legendre sets with 8 or 16 direction sets | violated | `SingleOriginatingOctant` (section 5) |
| `partition` | 2 x 2 ranks in x and y; two group sets, two direction sets, two zone sets in y: 8 subdomains a rank; zones that divide evenly and zones that do not | 8 055 | owner tables, the graph, the sets, termination or abort of all ranks |
| `kernels` | every call of the six kernels under 24 policies each: the accumulating ones with loops of up to 3 turns and up to 4 iterations, `Source` with up to 4 mixed elements, the sweep on 5 shapes of up to 9 zones from 8 corners | 91 768 | no lost update, every term once, one order of summation, upwind order in place |
| `mixture` | 6 meshes over 4 zone sets, 2 group sets and 2 direction sets, 1 to 5 samples, host and device loop | 408 | tables agree, mirror symmetry, both loops give one sum, main's count |
| `field_flow` | 16 subdomains on a rank, two iterations | 251 | right-hand side and population, term by term |
| `plane_memory` | a rank with 4 subdomains in 2 opposite direction sets, two iterations; both methods in all 4 builds (`AllBuilds`) | 259 006 | contents read, sent, received in place, and computed on return |
| `device_pool` | both methods, planes in the pool or outside it, 12 zone-group-direction sets, 4 problems, three sweeps | 608 | the pool is exactly large enough but for the old planes left behind; names of the data store |

Why the bounds are enough to be interesting. Two iterations are the least in
which a rank can be ahead of another, a plane can be stale, and a tag is used
again. Two opposite direction sets make every rank wait for the other, which is
where a deadlock would be. Zone sets give a rank local edges, which mix both
ways of releasing a dependency in one subdomain. The third dimension adds nothing
new in kind: the code treats the dimensions alike, and the model keeps all three,
with boundary in the third. On these grids a subdomain has one remote neighbour at
a time; two messages under one tag from two ranks are a matter of the proofs of
section 4, which remove the bounds for the full sweep. The invariants of
`ProblemSetup`, `PlaneMemory`, `Kernels`, `FieldFlow`, `Mixture`, `Partition` and
`DevicePool` are stated for their proofs and are not part of a run.

The other bounds. `kernels`: the extents of the loops are a constant
(`SmallExtents`). With up to three turns of a loop and four iterations in all,
each pair of arguments differs in some call, and whether two iterations may
overlap is decided by the arguments in which they differ; three terms of one cell are the
least that can be added in more than two orders. `Source` runs over tables of two to
four mixed elements (`TwoZones`) with zones of one, two and three materials, among them
zones of which one element has a source and the others have none. The sweep has hyperplanes of three
zones, every plane swept across, two directions or groups sharing a schedule.
`partition`: a mix-up of two of the nine spaces shows where one has more ranks or
sets than the other; ranks in x and y, group, direction and zone sets and uneven
chunks of mixed elements tell them apart, except for z, which has one of each.
`mixture`: odd and even numbers of zones, a zone cut by one and by two material
borders. `field_flow`: two group sets, two direction sets and four zone sets are
the least in which every chunk is shared and every mix-up of two spaces shows.
`plane_memory`: a subdomain that only sends, one that only receives, local
neighbours and boundary; the second iteration finds planes where the first left
them. `device_pool`: arrays whose bytes the pool rounds up and arrays it does
not, uneven chunks of mixed elements.

**Fairness.** Every rank keeps taking steps (`WF(RankStep(r))`): a rank is a
sequential process, and the loop it spins in is not a way of stopping. MPI
transfers a message whose send and receive are both posted
(`WF(\E d : Deliver(r, t, d))` per channel): the progress rule of MPI for
standard-mode sends. There is *no* fairness on `BufferSend`: `Termination`
holds although MPI may never buffer. `Deliver` is fair per channel, not per
dimension, because messages of one channel are matched in order. In `Partition`
some rank that can return from a collective does (`WF_pc(Next)`), which is all
`AllSetUp` needs since the set-up is finite. The other modules state no liveness.

**Deadlock** is checked in every run; `AllDone` (`Over` in `ProblemSetup`,
`Done` in the others) is the final stutter.

### Properties

* `IndInv` the inductive invariant (section 4).
* `ReadyHasInputs` what a ready subdomain reads is its upwind neighbours' flux
  of this iteration, and nothing is still being received into it.
* `MatchedAsMeant` whenever MPI may match a receive, the first message of that
  source and tag is the intended one, with its intended contents.
* `ReadyListValid` the snapshot stays valid while it is walked;
  `findSubdomain` never aborts; no count is negative.
* `OneMessagePerEnvelope` no two messages with one source and tag.
* `NothingPendingAfterSweep` the promise in `ParallelComm.h`: when
  `workRemaining` returns false all work is done and all sends completed.
* `BuffersBelongToMPI` no step overwrites a buffer MPI may still read or write.
* `SweepsInOrder`, `OncePerIteration` refinement of `Transport` (without edges
  for block Jacobi), with `swept` read off the program's own counters.
* `CopiesAreSettled`, `ReadyIsSettled` block Jacobi: what is copied, sent and
  swept with does not depend on how far MPI is.
* `Termination` the solve ends on every rank.
* `OneOctantIfAligned`, `OctantsBalanced` with 8k direction sets and 4k
  azimuthal angles a direction set has one octant and no octant is missing. The
  command lines include numbers of directions, sets and angles that are not
  multiples of 8, 8 and 4, so both sides of the condition occur.
* `EnoughSets` a problem that is set up has at least as many direction sets as
  octants and a group set, and the sets take up all directions and groups evenly, whatever
  ints the command line had: of the negative numbers `checkValues` accepts some.
* `TablesExact`, `BuildsSweepGrid` behind the set-up every rank knows every
  subdomain's owner and local id, and its neighbours are those of `SweepGrid`.
* `SetsTile` every element of a set is in exactly one chunk of its communicator.
* `ZonesFollowGrid` a subdomain's zones lie where its coordinate says.
* `AllSetUp` all ranks get through all collectives, or the run is aborted on all.
* `OneWriterPerCell`, `NothingLost`, `SameSumEverywhere` no data race between terms
  of a sum or zones of a hyperplane; every iteration's term once; terms in the
  order of the reduced argument under every policy, so that the moments are the
  same to the last bit, and planes that end up at the downwind side. Population, a
  reduction, makes no such promise.
* `ReadsUpwind` a zone reads what its upwind neighbours left in this sweep.
* `RangesMatchZones`, `SigtOfSamples`, `MirrorImage` the mixture tables agree
  zone by zone, fill what was allocated, collapse to what was
  sampled, and the painted mesh is symmetric, as `material_fcn` says.
* `PoolCountsMixed` the count of `kripke.cpp` is that of the generator.
* `SweepsFullSource` the sweep starts from each term of `LPlus*S*L*psi + Q` once.
* `CountsAllFlux` the population has every subdomain's new flux once.
* `ReadsWhatArrived` a sweep reads what its neighbours handed over in this
  iteration, in whichever copy; in block Jacobi with messages through host memory a
  message or the zero it should have replaced (section 5). `ReceivesInPlace` a completed
  receive is in the copy the next use takes, in every other build and method. `SendsTheFlux` MPI reads the flux of this iteration.
  `SweptOnReturn` no sweep is still to run when `SweepSolver` returns.
* `FitsPool`, `NothingToSpare` the pool is as large as what is allocated, byte for
  byte in the first sweep; only old planes of block Jacobi come on top later. `NeverThrows` no variable is added or deleted twice.

## 4. What is proved

Everything in this section holds for every value of the constants, under the
assumptions named with it.

| modules | about | theorems |
|---|---|---|
| `SweepProofs` | `SweepSolver` | type correctness, `ReadyListValid`, `ReadyHasInputs`, `MatchedAsMeant`, `OneMessagePerEnvelope`, `NothingPendingAfterSweep`, the action property `BuffersBelongToMPI`, and the refinement of `Transport` (`SweepsAreInOrder`) |
| `JacobiProofs` | `BlockJacobi` | `CopiesAreSettled`, `ReadyIsSettled`, `ReadyListValid`, `OneMessagePerEnvelope`, `NothingPendingAfterSweep`, `BuffersBelongToMPI`, and the refinement of `Transport` without edges (`OncePerIteration`) |
| `SetupProofs` | `SweepGrid`, `ProblemSetup` | the graph that is built satisfies `GraphAssumption` (`GridIsGraph`); it has no cycle (`UpwindDescends`); `EnoughSets`, `OneOctantIfAligned`, `OctantsBalanced`; the signs of a ready, aligned problem are what the graph is built from (`SignsMakeAGrid`) |
| `KernelProofs` | `Kernels` | `OneWriterPerCell`, `NothingLost`, `SameSumEverywhere`, `ReadsUpwind` |
| `FlowProofs` | `PhaseSpace`, `FieldFlow` | the layouts of ids and chunks and the work lists; `SweepsFullSource`, `CountsAllFlux` |
| `MixtureProofs` | `Mixture` | `RangesMatchZones`, `SigtOfSamples`, `MirrorImage`, `PoolCountsMixed`; the tables suit the kernels (`TablesSuitKernels`) |
| `PartitionProofs` | `Partition` | `TablesExact`, `BuildsSweepGrid`, `SetsTile`, `ZonesFollowGrid` |
| `PartitionProofs` | `DevicePool` | `FitsPool`, `NothingToSpare`, `NeverThrows` |
| `PlaneProofs` | `PlaneMemory` | `ReadsWhatArrived`, `SendsTheFlux`, `SweptOnReturn`, `ReceivesInPlace` |

**Assumptions of the sweep.** `GraphAssumption` (module `SubdomainGraph`): every
subdomain has an owner and every rank owns one; `downwind` mirrors `upwind`; no
subdomain is its own neighbour; and two planes of a subdomain never come from
the same foreign rank. The last one is not written anywhere in the code, but
everything rests on it: it makes (source, tag) unique. `GridIsGraph` proves all
of it of `SweepGrid`, for all numbers of ranks, of zone sets in x, y and z, of
group sets and of direction sets with signs of 1 and -1, and TLC evaluates it on
the grids of the runs. The proof is about the numbering: an id and a coordinate
determine each other (division by the products of the extents), a move along one
dimension and the move back cancel, and a foreign neighbour's rank is displaced
in the dimension moved along and in no other. `NumIterAssumption`: `niter >= 1`,
which `InputVariables::checkValues` enforces. Nothing is assumed about
acyclicity: the graph may have cycles as far as safety is concerned. That it has
none (`UpwindDescends`: the distance to the corner of origin falls with each step
upwind) is what `Termination` rests on.

**The invariant of the sweep.** None of the properties is inductive. That a
message is the intended one depends on how many messages were sent and received
on its channel, which depends on the iterations of two ranks, which the reduction
keeps within one of each other. `IndInv` says exactly that:

* `PhaseInv` queue, requests and ready list are empty outside the part of the
  loop they belong to;
* `BarrierInv` a rank is at most one iteration ahead, and then the other one is
  in the reduction;
* `DependsInv` `queue_depends` equals the number of planes really missing, and
  local completion respects the upwind order;
* `PlaneInv` the contents of a plane as a function of the phase of its owner;
* `ChannelInv` for each remote edge, planes sent minus planes received is zero
  or one, and is exactly the content of the channel: empty, or one message with
  the plane of the receiver's iteration, either buffered or with its send still
  active, in which case the live plane is the right one;
* `ReadyListValid` and `TypeOK`.

`SweepProofs` has a lemma per action and per part of the invariant, then
`InitInd`, `StepInd` and `THEOREM SweepInvariant == Spec => []IndInv`.
The properties follow from it, most of them without another induction.
The key to `BuffersBelongToMPI` is that a plane is overwritten only by its
owner before the sweep, when the owner has no active send (`PhaseInv`). The
refinement maps `swept[s]` to the owner's iteration plus one if `s` was swept
in it; the step that sweeps `s` needs that all other counts are at least as
large (`BarrierInv`) and that the upwind counts are one larger (`ChannelInv`
for messages, `DependsInv` for local neighbours).

**Block Jacobi.** The same assumptions, and an invariant with the same parts on
the state both communicators share, except where the protocols differ. All planes are sent, from the old planes, before the
first receive is tested, so that the channel is counted from `unsent` and not from
the queue. The contents are simpler: `CopiesAreSettled` and `PlaneInv` say that
old planes, messages and planes before their sweep hold the zeros the sweep
started from, which is why no copy races with a receive.

**Planes in two copies.** `PlaneAssumption` is that a rank's neighbours mirror each
other. The theorems are about all builds and both methods. Block Jacobi with messages
through host memory (`Astray`) is an exception inside the statements, since messages do
get lost there (section 5): `ReceivesInPlace` says nothing of it, and `ReadsWhatArrived`
says that a sweep reads from a plane of another rank the message or the zero of before,
never anything else. `IndInv` of `PlaneMemory` says which space each plane was last used in (`SpaceInv`),
what the current copy holds (`ContentInv`), which planes a queued subdomain waits
for (`WaitsInv`), that kernels launched are of different subdomains (`StreamInv`)
and what each use has read (`UseInv`).

**Directions.** `InputAssumption` is the type of `InputVariables` and that the
number of directions is the product of polar and azimuthal angles, which the
command line parser computes. The invariant says where the directions of a ready
problem come from (`Built`), and that no negative number of sets has got past the
partition (`Partitioned`): numbers of sets are any ints, C++'s remainder of -8 by 8 is 0,
and `--dset -8` is a valid input as far as `checkValues` is concerned. The work is a lemma on the two quadrature sets
(`DirectionOctants`): direction `i` has the flags of octant `i \div PerOctant`. For
the fake set this is arithmetic. For the Gauss-Legendre set it is the
correctness of a sort that keeps the directions of each octant together, with the
number of directions before an octant counted as rectangles of polar and
azimuthal angles. Both properties are arithmetic from there. `SignsMakeAGrid` closes
the gap to `GridIsGraph`: with aligned sets the flags of every direction set are 1 or
-1 in each dimension, which is all the graph requires of them.

**Fields through an iteration.** `LocalAssumption` and `FlowAssumption` are that a
rank has at least one set of each kind, and the types of the other constants. The
first half of `FlowProofs` is about `PhaseSpace`: a row-major layout over the five
dimensions, those of extent zero left out, is a bijection of ids and coordinates
(`LinearOfIndices`, `IndicesOfLinear`), so that subdomains of a rank are told apart by their five
coordinates (`CoordFacts`), two subdomains share a chunk of a field just when they
agree in the coordinates that field depends on (`SameChunk`), and a work list has
each subdomain once (`WorkListFacts`). The second half is `FlowInv`: before each
dispatch the chunks hold exactly the terms of the entries already dispatched, no
more and no fewer, on top of what the kernel started from. The sums are kept as bags
of terms, so no induction over data is needed: one dispatch adds one term to one
bag.

**Materials.** `MixtureAssumption` is that a mesh has at least one zone and one sample
in each dimension, `LocalAssumption` that a rank has at least one zone set. `MixtureInv`
says which zones the loops have done (`Filled`) and that the tables hold exactly the pairs
of zone and material with a positive fraction in those zones: as many elements as there
are such pairs, each zone's elements in the range it was given, no material twice
(`Tables`). The count made before is the number of all pairs, so the tables are never
outgrown and are full in the end. `TablesSuitKernels` is the part the kernels rely on,
whole tables and not single ranges. `MirrorImage` is a bijection between the samples of
a zone and those of the opposite one that turns every coordinate around, which no
region of `material_fcn` notices. `PoolCountsMixed` has three parts: the two material
functions agree, a chunk of the generator lies where main takes it to be
(`ChunkIsPlace`), and the pairs of zone and material correspond to main's pairs of
indices and material.

`SigtOfSamples` is about two loops that add up the same elements in different orders
of nesting: over all elements of a chunk on the host, over the zones and their ranges
on a device. `Added` is the host's loop turn by turn, and an induction over the
elements shows what it has added of a zone after each of them: nothing before the
zone's range, a prefix of it within, the range after it (`LoopsAgree`). So both loops
add a zone's range, and `SampledInv` says that a range holds what was sampled in its
zone, in the order of the materials.

**Decomposition.** `PartitionAssumption` is the type of the layouts, of the mixed
elements per chunk and of the signs, and that there is one rank along energy and along
direction, which `generateDecomp` fixes. Ranks are in different collectives at the same time, and the ids
a rank computes rest on what it was given in earlier ones. `PartitionInv` says that
whatever a rank has returned from is settled: each count is the sum over its
communicator, each offset the sum over the ranks before it (`Returned`), and that no
rank has a summed table before every rank has come to the first of the two sums, with all
the counts and offsets its ids are made of. Counts of spaces are then products: a
communicator of a space has as many ranks as there are along its dimensions, each with
the same number of subdomains, and a rank's offset along one dimension is its own
coordinate times the local extent (`CountsOfSpaces`, `PlacesReturned`). Ids are the numbers of the places in the global box, in row-major
order, so they differ (`IdsDiffer`) and fill the table (`IdsCover`), and every entry of
the reduced tables is a sum with a single term. `BuildsTheSweepGrid` compares the same
numbering with the one `SweepGrid` uses, where energy and direction are one
number (`NumberOfPlace`) and a rank is numbered in three dimensions (`GridRanks`). `SetsAreTiled` is an
induction over the chunks of a rank and one over the ranks of a communicator
(`Tiling`): sums of non-negative sizes tile the sum. It needs no regularity, and holds for
the uneven chunks of mixed elements. `ZonesAreWhereTheGridSays` is the regular case, which
an assertion of the code protects: a division that is not exact aborts.

**Device pool.** The sizes of the input have the types of `PoolAssumption`. `PoolInv`
lists the moments of a run (`Generating`, `Between`, `AddingPlanes`,
`Sweeping`), with the fields created so far, by name and by the sum of their bytes
(`UsedBy`), and what is left behind by each earlier sweep. That names are not added
twice is that the 25 names of the generators and the three of block Jacobi are
different, and that the old planes are deleted before they are created again.
`CountIsExact` is the comparison of the two programs: the bytes of each of the 25 fields
(`FieldBytes`), which are sums over chunks of sizes rounded up each by itself, add up to
main's count, in which the chunks of a space are multiplied out (`SpaceSizes`) and fields
of one size are counted together.

**Sums.** These two rest on lemmas about the sum of a function over a finite set, which
the community modules define by recursion over subsets: that a sum is well defined
(`SolutionExists`, `SolutionUnique`: any two functions that satisfy the recursion agree),
and from it that it can be taken apart at any element (`SumRemove`), over disjoint parts
(`SumUnion`), of constants (`SumConstant`). The inductions go by the size of the set:
the least counterexample in the well-founded order of the natural numbers
(`Induction`, `SetInduction`).

**Kernels.** `KernelAssumption` is that a zone has a material at most once in a
mixture table, which `TablesSuitKernels` proves of the tables `Mixture` builds, and that
each argument of a kernel has a natural number as its extent. Nothing bounds the extents
or the tables. The 144 tables of `ExecPolicies` are proved one by one to loop
over all arguments of their kernel and to order those it sums over or sweeps along
(`PoliciesSuit`): such an argument is in a single place, in a `seq_exec` loop or in a
hyperplane. Two iterations that use one cell differ in one such argument and in no
other (`SharedCell`), so that the policy puts one before the other (`Comparable`).
The invariant says that what has begun is not behind anything that has not ended
(`OrderInv`), that a cell has the terms of the iterations that are over, each once
and in the order of the policy (`CellInv`), and that what an iteration in flight has
read is still there (`LoadedInv`), which is preserved because those in flight share
no cell. `ReadsUpwind` adds that the upwind zone is over, because the policy puts it
in front, and that no zone further on can have passed the cell on since.

**Only model-checked.** Liveness, which is out of reach of the prover: `Termination` of
the full sweep and of block Jacobi, `AllSetUp` of the decomposition. (`UpwindDescends` is
the part of the argument for `Termination` that is proved.) And the properties the code
violates (section 5), of which TLC shows an instance.

## 5. Findings

**Block Jacobi does not use the old flux.** `UsesOldFlux` states block Jacobi as
`BlockJacobiComm.cpp` describes it ("Copy old flux data to send buffers", "we
communicate fluxes before local sweeps"): a subdomain sweeps with the flux its upwind neighbours had at the end of the
previous iteration. TLC violates it in the second iteration: `SweepSolver.cpp`
overwrites all planes with 0.0 (lines 28-30) before it creates the
communicator, so what is copied, sent and received is zero. The subdomains are
never coupled through their boundaries. `CopiesAreSettled` and
`ReadyIsSettled` pin this behaviour down; as a side effect it makes the copying
of planes with posted receives harmless.

**The number of direction sets is not checked.** `InputVariables.cpp:85` joins
`num_dirsets % 8` and `num_dirsets < 8` with `&&`, although the message below
asks for a multiple of 8 (`DirsetsAreMultipleOf8`). With `--quad 12 --dset 12`
four directions keep flags of zero; in terms of section 4 their subdomains
violate the assumption that no subdomain is its own neighbour, and `GridIsGraph`
does not apply, whose signs are 1 or -1.

**A direction set can have two octants.** `createQuadratureSet` guarantees "a
single originating octant" in its comment but accepts any even number of
azimuthal angles (`SingleOriginatingOctant`). `--quad 4:6 --dset 8` gives
octants of 2 or 4 directions and direction sets of 3.

Three observations that contradict no comment of the code, and have no run of their own:

* *Block Jacobi with device planes and messages through host memory.* A receive is
  posted into the host copy of a plane (`ParallelComm.cpp:168`). `addSubdomain` of
  the next subdomain then copies all planes of the rank on the device
  (`BlockJacobiComm.cpp:51-59`), which makes the device copies current again; a
  message that arrives is in a copy no kernel reads, and `ReceivesInPlace` fails.
  This rests on CHAI moving and touching the array in `data(space)`, takes two
  subdomains on a rank and a neighbour on another one, and is invisible while the
  messages of block Jacobi are all zero, which is the first finding: a repair of
  that one would uncover it. The combination is in `AllBuilds` and in the theorems, with the
  loss as a possible outcome (`Astray`): a run in which `ReceivesInPlace` is asked of it
  too fails. The full sweep copies nothing while it adds subdomains, and loses nothing in
  any build.
* *Negative numbers of sets.* `checkValues` compares remainders, so `--dset -8` and
  `--gset -2` pass when they divide the directions and the groups. The program ends in an
  uncaught `std::length_error` when the first vector over the subdomains is made, or, if
  both are negative and their product is positive again, the first over the group sets.
  `EnoughSets` says that none of these becomes a problem.
* *Old planes are never given back.* With CHAI the destructor of a field
  (`Field.h:133`) frees nothing, and every sweep of block Jacobi creates the old
  planes anew, while `kripke.cpp` counts them once. `FitsPool` says exactly how much
  is left behind: one set of old planes per sweep, and nothing else.

## 6. What is not modelled, and the plan

Not modelled, and why:

* Arithmetic on doubles. Fluxes, moments and cross sections are replaced by their
  origin. So the diamond difference, quadrature points and spherical harmonics,
  cross section values, the assertion that fractions add up to exactly 1.0
  (`Space.cpp:312`) and the rounding of coordinates are left out; `MirrorImage`
  and `PoolCountsMixed` hold in exact arithmetic.
* In the lambda of the sweep kernel a plane cell is read twice (for the flux and
  for the update); `Kernels` has one read, before the store.
* GPU thread loops that do not fit one block: `Hyperplane` on a GPU is taken to
  be the sequence its `SyncThreads` makes of it when they do.
* The order of summation in `population`, which no policy fixes.
* The permutation of indices within a chunk by a data layout (`VarLayout`): a
  bijection from RAJA that no property depends on.
* More than one rank along energy or direction: `generateDecomp` never makes one.
* `Timing`, printing, option parsing; the limit of MPI tags.
* The moment at which an abort of one rank ends the others.

Not proved, beyond what section 4 lists:

* That the modules fit together is a theorem where the assumption of one is the result of
  another (`GridIsGraph`, `SignsMakeAGrid`, `TablesSuitKernels`, `BuildsTheSweepGrid`), and
  an argument in prose elsewhere: that `SweepSubdomain` may take a whole sweep of zones as
  one step, and `FieldFlow` a kernel, is read off `NothingLost` and
  `SameSumEverywhere`.
* `ReceivesInPlace` of block Jacobi with device planes and messages through host memory,
  which is false (section 5); the property excludes that combination by name.
