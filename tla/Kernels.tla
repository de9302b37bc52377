------------------------------ MODULE Kernels -------------------------------
(***************************************************************************)
(* One call of a kernel on one subdomain, under any execution policy of    *)
(* Arch/*.h: LTimes, LPlusTimes, Scattering, Source and Population, which  *)
(* accumulate, and the sweep of a subdomain zone by zone.                  *)
(*                                                                         *)
(* An iteration of an accumulating lambda does  cell += term  on an        *)
(* ordinary double: it loads the cell, and later stores the sum.  The      *)
(* sweep visits, for a direction and a group, the zones (k, j, i); it      *)
(* reads the plane cells psi_lf(d,g,j,k), psi_fr(d,g,i,k), psi_bo(d,g,i,j) *)
(* and overwrites them in place with what flows into the next zone.        *)
(* Iterations that the policy does not order may overlap.  A cell is       *)
(* modelled by the iterations that went into its value, in order.          *)
(*                                                                         *)
(* dispatch (ArchLayout.h) makes each call with one architecture and one   *)
(* layout; these, the kernel and the extents of its loops are chosen in    *)
(* Init.  All directions of the subdomain have the flags of the first (see *)
(* OneOctantIfAligned in ProblemSetup).                                    *)
(***************************************************************************)
EXTENDS ExecPolicies

CONSTANTS
  Extents,     \* of each kernel, the extents its arguments may have
  MixTables    \* mixed element tables: sequences of [zone, material] in
               \* which a zone has a material at most once (see Mixture)

(* The arguments of each kernel.                                           *)
NumArgs == [
  LTimes |-> 4, LPlusTimes |-> 4, Scattering |-> 4, Source |-> 2, Population |-> 3,
  SweepSubdomains |-> 5]

ASSUME KernelAssumption ==
  /\ \A k \in DOMAIN NumArgs : Extents[k] \subseteq [0 .. NumArgs[k] - 1 -> Nat]
  /\ MixTables \subseteq Seq([zone : Nat, material : Nat])
  /\ \A t \in MixTables : \A i, j \in DOMAIN t :
       t[i].zone = t[j].zone /\ t[i].material = t[j].material => i = j

VARIABLES
  call,      \* kernel, arch, layout, extents of the loops, mixed elements,
             \* and the flags (id, jd, kd) by argument
  waiting,   \* iterations that have not begun
  loaded,    \* what each iteration in flight has read
  cell       \* phi, rhs, phi_out, the reducer, or the planes

vars == <<call, waiting, loaded, cell>>

(* The iterations the caller asks for.                                     *)
Asked == IterationSpace(call.extent)

Nest == ExecPolicy[call.kernel][call.arch][call.layout]

(* Mutant: every mixed element has a source.                               *)
Adds_Always(a) == TRUE

(* Only mixed elements of material 0 have a source.                        *)
Adds(a) == call.kernel = "Source" => call.mixed[a[1] + 1].material = 0

(* The cell an iteration accumulates into: phi(nm,g,z), rhs(d,g,z),        *)
(* phi_out(nm,g,z), phi_out(0,g,z), and the reducer part_red.              *)
LTimesCell(a) == <<a[0], a[2], a[3]>>

LPlusTimesCell(a) == <<a[0], a[2], a[3]>>

ScatteringCell(a) == <<a[0], a[1], a[3]>>

SourceCell(a) == <<a[0], call.mixed[a[1] + 1].zone>>

PopulationCell == << >>

(* The arguments of the sweep that number zones: k, j, i.                  *)
ZoneArg == 2 .. 4

(* Mutant: all segments run upwards.                                       *)
Index_Upwards(a, n) == a[n]

(* The index at an offset: from 0 up, or from the last index down.         *)
Index(a, n) == IF call.flag[n] > 0 THEN a[n] ELSE call.extent[n] - 1 - a[n]

(* The cell zone a uses of the plane across argument n: the plane is       *)
(* indexed by direction, group and the other two zone arguments.           *)
Face(a, n) == <<n, a[0], a[1], [m \in ZoneArg \ {n} |-> Index(a, m)]>>

(* The cells an iteration reads and writes.                                *)
Cells(a) ==
  CASE call.kernel = "LTimes" -> {LTimesCell(a)}
    [] call.kernel = "LPlusTimes" -> {LPlusTimesCell(a)}
    [] call.kernel = "Scattering" -> {ScatteringCell(a)}
    [] call.kernel = "Source" -> {SourceCell(a)}
    [] call.kernel = "Population" -> {PopulationCell}
    [] call.kernel = "SweepSubdomains" -> {Face(a, n) : n \in ZoneArg}

(* A RAJA reduction combines the terms of parallel iterations; with        *)
(* seq_reduce it is an ordinary sum.                                       *)
Combines == call.kernel = "Population" /\ ReducePolicy[call.arch] # "seq_reduce"

Call(kernel, arch, layout, extent, mixed, flag) ==
  [kernel |-> kernel, arch |-> arch, layout |-> layout, extent |-> extent,
   mixed |-> mixed, flag |-> flag]

Init ==
  /\ \E a \in Arch, l \in Layout :
       \/ \E k \in DOMAIN NumArgs \ {"Source", "SweepSubdomains"} : \E e \in Extents[k] :
            call = Call(k, a, l, e, << >>, << >>)
       \/ \E t \in MixTables, e \in Extents["Source"] :
            e[1] = Len(t) /\ call = Call("Source", a, l, e, t, << >>)
       \/ \E e \in Extents["SweepSubdomains"], f \in [ZoneArg -> {-1, 1}] :
            call = Call("SweepSubdomains", a, l, e, << >>, f)
  /\ waiting = Iterations(Nest, call.extent)
  /\ loaded = << >>
  /\ cell = [c \in UNION {Cells(a) : a \in Asked} |-> << >>]

-----------------------------------------------------------------------------
(* Iterations.                                                             *)

(* All iterations the policy puts before a are over.                       *)
MayRun(a) ==
  /\ a \in waiting
  /\ \A b \in waiting \cup DOMAIN loaded : ~ Before(Nest, b, a)

(* The right hand side of the assignment, or the new flux of the zone.     *)
Load(a) ==
  /\ MayRun(a)
  /\ Adds(a)
  /\ ~ Combines
  /\ loaded' = [b \in DOMAIN loaded \cup {a} |->
                  IF b = a THEN [c \in Cells(a) |-> cell[c]] ELSE loaded[b]]
  /\ waiting' = waiting \ {a}
  /\ UNCHANGED <<call, cell>>

(* The assignment, or the diamond difference relations in place.           *)
Store(a) ==
  /\ cell' = [c \in DOMAIN cell |->
                IF c \in Cells(a) THEN Append(loaded[a][c], a) ELSE cell[c]]
  /\ loaded' = [b \in DOMAIN loaded \ {a} |-> loaded[b]]
  /\ UNCHANGED <<call, waiting>>

Combine(a) ==
  /\ MayRun(a)
  /\ Combines
  /\ cell' = [cell EXCEPT ![PopulationCell] = Append(@, a)]
  /\ waiting' = waiting \ {a}
  /\ UNCHANGED <<call, loaded>>

(* An iteration that adds nothing.                                         *)
Skip(a) ==
  /\ MayRun(a)
  /\ ~ Adds(a)
  /\ waiting' = waiting \ {a}
  /\ UNCHANGED <<call, loaded, cell>>

Returned == waiting = {} /\ loaded = << >>

(* The kernel has returned.                                                *)
Done == Returned /\ UNCHANGED vars

Next ==
  \/ \E a \in waiting : Load(a) \/ Combine(a) \/ Skip(a)
  \/ \E a \in DOMAIN loaded : Store(a)
  \/ Done

Spec == Init /\ [][Next]_vars

-----------------------------------------------------------------------------
(* Properties.                                                             *)

(* No two iterations in flight use one cell, so no update is lost and      *)
(* there is no data race.  The parallel loops of a policy must leave out   *)
(* the argument an accumulating kernel sums over, and zones swept at the   *)
(* same time share no face; for Source this rests on a zone having         *)
(* material 0 in one mixed element at most.                                *)
OneWriterPerCell ==
  \A a, b \in DOMAIN loaded : a # b => Cells(a) \cap Cells(b) = {}

(* When the kernel returns every iteration asked for has added its term to *)
(* its cells exactly once; in the sweep, a cell of a plane has been passed *)
(* on by every zone along it.                                              *)
NothingLost ==
  Returned =>
    \A c \in DOMAIN cell :
      /\ \A a \in Asked : c \in Cells(a) /\ Adds(a) => a \in Range(cell[c])
      /\ Cardinality(Range(cell[c])) = Len(cell[c])

(* The terms of a cell are added in the order of the reduced argument      *)
(* whatever the architecture, the layout and the schedule: rounding        *)
(* included, the moments and sources are those of the sequential build.    *)
(* In the sweep they are the zones in the order of the flight, the last of *)
(* them at the downwind side: SolverLoop's SweepSubdomain replaces the     *)
(* incoming planes by the outgoing ones.  Population makes no such promise.*)
SameSumEverywhere ==
  call.kernel # "Population" =>
    \A c \in DOMAIN cell : \A i, j \in DOMAIN cell[c] : i < j =>
      \E n \in DOMAIN call.extent :
        /\ cell[c][i][n] < cell[c][j][n]
        /\ \A m \in 0 .. n - 1 : cell[c][i][m] <= cell[c][j][m]

(* The neighbour of a zone against the direction of flight.                *)
UpwindIndex(a, n) == Index(a, n) - call.flag[n]

(* A zone is computed from what its upwind neighbours in this very sweep   *)
(* left in the planes, under every policy and from every corner: neither   *)
(* the inflow of the subdomain nor a zone further away.                    *)
ReadsUpwind ==
  call.kernel = "SweepSubdomains" =>
    \A a \in DOMAIN loaded : \A n \in ZoneArg :
      LET read == loaded[a][Face(a, n)]
      IN  IF UpwindIndex(a, n) \in 0 .. call.extent[n] - 1
            THEN read # << >> /\ Index(read[Len(read)], n) = UpwindIndex(a, n)
            ELSE read = << >>

-----------------------------------------------------------------------------
(* The inductive invariant.                                                *)

(* The calls of Init.                                                      *)
CallInv ==
  /\ call.arch \in Arch
  /\ call.layout \in Layout
  /\ call.kernel \in DOMAIN NumArgs
  /\ call.extent \in Extents[call.kernel]
  /\ call.kernel = "Source" => call.mixed \in MixTables /\ call.extent[1] = Len(call.mixed)
  /\ call.kernel = "SweepSubdomains" => call.flag \in [ZoneArg -> {-1, 1}]

(* Iterations that have not ended.                                         *)
Pending == waiting \cup DOMAIN loaded

TypeInv ==
  /\ waiting \subseteq Asked
  /\ DOMAIN loaded \subseteq Asked \ waiting
  /\ DOMAIN loaded # {} => ~ Combines
  /\ \A a \in DOMAIN loaded : Adds(a)
  /\ DOMAIN cell = UNION {Cells(a) : a \in Asked}
  /\ \A c \in DOMAIN cell : cell[c] \in Seq(Asked \ Pending)

(* What has begun is not put behind anything that has not ended.           *)
OrderInv == \A a \in Asked \ waiting, b \in Pending : ~ Before(Nest, b, a)

(* A cell holds the terms of the iterations that are over, each once, and  *)
(* none before one that the policy puts in front of it.                    *)
CellOK(c) ==
  /\ \A a \in Asked : c \in Cells(a) /\ Adds(a) =>
       a \in Pending \/ \E i \in DOMAIN cell[c] : cell[c][i] = a
  /\ \A i \in DOMAIN cell[c] : c \in Cells(cell[c][i]) /\ Adds(cell[c][i])
  /\ \A i, j \in DOMAIN cell[c] : i < j =>
       cell[c][i] # cell[c][j] /\ ~ Before(Nest, cell[c][j], cell[c][i])

CellInv == \A c \in DOMAIN cell : CellOK(c)

(* What an iteration has read is still there when it stores the sum.       *)
LoadedInv ==
  \A a \in DOMAIN loaded :
    /\ DOMAIN loaded[a] = Cells(a)
    /\ \A c \in Cells(a) : loaded[a][c] = cell[c]

IndInv == CallInv /\ TypeInv /\ OrderInv /\ CellInv /\ LoadedInv

=============================================================================
