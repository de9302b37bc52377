------------------------------ MODULE LoopNest ------------------------------
(***************************************************************************)
(* The meaning of the RAJA kernel policies of Arch/*.h, as far as it says  *)
(* which iterations of a kernel may run at the same time.                  *)
(*                                                                         *)
(* A policy is a sequence of levels, the outermost first.  A level runs    *)
(* the loops over some of the kernel's arguments (numbered from 0, as in   *)
(* For<n, ...>):                                                           *)
(*   Loop        one inside the other, in order: seq_exec                  *)
(*   Parallel    all at once: omp_parallel_*, cuda_* and hip_* loops       *)
(*   Hyperplane  by ascending sum of the offsets; iterations with equal    *)
(*               sums at once.  On a GPU the sequential hyperplane loop is *)
(*               inside two thread loops and ends in SyncThreads; that is  *)
(*               the same as long as the thread loops fit one block.       *)
(* An iteration is the function from arguments to offsets into their       *)
(* segments.                                                               *)
(***************************************************************************)
EXTENDS Integers, Sequences, FiniteSets, Functions

Loop(args) == [how |-> "loop", args |-> args]

Parallel(args) == [how |-> "parallel", args |-> args]

Hyperplane(args) == [how |-> "hyperplane", args |-> args]

(* Arguments that some level of the nest loops over.                       *)
Looped(nest) == UNION {Range(nest[l].args) : l \in DOMAIN nest}

(* All combinations of offsets below the given extents.                    *)
IterationSpace(extent) ==
  {a \in [DOMAIN extent -> UNION {0 .. extent[n] - 1 : n \in DOMAIN extent}] :
     \A n \in DOMAIN extent : a[n] < extent[n]}

(* The iterations a nest makes: an argument without a loop stays at its    *)
(* first element.                                                          *)
Iterations(nest, extent) ==
  {a \in IterationSpace(extent) : \A n \in DOMAIN extent : n \in Looped(nest) \/ a[n] = 0}

Differ(args, a, b) == \E n \in DOMAIN args : a[args[n]] # b[args[n]]

(* The sum that numbers the hyperplanes, which are those of three loops.   *)
Front(args, a) == a[args[1]] + a[args[2]] + a[args[3]]

Earlier(level, a, b) ==
  \/ /\ level.how = "loop"
     /\ \E n \in DOMAIN level.args :
          /\ a[level.args[n]] < b[level.args[n]]
          /\ \A m \in DOMAIN level.args : m < n => a[level.args[m]] = b[level.args[m]]
  \/ /\ level.how = "hyperplane"
     /\ Front(level.args, a) < Front(level.args, b)

(* Iteration a has ended when b begins: the outermost level at which they  *)
(* differ puts a first.                                                    *)
Before(nest, a, b) ==
  \E l \in DOMAIN nest :
    /\ Earlier(nest[l], a, b)
    /\ \A m \in DOMAIN nest : m < l => ~ Differ(nest[m].args, a, b)

=============================================================================
