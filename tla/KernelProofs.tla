---------------------------- MODULE KernelProofs ----------------------------
(***************************************************************************)
(* The kernels compute what the sequential build computes, whatever the    *)
(* policy and the schedule, for all extents, mixture tables and flags.     *)
(***************************************************************************)
EXTENDS Kernels, SequenceTheorems, FiniteSetTheorems, TLAPS

-----------------------------------------------------------------------------
(* The tables of policies.                                                 *)

(* The nest puts iterations that differ in argument r only in its order: r *)
(* has one place, in a loop or a hyperplane of three arguments.            *)
Orders(nest, r) ==
  \E l \in DOMAIN nest :
    /\ \/ nest[l].how = "loop"
       \/ nest[l].how = "hyperplane" /\ DOMAIN nest[l].args = 1 .. 3
    /\ \E n \in DOMAIN nest[l].args :
         /\ n \in Int /\ nest[l].args[n] = r
         /\ \A m \in DOMAIN nest[l].args : m # n => nest[l].args[m] # r
    /\ \A k \in DOMAIN nest : k < l => \A n \in DOMAIN nest[k].args : nest[k].args[n] # r

(* A nest that loops over all of args and orders those it must.            *)
Suits(nest, args, ordered) ==
  /\ Looped(nest) = args
  /\ \A r \in ordered : Orders(nest, r)

LEMMA SweepSequentialSuits == \A l \in Layout : Suits(SweepSequential[l], 0 .. 4, {2, 3, 4})
<1>1. Suits(SweepSequential.DGZ, 0 .. 4, {2, 3, 4})
  BY DEF SweepSequential, Suits, Orders, Looped, Range, Loop
<1>2. Suits(SweepSequential.DZG, 0 .. 4, {2, 3, 4})
  BY DEF SweepSequential, Suits, Orders, Looped, Range, Loop
<1>3. Suits(SweepSequential.GDZ, 0 .. 4, {2, 3, 4})
  BY DEF SweepSequential, Suits, Orders, Looped, Range, Loop
<1>4. Suits(SweepSequential.GZD, 0 .. 4, {2, 3, 4})
  BY DEF SweepSequential, Suits, Orders, Looped, Range, Loop
<1>5. Suits(SweepSequential.ZDG, 0 .. 4, {2, 3, 4})
  BY DEF SweepSequential, Suits, Orders, Looped, Range, Loop
<1>6. Suits(SweepSequential.ZGD, 0 .. 4, {2, 3, 4})
  BY DEF SweepSequential, Suits, Orders, Looped, Range, Loop
<1> QED
  BY <1>1, <1>2, <1>3, <1>4, <1>5, <1>6 DEF Layout

LEMMA SweepOpenMPSuits == \A l \in Layout : Suits(SweepOpenMP[l], 0 .. 4, {2, 3, 4})
<1>1. Suits(SweepOpenMP.DGZ, 0 .. 4, {2, 3, 4})
  BY DEF SweepOpenMP, Suits, Orders, Looped, Range, Loop, Parallel, Hyperplane
<1>2. Suits(SweepOpenMP.DZG, 0 .. 4, {2, 3, 4})
  BY DEF SweepOpenMP, Suits, Orders, Looped, Range, Loop, Parallel, Hyperplane
<1>3. Suits(SweepOpenMP.GDZ, 0 .. 4, {2, 3, 4})
  BY DEF SweepOpenMP, Suits, Orders, Looped, Range, Loop, Parallel, Hyperplane
<1>4. Suits(SweepOpenMP.GZD, 0 .. 4, {2, 3, 4})
  BY DEF SweepOpenMP, Suits, Orders, Looped, Range, Loop, Parallel, Hyperplane
<1>5. Suits(SweepOpenMP.ZDG, 0 .. 4, {2, 3, 4})
  BY DEF SweepOpenMP, Suits, Orders, Looped, Range, Loop, Parallel, Hyperplane
<1>6. Suits(SweepOpenMP.ZGD, 0 .. 4, {2, 3, 4})
  BY DEF SweepOpenMP, Suits, Orders, Looped, Range, Loop, Parallel, Hyperplane
<1> QED
  BY <1>1, <1>2, <1>3, <1>4, <1>5, <1>6 DEF Layout

LEMMA SweepCUDASuits == \A l \in Layout : Suits(SweepCUDA[l], 0 .. 4, {2, 3, 4})
BY DEF SweepCUDA, AllLayouts, Suits, Orders, Looped, Range, Parallel, Hyperplane

LEMMA SweepHIPSuits == \A l \in Layout : Suits(SweepHIP[l], 0 .. 4, {2, 3, 4})
BY DEF SweepHIP, AllLayouts, Suits, Orders, Looped, Range, Parallel, Hyperplane

LEMMA LTimesSequentialSuits == \A l \in Layout : Suits(LTimesSequential[l], 0 .. 3, {1})
<1>1. Suits(LTimesSequential.DGZ, 0 .. 3, {1})
  BY DEF LTimesSequential, Suits, Orders, Looped, Range, Loop
<1>2. Suits(LTimesSequential.DZG, 0 .. 3, {1})
  BY DEF LTimesSequential, Suits, Orders, Looped, Range, Loop
<1>3. Suits(LTimesSequential.GDZ, 0 .. 3, {1})
  BY DEF LTimesSequential, Suits, Orders, Looped, Range, Loop
<1>4. Suits(LTimesSequential.GZD, 0 .. 3, {1})
  BY DEF LTimesSequential, Suits, Orders, Looped, Range, Loop
<1>5. Suits(LTimesSequential.ZDG, 0 .. 3, {1})
  BY DEF LTimesSequential, Suits, Orders, Looped, Range, Loop
<1>6. Suits(LTimesSequential.ZGD, 0 .. 3, {1})
  BY DEF LTimesSequential, Suits, Orders, Looped, Range, Loop
<1> QED
  BY <1>1, <1>2, <1>3, <1>4, <1>5, <1>6 DEF Layout

LEMMA LTimesOpenMPSuits == \A l \in Layout : Suits(LTimesOpenMP[l], 0 .. 3, {1})
<1>1. Suits(LTimesOpenMP.DGZ, 0 .. 3, {1})
  BY DEF LTimesOpenMP, Suits, Orders, Looped, Range, Loop, Parallel
<1>2. Suits(LTimesOpenMP.DZG, 0 .. 3, {1})
  BY DEF LTimesOpenMP, Suits, Orders, Looped, Range, Loop, Parallel
<1>3. Suits(LTimesOpenMP.GDZ, 0 .. 3, {1})
  BY DEF LTimesOpenMP, Suits, Orders, Looped, Range, Loop, Parallel
<1>4. Suits(LTimesOpenMP.GZD, 0 .. 3, {1})
  BY DEF LTimesOpenMP, Suits, Orders, Looped, Range, Loop, Parallel
<1>5. Suits(LTimesOpenMP.ZDG, 0 .. 3, {1})
  BY DEF LTimesOpenMP, Suits, Orders, Looped, Range, Loop, Parallel
<1>6. Suits(LTimesOpenMP.ZGD, 0 .. 3, {1})
  BY DEF LTimesOpenMP, Suits, Orders, Looped, Range, Loop, Parallel
<1> QED
  BY <1>1, <1>2, <1>3, <1>4, <1>5, <1>6 DEF Layout

LEMMA LTimesCUDASuits == \A l \in Layout : Suits(LTimesCUDA[l], 0 .. 3, {1})
BY DEF LTimesCUDA, AllLayouts, Suits, Orders, Looped, Range, Loop, Parallel

LEMMA LTimesHIPSuits == \A l \in Layout : Suits(LTimesHIP[l], 0 .. 3, {1})
BY DEF LTimesHIP, AllLayouts, Suits, Orders, Looped, Range, Loop, Parallel

LEMMA LPlusTimesSequentialSuits == \A l \in Layout : Suits(LPlusTimesSequential[l], 0 .. 3, {1})
<1>1. Suits(LPlusTimesSequential.DGZ, 0 .. 3, {1})
  BY DEF LPlusTimesSequential, Suits, Orders, Looped, Range, Loop
<1>2. Suits(LPlusTimesSequential.DZG, 0 .. 3, {1})
  BY DEF LPlusTimesSequential, Suits, Orders, Looped, Range, Loop
<1>3. Suits(LPlusTimesSequential.GDZ, 0 .. 3, {1})
  BY DEF LPlusTimesSequential, Suits, Orders, Looped, Range, Loop
<1>4. Suits(LPlusTimesSequential.GZD, 0 .. 3, {1})
  BY DEF LPlusTimesSequential, Suits, Orders, Looped, Range, Loop
<1>5. Suits(LPlusTimesSequential.ZDG, 0 .. 3, {1})
  BY DEF LPlusTimesSequential, Suits, Orders, Looped, Range, Loop
<1>6. Suits(LPlusTimesSequential.ZGD, 0 .. 3, {1})
  BY DEF LPlusTimesSequential, Suits, Orders, Looped, Range, Loop
<1> QED
  BY <1>1, <1>2, <1>3, <1>4, <1>5, <1>6 DEF Layout

LEMMA LPlusTimesOpenMPSuits == \A l \in Layout : Suits(LPlusTimesOpenMP[l], 0 .. 3, {1})
<1>1. Suits(LPlusTimesOpenMP.DGZ, 0 .. 3, {1})
  BY DEF LPlusTimesOpenMP, Suits, Orders, Looped, Range, Loop, Parallel
<1>2. Suits(LPlusTimesOpenMP.DZG, 0 .. 3, {1})
  BY DEF LPlusTimesOpenMP, Suits, Orders, Looped, Range, Loop, Parallel
<1>3. Suits(LPlusTimesOpenMP.GDZ, 0 .. 3, {1})
  BY DEF LPlusTimesOpenMP, Suits, Orders, Looped, Range, Loop, Parallel
<1>4. Suits(LPlusTimesOpenMP.GZD, 0 .. 3, {1})
  BY DEF LPlusTimesOpenMP, Suits, Orders, Looped, Range, Loop, Parallel
<1>5. Suits(LPlusTimesOpenMP.ZDG, 0 .. 3, {1})
  BY DEF LPlusTimesOpenMP, Suits, Orders, Looped, Range, Loop, Parallel
<1>6. Suits(LPlusTimesOpenMP.ZGD, 0 .. 3, {1})
  BY DEF LPlusTimesOpenMP, Suits, Orders, Looped, Range, Loop, Parallel
<1> QED
  BY <1>1, <1>2, <1>3, <1>4, <1>5, <1>6 DEF Layout

LEMMA LPlusTimesCUDASuits == \A l \in Layout : Suits(LPlusTimesCUDA[l], 0 .. 3, {1})
BY DEF LPlusTimesCUDA, AllLayouts, Suits, Orders, Looped, Range, Loop, Parallel

LEMMA LPlusTimesHIPSuits == \A l \in Layout : Suits(LPlusTimesHIP[l], 0 .. 3, {1})
BY DEF LPlusTimesHIP, AllLayouts, Suits, Orders, Looped, Range, Loop, Parallel

LEMMA ScatteringSequentialSuits == \A l \in Layout : Suits(ScatteringSequential[l], 0 .. 3, {2})
<1>1. Suits(ScatteringSequential.DGZ, 0 .. 3, {2})
  BY DEF ScatteringSequential, Suits, Orders, Looped, Range, Loop
<1>2. Suits(ScatteringSequential.DZG, 0 .. 3, {2})
  BY DEF ScatteringSequential, Suits, Orders, Looped, Range, Loop
<1>3. Suits(ScatteringSequential.GDZ, 0 .. 3, {2})
  BY DEF ScatteringSequential, Suits, Orders, Looped, Range, Loop
<1>4. Suits(ScatteringSequential.GZD, 0 .. 3, {2})
  BY DEF ScatteringSequential, Suits, Orders, Looped, Range, Loop
<1>5. Suits(ScatteringSequential.ZDG, 0 .. 3, {2})
  BY DEF ScatteringSequential, Suits, Orders, Looped, Range, Loop
<1>6. Suits(ScatteringSequential.ZGD, 0 .. 3, {2})
  BY DEF ScatteringSequential, Suits, Orders, Looped, Range, Loop
<1> QED
  BY <1>1, <1>2, <1>3, <1>4, <1>5, <1>6 DEF Layout

LEMMA ScatteringOpenMPSuits == \A l \in Layout : Suits(ScatteringOpenMP[l], 0 .. 3, {2})
<1>1. Suits(ScatteringOpenMP.DGZ, 0 .. 3, {2})
  BY DEF ScatteringOpenMP, Suits, Orders, Looped, Range, Loop, Parallel
<1>2. Suits(ScatteringOpenMP.DZG, 0 .. 3, {2})
  BY DEF ScatteringOpenMP, Suits, Orders, Looped, Range, Loop, Parallel
<1>3. Suits(ScatteringOpenMP.GDZ, 0 .. 3, {2})
  BY DEF ScatteringOpenMP, Suits, Orders, Looped, Range, Loop, Parallel
<1>4. Suits(ScatteringOpenMP.GZD, 0 .. 3, {2})
  BY DEF ScatteringOpenMP, Suits, Orders, Looped, Range, Loop, Parallel
<1>5. Suits(ScatteringOpenMP.ZDG, 0 .. 3, {2})
  BY DEF ScatteringOpenMP, Suits, Orders, Looped, Range, Loop, Parallel
<1>6. Suits(ScatteringOpenMP.ZGD, 0 .. 3, {2})
  BY DEF ScatteringOpenMP, Suits, Orders, Looped, Range, Loop, Parallel
<1> QED
  BY <1>1, <1>2, <1>3, <1>4, <1>5, <1>6 DEF Layout

LEMMA ScatteringCUDASuits == \A l \in Layout : Suits(ScatteringCUDA[l], 0 .. 3, {2})
BY DEF ScatteringCUDA, AllLayouts, Suits, Orders, Looped, Range, Loop, Parallel

LEMMA ScatteringHIPSuits == \A l \in Layout : Suits(ScatteringHIP[l], 0 .. 3, {2})
BY DEF ScatteringHIP, AllLayouts, Suits, Orders, Looped, Range, Loop, Parallel

LEMMA SourceSequentialSuits == \A l \in Layout : Suits(SourceSequential[l], 0 .. 1, {})
BY DEF SourceSequential, AllLayouts, Suits, Orders, Looped, Range, Loop

LEMMA SourceOpenMPSuits == \A l \in Layout : Suits(SourceOpenMP[l], 0 .. 1, {})
<1>1. \A l \in Layout : SourceOpenMP[l] \in {<<Parallel(<<0, 1>>)>>, <<Parallel(<<1, 0>>)>>}
  BY DEF SourceOpenMP
<1>2. \A nest \in {<<Parallel(<<0, 1>>)>>, <<Parallel(<<1, 0>>)>>} : Suits(nest, 0 .. 1, {})
  BY DEF Suits, Orders, Looped, Range, Parallel
<1> QED
  BY <1>1, <1>2

LEMMA SourceCUDASuits == \A l \in Layout : Suits(SourceCUDA[l], 0 .. 1, {})
BY DEF SourceCUDA, AllLayouts, Suits, Orders, Looped, Range, Parallel

LEMMA SourceHIPSuits == \A l \in Layout : Suits(SourceHIP[l], 0 .. 1, {})
BY DEF SourceHIP, AllLayouts, Suits, Orders, Looped, Range, Parallel

LEMMA PopulationSequentialSuits == \A l \in Layout : Suits(PopulationSequential[l], 0 .. 2, {})
<1>1. Suits(PopulationSequential.DGZ, 0 .. 2, {})
  BY DEF PopulationSequential, Suits, Orders, Looped, Range, Loop
<1>2. Suits(PopulationSequential.DZG, 0 .. 2, {})
  BY DEF PopulationSequential, Suits, Orders, Looped, Range, Loop
<1>3. Suits(PopulationSequential.GDZ, 0 .. 2, {})
  BY DEF PopulationSequential, Suits, Orders, Looped, Range, Loop
<1>4. Suits(PopulationSequential.GZD, 0 .. 2, {})
  BY DEF PopulationSequential, Suits, Orders, Looped, Range, Loop
<1>5. Suits(PopulationSequential.ZDG, 0 .. 2, {})
  BY DEF PopulationSequential, Suits, Orders, Looped, Range, Loop
<1>6. Suits(PopulationSequential.ZGD, 0 .. 2, {})
  BY DEF PopulationSequential, Suits, Orders, Looped, Range, Loop
<1> QED
  BY <1>1, <1>2, <1>3, <1>4, <1>5, <1>6 DEF Layout

LEMMA PopulationOpenMPSuits == \A l \in Layout : Suits(PopulationOpenMP[l], 0 .. 2, {})
<1>1. Suits(PopulationOpenMP.DGZ, 0 .. 2, {})
  BY DEF PopulationOpenMP, Suits, Orders, Looped, Range, Loop, Parallel
<1>2. Suits(PopulationOpenMP.DZG, 0 .. 2, {})
  BY DEF PopulationOpenMP, Suits, Orders, Looped, Range, Loop, Parallel
<1>3. Suits(PopulationOpenMP.GDZ, 0 .. 2, {})
  BY DEF PopulationOpenMP, Suits, Orders, Looped, Range, Loop, Parallel
<1>4. Suits(PopulationOpenMP.GZD, 0 .. 2, {})
  BY DEF PopulationOpenMP, Suits, Orders, Looped, Range, Loop, Parallel
<1>5. Suits(PopulationOpenMP.ZDG, 0 .. 2, {})
  BY DEF PopulationOpenMP, Suits, Orders, Looped, Range, Loop, Parallel
<1>6. Suits(PopulationOpenMP.ZGD, 0 .. 2, {})
  BY DEF PopulationOpenMP, Suits, Orders, Looped, Range, Loop, Parallel
<1> QED
  BY <1>1, <1>2, <1>3, <1>4, <1>5, <1>6 DEF Layout

LEMMA PopulationCUDASuits == \A l \in Layout : Suits(PopulationCUDA[l], 0 .. 2, {})
BY DEF PopulationCUDA, AllLayouts, Suits, Orders, Looped, Range, Parallel

LEMMA PopulationHIPSuits == \A l \in Layout : Suits(PopulationHIP[l], 0 .. 2, {})
BY DEF PopulationHIP, AllLayouts, Suits, Orders, Looped, Range, Parallel

(* Every table makes all iterations, and orders those that share a cell.   *)
LEMMA PoliciesSuit ==
  ASSUME NEW arch \in Arch, NEW l \in Layout
  PROVE  /\ Suits(ExecPolicy["SweepSubdomains"][arch][l], 0 .. 4, {2, 3, 4})
         /\ Suits(ExecPolicy["LTimes"][arch][l], 0 .. 3, {1})
         /\ Suits(ExecPolicy["LPlusTimes"][arch][l], 0 .. 3, {1})
         /\ Suits(ExecPolicy["Scattering"][arch][l], 0 .. 3, {2})
         /\ Suits(ExecPolicy["Source"][arch][l], 0 .. 1, {})
         /\ Suits(ExecPolicy["Population"][arch][l], 0 .. 2, {})
<1>1. arch \in {"Sequential", "OpenMP", "CUDA", "HIP"}
  BY DEF Arch
<1>2. Suits(ExecPolicy["SweepSubdomains"][arch][l], 0 .. 4, {2, 3, 4})
  BY <1>1, SweepSequentialSuits, SweepOpenMPSuits, SweepCUDASuits, SweepHIPSuits DEF ExecPolicy
<1>3. Suits(ExecPolicy["LTimes"][arch][l], 0 .. 3, {1})
  BY <1>1, LTimesSequentialSuits, LTimesOpenMPSuits, LTimesCUDASuits, LTimesHIPSuits DEF ExecPolicy
<1>4. Suits(ExecPolicy["LPlusTimes"][arch][l], 0 .. 3, {1})
  BY <1>1, LPlusTimesSequentialSuits, LPlusTimesOpenMPSuits, LPlusTimesCUDASuits,
     LPlusTimesHIPSuits DEF ExecPolicy
<1>5. Suits(ExecPolicy["Scattering"][arch][l], 0 .. 3, {2})
  BY <1>1, ScatteringSequentialSuits, ScatteringOpenMPSuits, ScatteringCUDASuits,
     ScatteringHIPSuits DEF ExecPolicy
<1>6. Suits(ExecPolicy["Source"][arch][l], 0 .. 1, {})
  BY <1>1, SourceSequentialSuits, SourceOpenMPSuits, SourceCUDASuits, SourceHIPSuits DEF ExecPolicy
<1>7. Suits(ExecPolicy["Population"][arch][l], 0 .. 2, {})
  BY <1>1, PopulationSequentialSuits, PopulationOpenMPSuits, PopulationCUDASuits,
     PopulationHIPSuits DEF ExecPolicy
<1> QED
  BY <1>2, <1>3, <1>4, <1>5, <1>6, <1>7

(* A sequential population is one loop over all three arguments.           *)
LEMMA PopulationInOneLoop ==
  ASSUME NEW l \in Layout
  PROVE  \E x, y, z \in 0 .. 2 : /\ {x, y, z} = 0 .. 2
                                 /\ PopulationSequential[l] = <<Loop(<<x, y, z>>)>>
<1>1. l \in {"DGZ", "DZG", "GDZ", "GZD", "ZDG", "ZGD"}
  BY DEF Layout
<1>2. PICK x, y, z \in 0 .. 2 : x # y /\ y # z /\ x # z /\ PopulationSequential[l] = <<Loop(<<x, y, z>>)>>
  BY <1>1 DEF PopulationSequential
<1>3. {x, y, z} = 0 .. 2
  BY <1>2
<1> QED
  BY <1>2, <1>3

-----------------------------------------------------------------------------
(* What an order of the policy means.                                      *)

(* Iterations that differ in one argument only, which the nest orders.     *)
OnlyIn(args, r, a, b) == \A m \in args : m # r => a[m] = b[m]

LEMMA OrdersBefore ==
  ASSUME NEW nest, NEW args, NEW ordered, NEW r \in ordered, Suits(nest, args, ordered),
         NEW a, NEW b, \A m \in args : a[m] \in Int /\ b[m] \in Int,
         OnlyIn(args, r, a, b), a[r] < b[r]
  PROVE  Before(nest, a, b)
<1>1. PICK l \in DOMAIN nest :
        /\ \/ nest[l].how = "loop"
           \/ nest[l].how = "hyperplane" /\ DOMAIN nest[l].args = 1 .. 3
        /\ \E n \in DOMAIN nest[l].args :
             /\ n \in Int /\ nest[l].args[n] = r
             /\ \A m \in DOMAIN nest[l].args : m # n => nest[l].args[m] # r
        /\ \A k \in DOMAIN nest : k < l => \A n \in DOMAIN nest[k].args : nest[k].args[n] # r
  BY DEF Orders, Suits
<1>2. PICK n \in DOMAIN nest[l].args :
        /\ n \in Int /\ nest[l].args[n] = r
        /\ \A m \in DOMAIN nest[l].args : m # n => nest[l].args[m] # r
  BY <1>1
<1>3. \A k \in DOMAIN nest : \A m \in DOMAIN nest[k].args : nest[k].args[m] \in args
  BY DEF Looped, Range, Suits
<1>4. \A k \in DOMAIN nest : \A m \in DOMAIN nest[k].args :
        nest[k].args[m] # r => a[nest[k].args[m]] = b[nest[k].args[m]]
  BY <1>3 DEF OnlyIn
<1>5. \A k \in DOMAIN nest : k < l => ~ Differ(nest[k].args, a, b)
  BY <1>1, <1>4 DEF Differ
<1>7. CASE nest[l].how = "loop"
  <2>1. \A m \in DOMAIN nest[l].args : m < n => a[nest[l].args[m]] = b[nest[l].args[m]]
    BY <1>2, <1>4
  <2>2. Earlier(nest[l], a, b)
    BY <1>2, <1>7, <2>1 DEF Earlier
  <2> QED
    BY <1>5, <2>2 DEF Before
<1>8. CASE nest[l].how = "hyperplane" /\ DOMAIN nest[l].args = 1 .. 3
  <2> DEFINE x(m) == a[nest[l].args[m]]
             y(m) == b[nest[l].args[m]]
  <2>1. \A m \in 1 .. 3 : x(m) \in Int /\ y(m) \in Int /\ (m # n => x(m) = y(m))
    BY <1>2, <1>3, <1>4, <1>8
  <2>2. n \in 1 .. 3 /\ x(n) < y(n)
    BY <1>2, <1>8
  <2>3. x(1) + x(2) + x(3) < y(1) + y(2) + y(3)
    <3>1. n = 1 \/ n = 2 \/ n = 3
      BY <2>2
    <3> HIDE DEF x, y
    <3>2. x(1) \in Int /\ x(2) \in Int /\ x(3) \in Int /\ y(1) \in Int /\ y(2) \in Int /\ y(3) \in Int
      BY <2>1
    <3>3. CASE n = 1
      BY <2>1, <2>2, <3>2, <3>3
    <3>4. CASE n = 2
      BY <2>1, <2>2, <3>2, <3>4
    <3>5. CASE n = 3
      BY <2>1, <2>2, <3>2, <3>5
    <3> QED
      BY <3>1, <3>3, <3>4, <3>5
  <2>4. Earlier(nest[l], a, b)
    BY <1>8, <2>3 DEF Earlier, Front
  <2> QED
    BY <1>5, <2>4 DEF Before
<1> QED
  BY <1>1, <1>7, <1>8

(* A single loop over all arguments puts all iterations in a row.          *)
LEMMA OneLoopBefore ==
  ASSUME NEW x, NEW y, NEW z, NEW a, NEW b,
         \A m \in {x, y, z} : a[m] \in Int /\ b[m] \in Int,
         \E m \in {x, y, z} : a[m] # b[m]
  PROVE  Before(<<Loop(<<x, y, z>>)>>, a, b) \/ Before(<<Loop(<<x, y, z>>)>>, b, a)
<1> DEFINE nest == <<Loop(<<x, y, z>>)>>
<1>1. /\ DOMAIN nest = {1} /\ nest[1].how = "loop" /\ DOMAIN nest[1].args = 1 .. 3
      /\ nest[1].args[1] = x /\ nest[1].args[2] = y /\ nest[1].args[3] = z
  BY DEF Loop
<1> HIDE DEF nest
<1>2. ASSUME NEW c, NEW d, NEW n \in 1 .. 3, c[nest[1].args[n]] < d[nest[1].args[n]],
             \A m \in 1 .. 3 : m < n => c[nest[1].args[m]] = d[nest[1].args[m]]
      PROVE  Before(nest, c, d)
  <2>1. Earlier(nest[1], c, d)
    BY <1>1, <1>2 DEF Earlier
  <2> QED
    BY <1>1, <2>1 DEF Before
<1>3. CASE a[x] # b[x]
  <2>1. \A m \in 1 .. 3 : ~ m < 1
    OBVIOUS
  <2>2. a[x] < b[x] \/ b[x] < a[x]
    BY <1>3
  <2> QED
    BY <1>1, <1>2, <2>1, <2>2 DEF nest
<1>4. CASE a[x] = b[x] /\ a[y] # b[y]
  <2>1. \A m \in 1 .. 3 : m < 2 => m = 1
    OBVIOUS
  <2>2. a[y] < b[y] \/ b[y] < a[y]
    BY <1>4
  <2> QED
    BY <1>1, <1>2, <1>4, <2>1, <2>2 DEF nest
<1>5. CASE a[x] = b[x] /\ a[y] = b[y] /\ a[z] # b[z]
  <2>1. \A m \in 1 .. 3 : m < 3 => m = 1 \/ m = 2
    OBVIOUS
  <2>2. a[z] < b[z] \/ b[z] < a[z]
    BY <1>5
  <2> QED
    BY <1>1, <1>2, <1>5, <2>1, <2>2 DEF nest
<1> QED
  BY <1>3, <1>4, <1>5

-----------------------------------------------------------------------------
(* Calls.                                                                  *)

(* The arguments that number the terms of a cell.                          *)
Ordered(kernel) ==
  IF kernel \in {"LTimes", "LPlusTimes"} THEN {1}
  ELSE IF kernel = "Scattering" THEN {2}
  ELSE IF kernel = "SweepSubdomains" THEN {2, 3, 4}
  ELSE {}

(* The arguments of a call are those its policies loop over.               *)
LEMMA CallFacts ==
  ASSUME CallInv
  PROVE  /\ \E k \in Nat : DOMAIN call.extent = 0 .. k
         /\ call.extent \in [DOMAIN call.extent -> Nat]
         /\ call.kernel \in {"LTimes", "LPlusTimes", "Scattering"} => DOMAIN call.extent = 0 .. 3
         /\ call.kernel = "Source" => DOMAIN call.extent = 0 .. 1
         /\ call.kernel = "Population" => DOMAIN call.extent = 0 .. 2
         /\ call.kernel = "SweepSubdomains" => DOMAIN call.extent = 0 .. 4
         /\ Suits(Nest, DOMAIN call.extent, Ordered(call.kernel))
         /\ call.kernel \in {"LTimes", "LPlusTimes", "Scattering", "Source", "Population",
                             "SweepSubdomains"}
<1> DEFINE e == call.extent
<1>1. call.arch \in Arch /\ call.layout \in Layout
  BY DEF CallInv
<1>2. call.kernel \in {"LTimes", "LPlusTimes", "Scattering", "Source", "Population",
                       "SweepSubdomains"}
  BY DEF CallInv, NumArgs
<1>3. /\ Suits(ExecPolicy["SweepSubdomains"][call.arch][call.layout], 0 .. 4, {2, 3, 4})
      /\ Suits(ExecPolicy["LTimes"][call.arch][call.layout], 0 .. 3, {1})
      /\ Suits(ExecPolicy["LPlusTimes"][call.arch][call.layout], 0 .. 3, {1})
      /\ Suits(ExecPolicy["Scattering"][call.arch][call.layout], 0 .. 3, {2})
      /\ Suits(ExecPolicy["Source"][call.arch][call.layout], 0 .. 1, {})
      /\ Suits(ExecPolicy["Population"][call.arch][call.layout], 0 .. 2, {})
  BY <1>1, PoliciesSuit
<1>4. Nest = ExecPolicy[call.kernel][call.arch][call.layout]
  BY DEF Nest
<1>5. e \in [0 .. NumArgs[call.kernel] - 1 -> Nat]
  BY KernelAssumption DEF CallInv
<1> HIDE DEF e
<1>6. CASE call.kernel \in {"LTimes", "LPlusTimes", "Scattering"}
  <2>1. NumArgs[call.kernel] - 1 = 3
    BY <1>6 DEF NumArgs
  <2>2. e \in [0 .. 3 -> Nat] /\ DOMAIN e = 0 .. 3
    BY <1>5, <2>1
  <2> QED
    BY <1>3, <1>4, <1>6, <2>2 DEF Ordered, e
<1>7. CASE call.kernel = "Source"
  <2>1. NumArgs["Source"] - 1 = 1
    BY DEF NumArgs
  <2>2. e \in [0 .. 1 -> Nat] /\ DOMAIN e = 0 .. 1
    BY <1>5, <1>7, <2>1
  <2> QED
    BY <1>3, <1>4, <1>7, <2>2 DEF Ordered, e
<1>8. CASE call.kernel = "Population"
  <2>1. NumArgs["Population"] - 1 = 2
    BY DEF NumArgs
  <2>2. e \in [0 .. 2 -> Nat] /\ DOMAIN e = 0 .. 2
    BY <1>5, <1>8, <2>1
  <2> QED
    BY <1>3, <1>4, <1>8, <2>2 DEF Ordered, e
<1>9. CASE call.kernel = "SweepSubdomains"
  <2>1. NumArgs["SweepSubdomains"] - 1 = 4
    BY DEF NumArgs
  <2>2. e \in [0 .. 4 -> Nat] /\ DOMAIN e = 0 .. 4
    BY <1>5, <1>9, <2>1
  <2> QED
    BY <1>3, <1>4, <1>9, <2>2 DEF Ordered, e
<1> QED
  BY <1>2, <1>6, <1>7, <1>8, <1>9

(* The iterations asked for.                                               *)
LEMMA AskedFacts ==
  ASSUME CallInv
  PROVE  \A a : a \in Asked <=> /\ a \in [DOMAIN call.extent -> Nat]
                                /\ \A n \in DOMAIN call.extent : a[n] < call.extent[n]
<1> DEFINE e == call.extent
           D == DOMAIN e
           U == UNION {0 .. e[n] - 1 : n \in D}
<1>1. e \in [D -> Nat]
  BY CallFacts
<1>2. Asked = {a \in [D -> U] : \A n \in D : a[n] < e[n]}
  BY DEF Asked, IterationSpace
<1>3. U \subseteq Nat
  BY <1>1
<1>4. ASSUME NEW a \in [D -> Nat], \A n \in D : a[n] < e[n]
      PROVE  a \in [D -> U]
  <2>1. \A n \in D : a[n] \in 0 .. e[n] - 1
    BY <1>1, <1>4
  <2>2. \A n \in D : a[n] \in U
    BY <2>1
  <2> HIDE DEF U
  <2> QED
    BY <2>2
<1> HIDE DEF U
<1> QED
  BY <1>2, <1>3, <1>4

(* Every policy makes all of them.                                         *)
LEMMA AllAreMade ==
  ASSUME CallInv
  PROVE  Iterations(Nest, call.extent) = Asked
<1>1. Looped(Nest) = DOMAIN call.extent
  BY CallFacts DEF Suits
<1> QED
  BY <1>1 DEF Iterations, Asked

(* Two terms of one cell differ in an argument the policy orders and in no *)
(* other.                                                                  *)
LEMMA SharedCell ==
  ASSUME CallInv, call.kernel # "Population", NEW a \in Asked, NEW b \in Asked, a # b,
         Adds(a), Adds(b), NEW c, c \in Cells(a), c \in Cells(b)
  PROVE  \E r \in Ordered(call.kernel) :
           r \in DOMAIN call.extent /\ OnlyIn(DOMAIN call.extent, r, a, b) /\ a[r] # b[r]
<1> DEFINE D == DOMAIN call.extent
<1>1. a \in [D -> Nat] /\ b \in [D -> Nat]
      /\ \A n \in D : a[n] < call.extent[n] /\ b[n] < call.extent[n]
  BY AskedFacts
<1>2. \E n \in D : a[n] # b[n]
  BY <1>1
<1>3. CASE call.kernel = "LTimes"
  <2>1. D = 0 .. 3
    BY <1>3, CallFacts
  <2>2. a[0] = b[0] /\ a[2] = b[2] /\ a[3] = b[3]
    BY <1>3 DEF Cells, LTimesCell
  <2>3. OnlyIn(D, 1, a, b) /\ a[1] # b[1] /\ 1 \in D
    BY <1>2, <2>1, <2>2 DEF OnlyIn
  <2> QED
    BY <1>3, <2>3 DEF Ordered
<1>4. CASE call.kernel = "LPlusTimes"
  <2>1. D = 0 .. 3
    BY <1>4, CallFacts
  <2>2. a[0] = b[0] /\ a[2] = b[2] /\ a[3] = b[3]
    BY <1>4 DEF Cells, LPlusTimesCell
  <2>3. OnlyIn(D, 1, a, b) /\ a[1] # b[1] /\ 1 \in D
    BY <1>2, <2>1, <2>2 DEF OnlyIn
  <2> QED
    BY <1>4, <2>3 DEF Ordered
<1>5. CASE call.kernel = "Scattering"
  <2>1. D = 0 .. 3
    BY <1>5, CallFacts
  <2>2. a[0] = b[0] /\ a[1] = b[1] /\ a[3] = b[3]
    BY <1>5 DEF Cells, ScatteringCell
  <2>3. OnlyIn(D, 2, a, b) /\ a[2] # b[2] /\ 2 \in D
    BY <1>2, <2>1, <2>2 DEF OnlyIn
  <2> QED
    BY <1>5, <2>3 DEF Ordered
<1>6. CASE call.kernel = "Source"
  <2>1. D = 0 .. 1
    BY <1>6, CallFacts
  <2> DEFINE t == call.mixed
             i == a[1] + 1
             j == b[1] + 1
  <2>2. t \in MixTables /\ call.extent[1] = Len(t)
    BY <1>6 DEF CallInv
  <2>3. a[0] = b[0] /\ t[i].zone = t[j].zone
    BY <1>6 DEF Cells, SourceCell
  <2>4. t[i].material = 0 /\ t[j].material = 0
    BY <1>6 DEF Adds
  <2>5. i \in DOMAIN t /\ j \in DOMAIN t
    <3>1. t \in Seq([zone : Nat, material : Nat])
      BY <2>2, KernelAssumption
    <3>2. a[1] \in Nat /\ b[1] \in Nat /\ a[1] < Len(t) /\ b[1] < Len(t)
      BY <1>1, <2>1, <2>2
    <3> HIDE DEF t
    <3> QED
      BY <3>1, <3>2
  <2>6. i = j
    BY <2>2, <2>3, <2>4, <2>5, KernelAssumption
  <2>7. a[1] = b[1]
    BY <1>1, <2>1, <2>6
  <2> QED
    BY <1>2, <2>1, <2>3, <2>7
<1>7. CASE call.kernel = "SweepSubdomains"
  <2>1. D = 0 .. 4 /\ call.extent \in [D -> Nat]
    BY <1>7, CallFacts
  <2>2. PICK n \in ZoneArg, m \in ZoneArg : c = Face(a, n) /\ c = Face(b, m)
    BY <1>7 DEF Cells
  <2>3. n = m /\ a[0] = b[0] /\ a[1] = b[1]
        /\ [k \in ZoneArg \ {n} |-> Index(a, k)] = [k \in ZoneArg \ {n} |-> Index(b, k)]
    BY <2>2 DEF Face
  <2>4. ASSUME NEW k \in ZoneArg \ {n}
        PROVE  a[k] = b[k]
    <3>1. Index(a, k) = Index(b, k)
      BY <2>3
    <3>2. a[k] \in Nat /\ b[k] \in Nat /\ call.extent[k] \in Nat
      BY <1>1, <2>1 DEF ZoneArg
    <3> QED
      BY <3>1, <3>2 DEF Index
  <2>5. \A k \in D : k # n => a[k] = b[k]
    BY <2>1, <2>3, <2>4 DEF ZoneArg
  <2>6. a[n] # b[n]
    BY <1>2, <2>5
  <2>7. n \in Ordered(call.kernel) /\ n \in D
    BY <1>7, <2>1 DEF Ordered, ZoneArg
  <2> QED
    BY <2>5, <2>6, <2>7 DEF OnlyIn
<1> QED
  BY <1>3, <1>4, <1>5, <1>6, <1>7, CallFacts

(* Two terms of one cell are not left to the schedule, unless a reduction  *)
(* combines them.                                                          *)
LEMMA Comparable ==
  ASSUME CallInv, ~ Combines, NEW a \in Asked, NEW b \in Asked, a # b,
         Adds(a), Adds(b), NEW c, c \in Cells(a), c \in Cells(b)
  PROVE  Before(Nest, a, b) \/ Before(Nest, b, a)
<1> DEFINE D == DOMAIN call.extent
<1>1. \A m \in D : a[m] \in Int /\ b[m] \in Int
  BY AskedFacts
<1>2. CASE call.kernel # "Population"
  <2>1. PICK r \in Ordered(call.kernel) : r \in D /\ OnlyIn(D, r, a, b) /\ a[r] # b[r]
    BY <1>2, SharedCell
  <2>2. Suits(Nest, D, Ordered(call.kernel))
    BY CallFacts
  <2>3. OnlyIn(D, r, b, a)
    BY <2>1 DEF OnlyIn
  <2>4. CASE a[r] < b[r]
    BY <1>1, <2>1, <2>2, <2>4, OrdersBefore
  <2>5. CASE b[r] < a[r]
    BY <1>1, <2>2, <2>3, <2>5, OrdersBefore
  <2> QED
    BY <1>1, <2>1, <2>4, <2>5
<1>3. CASE call.kernel = "Population"
  <2>1. call.arch \in Arch /\ call.layout \in Layout
    BY DEF CallInv
  <2>2. call.arch = "Sequential"
    BY <1>3, <2>1 DEF Combines, ReducePolicy, Arch
  <2>3. Nest = PopulationSequential[call.layout]
    BY <1>3, <2>2 DEF Nest, ExecPolicy
  <2>4. PICK x, y, z \in 0 .. 2 : {x, y, z} = 0 .. 2
                                  /\ PopulationSequential[call.layout] = <<Loop(<<x, y, z>>)>>
    BY <2>1, PopulationInOneLoop
  <2>5. D = {x, y, z}
    BY <1>3, <2>4, CallFacts
  <2>6. \E m \in D : a[m] # b[m]
    BY AskedFacts
  <2> HIDE DEF D
  <2>7. Before(<<Loop(<<x, y, z>>)>>, a, b) \/ Before(<<Loop(<<x, y, z>>)>>, b, a)
    BY <1>1, <2>5, <2>6, OneLoopBefore
  <2> QED
    BY <2>3, <2>4, <2>7
<1> QED
  BY <1>2, <1>3

-----------------------------------------------------------------------------
(* The invariant.                                                          *)

(* The iterations in flight share no cell.                                 *)
LEMMA ApartInFlight ==
  ASSUME CallInv, TypeInv, OrderInv, NEW a \in DOMAIN loaded, NEW b \in DOMAIN loaded, a # b
  PROVE  Cells(a) \cap Cells(b) = {}
<1>1. a \in Asked \ waiting /\ b \in Asked \ waiting /\ a \in Pending /\ b \in Pending
  BY DEF TypeInv, Pending
<1>2. Adds(a) /\ Adds(b) /\ ~ Combines
  BY DEF TypeInv
<1>3. ~ Before(Nest, a, b) /\ ~ Before(Nest, b, a)
  BY <1>1 DEF OrderInv
<1> QED
  BY <1>1, <1>2, <1>3, Comparable

(* The call does not change.                                               *)
LEMMA SameCall ==
  ASSUME call' = call
  PROVE  /\ Asked' = Asked
         /\ Nest' = Nest
         /\ Combines' <=> Combines
         /\ CallInv' <=> CallInv
         /\ \A a : Cells(a)' = Cells(a) /\ (Adds(a)' <=> Adds(a))
<1>1. Asked' = Asked /\ Nest' = Nest /\ (Combines' <=> Combines) /\ (CallInv' <=> CallInv)
  BY DEF Asked, Nest, Combines, CallInv
<1>2. ASSUME NEW a
      PROVE  Cells(a)' = Cells(a) /\ (Adds(a)' <=> Adds(a))
  BY DEF Cells, Adds, LTimesCell, LPlusTimesCell, ScatteringCell, SourceCell, PopulationCell,
     Face, Index
<1> QED
  BY <1>1, <1>2

(* The term of an iteration that ends is put behind those of its cell.     *)
LEMMA TermAdded ==
  ASSUME TypeInv, OrderInv, NEW a \in Pending, Adds(a), NEW c \in DOMAIN cell, c \in Cells(a),
         CellOK(c), call' = call, Pending' = Pending \ {a}, cell'[c] = Append(cell[c], a)
  PROVE  CellOK(c)' /\ cell'[c] \in Seq(Asked \ Pending')
<1> DEFINE s == cell[c]
           t == cell'[c]
<1>1. /\ Asked' = Asked /\ Nest' = Nest
      /\ \A x : Cells(x)' = Cells(x) /\ (Adds(x)' <=> Adds(x))
  BY SameCall
<1>2. a \in Asked /\ s \in Seq(Asked \ Pending)
  BY DEF TypeInv, Pending
<1>3. t \in Seq(Asked \ Pending')
  <2>1. s \in Seq(Asked \ Pending')
    BY <1>2
  <2>2. a \in Asked \ Pending'
    BY <1>2
  <2> QED
    BY <2>1, <2>2
<1>4. DOMAIN t = DOMAIN s \cup {Len(s) + 1} /\ t[Len(s) + 1] = a
      /\ \A i \in DOMAIN s : t[i] = s[i] /\ i \in Int /\ i < Len(s) + 1
      /\ Len(s) \in Nat
  BY <1>2
<1>5. \A i \in DOMAIN s : s[i] \in Asked /\ s[i] \notin Pending
  BY <1>2
<1>6. /\ \A x \in Asked : c \in Cells(x) /\ Adds(x) => x \in Pending \/ \E i \in DOMAIN s : s[i] = x
      /\ \A i \in DOMAIN s : c \in Cells(s[i]) /\ Adds(s[i])
      /\ \A i, j \in DOMAIN s : i < j => s[i] # s[j] /\ ~ Before(Nest, s[j], s[i])
  BY DEF CellOK
<1> HIDE DEF s, t
<1>7. ASSUME NEW x \in Asked, c \in Cells(x), Adds(x)
      PROVE  x \in Pending' \/ \E i \in DOMAIN t : t[i] = x
  BY <1>4, <1>6, <1>7
<1>8. ASSUME NEW i \in DOMAIN t
      PROVE  c \in Cells(t[i]) /\ Adds(t[i])
  BY <1>4, <1>6
<1>9. ASSUME NEW i \in DOMAIN t, NEW j \in DOMAIN t, i < j
      PROVE  t[i] # t[j] /\ ~ Before(Nest, t[j], t[i])
  <2>1. i \in DOMAIN s
    BY <1>4, <1>9
  <2>2. CASE j \in DOMAIN s
    BY <1>4, <1>6, <1>9, <2>1, <2>2
  <2>3. CASE j = Len(s) + 1
    <3>1. t[j] = a /\ t[i] = s[i] /\ s[i] \in Asked \ waiting /\ s[i] \notin Pending
      BY <1>4, <1>5, <2>1, <2>3 DEF Pending
    <3>2. ~ Before(Nest, a, s[i])
      BY <3>1 DEF OrderInv
    <3> QED
      BY <3>1, <3>2
  <2> QED
    BY <1>4, <2>2, <2>3
<1>10. CellOK(c)'
  BY <1>1, <1>7, <1>8, <1>9 DEF CellOK, t
<1> QED
  BY <1>3, <1>10 DEF t

(* A cell is kept when an iteration begins, or ends that does not use it.  *)
LEMMA TermsKept ==
  ASSUME TypeInv, NEW c \in DOMAIN cell, CellOK(c), call' = call, Pending' \subseteq Pending,
         \A a \in Pending \ Pending' : ~ (c \in Cells(a) /\ Adds(a)), cell'[c] = cell[c]
  PROVE  CellOK(c)' /\ cell'[c] \in Seq(Asked \ Pending')
<1> DEFINE s == cell[c]
<1>1. /\ Asked' = Asked /\ Nest' = Nest
      /\ \A x : Cells(x)' = Cells(x) /\ (Adds(x)' <=> Adds(x))
  BY SameCall
<1>2. s \in Seq(Asked \ Pending)
  BY DEF TypeInv
<1>3. s \in Seq(Asked \ Pending')
  BY <1>2
<1>4. /\ \A x \in Asked : c \in Cells(x) /\ Adds(x) => x \in Pending' \/ \E i \in DOMAIN s : s[i] = x
      /\ \A i \in DOMAIN s : c \in Cells(s[i]) /\ Adds(s[i])
      /\ \A i, j \in DOMAIN s : i < j => s[i] # s[j] /\ ~ Before(Nest, s[j], s[i])
  BY DEF CellOK
<1>5. CellOK(c)'
  BY <1>1, <1>4 DEF CellOK
<1> QED
  BY <1>3, <1>5

LEMMA InitInd == Init => IndInv
<1> SUFFICES ASSUME Init
             PROVE  IndInv
  OBVIOUS
<1>1. CallInv
  <2>1. PICK a \in Arch, l \in Layout :
          \/ \E k \in DOMAIN NumArgs \ {"Source", "SweepSubdomains"} : \E e \in Extents[k] :
               call = Call(k, a, l, e, << >>, << >>)
          \/ \E t \in MixTables, e \in Extents["Source"] :
               e[1] = Len(t) /\ call = Call("Source", a, l, e, t, << >>)
          \/ \E e \in Extents["SweepSubdomains"], f \in [ZoneArg -> {-1, 1}] :
               call = Call("SweepSubdomains", a, l, e, << >>, f)
    BY DEF Init
  <2>2. CASE \E k \in DOMAIN NumArgs \ {"Source", "SweepSubdomains"} : \E e \in Extents[k] :
               call = Call(k, a, l, e, << >>, << >>)
    BY <2>2 DEF CallInv, Call
  <2>3. CASE \E t \in MixTables, e \in Extents["Source"] :
               e[1] = Len(t) /\ call = Call("Source", a, l, e, t, << >>)
    BY <2>3 DEF CallInv, Call, NumArgs
  <2>4. CASE \E e \in Extents["SweepSubdomains"], f \in [ZoneArg -> {-1, 1}] :
               call = Call("SweepSubdomains", a, l, e, << >>, f)
    BY <2>4 DEF CallInv, Call, NumArgs
  <2> QED
    BY <2>1, <2>2, <2>3, <2>4
<1>2. waiting = Asked /\ DOMAIN loaded = {}
  BY <1>1, AllAreMade DEF Init
<1>3. /\ DOMAIN cell = UNION {Cells(a) : a \in Asked}
      /\ \A c \in DOMAIN cell : cell[c] = << >>
  BY DEF Init
<1>4. TypeInv
  <2>1. \A c \in DOMAIN cell : cell[c] \in Seq(Asked \ Pending)
    BY <1>3, EmptySeq
  <2>2. waiting \subseteq Asked /\ DOMAIN loaded \subseteq Asked \ waiting
        /\ \A a \in DOMAIN loaded : Adds(a)
    BY <1>2
  <2> QED
    BY <1>2, <1>3, <2>1, <2>2 DEF TypeInv
<1>5. OrderInv
  BY <1>2 DEF OrderInv
<1>6. CellInv
  <2> SUFFICES ASSUME NEW c \in DOMAIN cell
               PROVE  CellOK(c)
    BY DEF CellInv
  <2>1. DOMAIN cell[c] = {}
    BY <1>3
  <2> QED
    BY <1>2, <2>1 DEF CellOK, Pending
<1>7. LoadedInv
  BY <1>2 DEF LoadedInv
<1> QED
  BY <1>1, <1>4, <1>5, <1>6, <1>7 DEF IndInv

LEMMA LoadInd ==
  ASSUME IndInv, NEW a \in waiting, Load(a)
  PROVE  IndInv'
<1>1. /\ CallInv /\ TypeInv /\ OrderInv /\ CellInv /\ LoadedInv
      /\ call' = call /\ cell' = cell /\ waiting' = waiting \ {a}
      /\ Adds(a) /\ ~ Combines
      /\ \A b \in Pending : ~ Before(Nest, b, a)
  BY DEF IndInv, Load, MayRun, Pending
<1>2. /\ CallInv' /\ ~ Combines' /\ Asked' = Asked /\ Nest' = Nest
      /\ \A b : Cells(b)' = Cells(b) /\ (Adds(b)' <=> Adds(b))
  BY <1>1, SameCall
<1>3. /\ a \in Asked /\ a \notin DOMAIN loaded
      /\ waiting \subseteq Asked /\ DOMAIN loaded \subseteq Asked \ waiting
      /\ \A b \in DOMAIN loaded : Adds(b)
      /\ DOMAIN cell = UNION {Cells(b) : b \in Asked}
  BY <1>1 DEF TypeInv
<1>4. /\ DOMAIN loaded' = DOMAIN loaded \cup {a}
      /\ loaded'[a] = [c \in Cells(a) |-> cell[c]]
      /\ \A b \in DOMAIN loaded : loaded'[b] = loaded[b]
  BY <1>3 DEF Load
<1>5. Pending' = Pending
  BY <1>1, <1>4 DEF Pending
<1>6. \A c \in DOMAIN cell : CellOK(c)' /\ cell'[c] \in Seq(Asked \ Pending')
  <2> TAKE c \in DOMAIN cell
  <2>1. CellOK(c) /\ cell'[c] = cell[c]
    BY <1>1 DEF CellInv
  <2> QED
    BY <1>1, <1>5, <2>1, TermsKept
<1>7. TypeInv'
  <2>1. DOMAIN cell' = UNION {Cells(b)' : b \in Asked'}
    BY <1>1, <1>2, <1>3
  <2>2. \A b \in DOMAIN loaded' : Adds(b)'
    BY <1>1, <1>2, <1>3, <1>4
  <2> QED
    BY <1>1, <1>2, <1>3, <1>4, <1>6, <2>1, <2>2 DEF TypeInv
<1>8. OrderInv'
  BY <1>1, <1>2, <1>5 DEF OrderInv
<1>9. CellInv'
  BY <1>1, <1>6 DEF CellInv
<1>10. LoadedInv'
  <2>1. \A b \in DOMAIN loaded' : /\ DOMAIN loaded'[b] = Cells(b)
                                  /\ \A c \in Cells(b) : loaded'[b][c] = cell[c]
    BY <1>1, <1>4 DEF LoadedInv
  <2> QED
    BY <1>1, <1>2, <2>1 DEF LoadedInv
<1> QED
  BY <1>2, <1>7, <1>8, <1>9, <1>10 DEF IndInv

LEMMA StoreInd ==
  ASSUME IndInv, NEW a \in DOMAIN loaded, Store(a)
  PROVE  IndInv'
<1>1. /\ CallInv /\ TypeInv /\ OrderInv /\ CellInv /\ LoadedInv
      /\ call' = call /\ waiting' = waiting
      /\ loaded' = [b \in DOMAIN loaded \ {a} |-> loaded[b]]
  BY DEF IndInv, Store
<1>2. /\ CallInv' /\ (Combines' <=> Combines) /\ Asked' = Asked /\ Nest' = Nest
      /\ \A b : Cells(b)' = Cells(b) /\ (Adds(b)' <=> Adds(b))
  BY <1>1, SameCall
<1>3. /\ a \in Pending /\ Adds(a) /\ a \notin waiting /\ ~ Combines
      /\ waiting \subseteq Asked /\ DOMAIN loaded \subseteq Asked \ waiting
      /\ \A b \in DOMAIN loaded : Adds(b)
      /\ DOMAIN cell = UNION {Cells(b) : b \in Asked}
  BY <1>1 DEF TypeInv, Pending
<1>4. /\ DOMAIN loaded' = DOMAIN loaded \ {a}
      /\ \A b \in DOMAIN loaded' : loaded'[b] = loaded[b]
  BY <1>1
<1>5. Pending' = Pending \ {a}
  BY <1>1, <1>3, <1>4 DEF Pending
<1>6. DOMAIN cell' = DOMAIN cell
  BY DEF Store
<1>7. \A c \in DOMAIN cell : cell'[c] = IF c \in Cells(a) THEN Append(cell[c], a) ELSE cell[c]
  <2>1. \A c \in Cells(a) : loaded[a][c] = cell[c]
    BY <1>1 DEF LoadedInv
  <2> QED
    BY <2>1 DEF Store
<1>8. \A c \in DOMAIN cell : CellOK(c)' /\ cell'[c] \in Seq(Asked \ Pending')
  <2> TAKE c \in DOMAIN cell
  <2>1. CellOK(c)
    BY <1>1 DEF CellInv
  <2>2. CASE c \in Cells(a)
    BY <1>1, <1>3, <1>5, <1>7, <2>1, <2>2, TermAdded
  <2>3. CASE c \notin Cells(a)
    <3>1. \A b \in Pending \ Pending' : ~ (c \in Cells(b) /\ Adds(b))
      BY <1>5, <2>3
    <3>2. cell'[c] = cell[c] /\ Pending' \subseteq Pending
      BY <1>5, <1>7, <2>3
    <3> QED
      BY <1>1, <2>1, <3>1, <3>2, TermsKept
  <2> QED
    BY <2>2, <2>3
<1>9. TypeInv'
  <2>1. DOMAIN cell' = UNION {Cells(b)' : b \in Asked'}
    BY <1>2, <1>3, <1>6
  <2>2. \A b \in DOMAIN loaded' : Adds(b)'
    BY <1>2, <1>3, <1>4
  <2> QED
    BY <1>1, <1>2, <1>3, <1>4, <1>6, <1>8, <2>1, <2>2 DEF TypeInv
<1>10. OrderInv'
  BY <1>1, <1>2, <1>5 DEF OrderInv
<1>11. CellInv'
  BY <1>6, <1>8 DEF CellInv
<1>12. LoadedInv'
  <2>1. ASSUME NEW b \in DOMAIN loaded', NEW c \in Cells(b)
        PROVE  loaded'[b][c] = cell'[c]
    <3>1. b \in DOMAIN loaded /\ b # a /\ loaded'[b] = loaded[b] /\ b \in Asked
      BY <1>3, <1>4
    <3>2. Cells(a) \cap Cells(b) = {}
      BY <1>1, <3>1, ApartInFlight
    <3>3. c \in DOMAIN cell
      BY <1>3, <3>1
    <3>4. cell'[c] = cell[c]
      BY <1>7, <3>2, <3>3
    <3>5. loaded[b][c] = cell[c]
      BY <1>1, <3>1 DEF LoadedInv
    <3> QED
      BY <3>1, <3>4, <3>5
  <2>2. \A b \in DOMAIN loaded' : DOMAIN loaded'[b] = Cells(b)
    BY <1>1, <1>4 DEF LoadedInv
  <2> QED
    BY <1>2, <2>1, <2>2 DEF LoadedInv
<1> QED
  BY <1>2, <1>9, <1>10, <1>11, <1>12 DEF IndInv

LEMMA CombineInd ==
  ASSUME IndInv, NEW a \in waiting, Combine(a)
  PROVE  IndInv'
<1>1. /\ CallInv /\ TypeInv /\ OrderInv /\ CellInv /\ LoadedInv
      /\ call' = call /\ waiting' = waiting \ {a} /\ loaded' = loaded /\ Combines
      /\ \A b \in Pending : ~ Before(Nest, b, a)
  BY DEF IndInv, Combine, MayRun, Pending
<1>2. /\ CallInv' /\ Combines' /\ Asked' = Asked /\ Nest' = Nest
      /\ \A b : Cells(b)' = Cells(b) /\ (Adds(b)' <=> Adds(b))
  BY <1>1, SameCall
<1>3. /\ a \in Pending /\ a \in Asked /\ DOMAIN loaded = {}
      /\ waiting \subseteq Asked
      /\ DOMAIN cell = UNION {Cells(b) : b \in Asked}
  BY <1>1 DEF TypeInv, Pending
<1>4. Pending' = Pending \ {a}
  BY <1>1, <1>3 DEF Pending
<1>5. Adds(a) /\ \A b : Cells(b) = {PopulationCell}
  BY <1>1 DEF Combines, Adds, Cells
<1>6. DOMAIN cell = {PopulationCell}
  BY <1>3, <1>5
<1>7. DOMAIN cell' = DOMAIN cell /\ \A c \in DOMAIN cell : cell'[c] = Append(cell[c], a)
  BY <1>6 DEF Combine
<1>8. \A c \in DOMAIN cell : CellOK(c)' /\ cell'[c] \in Seq(Asked \ Pending')
  <2> TAKE c \in DOMAIN cell
  <2>1. CellOK(c) /\ c \in Cells(a) /\ cell'[c] = Append(cell[c], a)
    BY <1>1, <1>5, <1>6, <1>7 DEF CellInv
  <2> QED
    BY <1>1, <1>3, <1>4, <1>5, <2>1, TermAdded
<1>9. TypeInv'
  <2>1. DOMAIN cell' = UNION {Cells(b)' : b \in Asked'}
    BY <1>2, <1>3, <1>7
  <2> QED
    BY <1>1, <1>2, <1>3, <1>7, <1>8, <2>1 DEF TypeInv
<1>10. OrderInv'
  BY <1>1, <1>2, <1>4 DEF OrderInv
<1>11. CellInv'
  BY <1>7, <1>8 DEF CellInv
<1>12. LoadedInv'
  BY <1>1, <1>3 DEF LoadedInv
<1> QED
  BY <1>2, <1>9, <1>10, <1>11, <1>12 DEF IndInv

LEMMA SkipInd ==
  ASSUME IndInv, NEW a \in waiting, Skip(a)
  PROVE  IndInv'
<1>1. /\ CallInv /\ TypeInv /\ OrderInv /\ CellInv /\ LoadedInv
      /\ call' = call /\ waiting' = waiting \ {a} /\ loaded' = loaded /\ cell' = cell
      /\ ~ Adds(a)
      /\ \A b \in Pending : ~ Before(Nest, b, a)
  BY DEF IndInv, Skip, MayRun, Pending
<1>2. /\ CallInv' /\ (Combines' <=> Combines) /\ Asked' = Asked /\ Nest' = Nest
      /\ \A b : Cells(b)' = Cells(b) /\ (Adds(b)' <=> Adds(b))
  BY <1>1, SameCall
<1>3. /\ a \in Pending /\ a \notin DOMAIN loaded
      /\ waiting \subseteq Asked /\ DOMAIN loaded \subseteq Asked \ waiting
      /\ DOMAIN loaded # {} => ~ Combines
      /\ \A b \in DOMAIN loaded : Adds(b)
      /\ DOMAIN cell = UNION {Cells(b) : b \in Asked}
  BY <1>1 DEF TypeInv, Pending
<1>4. Pending' = Pending \ {a}
  BY <1>1, <1>3 DEF Pending
<1>5. \A c \in DOMAIN cell : CellOK(c)' /\ cell'[c] \in Seq(Asked \ Pending')
  <2> TAKE c \in DOMAIN cell
  <2>1. CellOK(c) /\ cell'[c] = cell[c]
    BY <1>1 DEF CellInv
  <2>2. Pending' \subseteq Pending /\ \A b \in Pending \ Pending' : ~ Adds(b)
    BY <1>1, <1>4
  <2> QED
    BY <1>1, <2>1, <2>2, TermsKept
<1>6. TypeInv'
  <2>1. DOMAIN cell' = UNION {Cells(b)' : b \in Asked'}
    BY <1>1, <1>2, <1>3
  <2> QED
    BY <1>1, <1>2, <1>3, <1>5, <2>1 DEF TypeInv
<1>7. OrderInv'
  BY <1>1, <1>2, <1>4 DEF OrderInv
<1>8. CellInv'
  BY <1>1, <1>5 DEF CellInv
<1>9. LoadedInv'
  BY <1>1, <1>2 DEF LoadedInv
<1> QED
  BY <1>2, <1>6, <1>7, <1>8, <1>9 DEF IndInv

LEMMA StepInd == IndInv /\ [Next]_vars => IndInv'
<1> SUFFICES ASSUME IndInv, [Next]_vars
             PROVE  IndInv'
  OBVIOUS
<1>1. ASSUME NEW a \in waiting, Load(a)
      PROVE  IndInv'
  BY <1>1, LoadInd
<1>2. ASSUME NEW a \in waiting, Combine(a)
      PROVE  IndInv'
  BY <1>2, CombineInd
<1>3. ASSUME NEW a \in waiting, Skip(a)
      PROVE  IndInv'
  BY <1>3, SkipInd
<1>4. ASSUME NEW a \in DOMAIN loaded, Store(a)
      PROVE  IndInv'
  BY <1>4, StoreInd
<1>5. ASSUME UNCHANGED vars
      PROVE  IndInv'
  <2>1. CallInv /\ TypeInv /\ OrderInv /\ CellInv /\ LoadedInv
        /\ call' = call /\ waiting' = waiting /\ loaded' = loaded /\ cell' = cell
    BY <1>5 DEF IndInv, vars
  <2>2. /\ CallInv' /\ (Combines' <=> Combines) /\ Asked' = Asked /\ Nest' = Nest
        /\ \A b : Cells(b)' = Cells(b) /\ (Adds(b)' <=> Adds(b))
    BY <2>1, SameCall
  <2>3. Pending' = Pending
    BY <2>1 DEF Pending
  <2>4. TypeInv'
    <3>1. UNION {Cells(b)' : b \in Asked'} = UNION {Cells(b) : b \in Asked}
      BY <2>2
    <3> QED
      BY <2>1, <2>2, <2>3, <3>1 DEF TypeInv
  <2>5. OrderInv'
    BY <2>1, <2>2, <2>3 DEF OrderInv
  <2>6. CellInv'
    BY <2>1, <2>2, <2>3 DEF CellInv, CellOK
  <2>7. LoadedInv'
    BY <2>1, <2>2 DEF LoadedInv
  <2> QED
    BY <2>2, <2>4, <2>5, <2>6, <2>7 DEF IndInv
<1> QED
  BY <1>1, <1>2, <1>3, <1>4, <1>5 DEF Next, Done

(* The invariant of a kernel call.                                         *)
THEOREM KernelInvariant == Spec => []IndInv
<1> QED
  BY InitInd, StepInd, PTL DEF Spec

-----------------------------------------------------------------------------
(* The properties.                                                         *)

(* No two iterations in flight use one cell: no update is lost and there   *)
(* is no data race, under every policy of Arch/*.h.                        *)
THEOREM WritersStayApart == Spec => []OneWriterPerCell
<1>1. IndInv => OneWriterPerCell
  BY ApartInFlight DEF IndInv, OneWriterPerCell
<1> QED
  BY <1>1, KernelInvariant, PTL

(* A sequence without repetitions has as many values as places.            *)
LEMMA DistinctTerms ==
  ASSUME NEW S, NEW s \in Seq(S), \A i, j \in DOMAIN s : i < j => s[i] # s[j]
  PROVE  Cardinality(Range(s)) = Len(s)
<1>1. Len(s) \in Nat /\ DOMAIN s = 1 .. Len(s)
  OBVIOUS
<1>2. IsFiniteSet(1 .. Len(s)) /\ Cardinality(1 .. Len(s)) = Len(s)
  BY <1>1, FS_Interval
<1>3. \A i, j \in 1 .. Len(s) : s[i] = s[j] => i = j
  BY <1>1
<1>4. s \in [1 .. Len(s) -> Range(s)]
  BY <1>1 DEF Range
<1>5. s \in Injection(1 .. Len(s), Range(s))
  BY <1>3, <1>4 DEF Injection, IsInjective
<1>6. s \in Surjection(1 .. Len(s), Range(s))
  BY <1>1, <1>4 DEF Surjection, Range
<1>7. ExistsBijection(1 .. Len(s), Range(s))
  BY <1>5, <1>6 DEF ExistsBijection, Bijection
<1> QED
  BY <1>2, <1>7, FS_Bijection

(* When the kernel returns, every iteration asked for has added its term   *)
(* to its cells, exactly once.                                             *)
THEOREM EveryTermOnce == Spec => []NothingLost
<1>1. ASSUME IndInv, Returned, NEW c \in DOMAIN cell
      PROVE  /\ \A a \in Asked : c \in Cells(a) /\ Adds(a) => a \in Range(cell[c])
             /\ Cardinality(Range(cell[c])) = Len(cell[c])
  <2>1. TypeInv /\ CellOK(c)
    BY <1>1 DEF IndInv, CellInv
  <2>2. Pending = {}
    BY <1>1 DEF Returned, Pending
  <2>3. cell[c] \in Seq(Asked \ Pending)
    BY <2>1 DEF TypeInv
  <2>4. \A i, j \in DOMAIN cell[c] : i < j => cell[c][i] # cell[c][j]
    BY <2>1 DEF CellOK
  <2>5. Cardinality(Range(cell[c])) = Len(cell[c])
    BY <2>3, <2>4, DistinctTerms
  <2>6. \A a \in Asked : c \in Cells(a) /\ Adds(a) => a \in Range(cell[c])
    BY <2>1, <2>2 DEF CellOK, Range
  <2> QED
    BY <2>5, <2>6
<1>2. IndInv => NothingLost
  BY <1>1 DEF NothingLost
<1> QED
  BY <1>2, KernelInvariant, PTL

(* The terms of a cell are in one order only, that of its reduced argument.*)
LEMMA TermsInOrder ==
  ASSUME IndInv, call.kernel # "Population", NEW c \in DOMAIN cell,
         NEW i \in DOMAIN cell[c], NEW j \in DOMAIN cell[c], i < j
  PROVE  \E r \in Ordered(call.kernel) :
           /\ r \in DOMAIN call.extent
           /\ OnlyIn(DOMAIN call.extent, r, cell[c][i], cell[c][j])
           /\ cell[c][i][r] < cell[c][j][r]
<1> DEFINE a == cell[c][i]
           b == cell[c][j]
           D == DOMAIN call.extent
<1>1. CallInv /\ TypeInv /\ CellOK(c)
  BY DEF IndInv, CellInv
<1>2. a \in Asked /\ b \in Asked
  BY <1>1 DEF TypeInv
<1>3. /\ c \in Cells(a) /\ Adds(a) /\ c \in Cells(b) /\ Adds(b)
      /\ a # b /\ ~ Before(Nest, b, a)
  BY <1>1 DEF CellOK
<1> HIDE DEF a, b
<1>4. PICK r \in Ordered(call.kernel) : r \in D /\ OnlyIn(D, r, a, b) /\ a[r] # b[r]
  BY <1>1, <1>2, <1>3, SharedCell
<1>5. \A m \in D : a[m] \in Int /\ b[m] \in Int
  BY <1>1, <1>2, AskedFacts
<1>6. Suits(Nest, D, Ordered(call.kernel)) /\ OnlyIn(D, r, b, a)
  BY <1>1, <1>4, CallFacts DEF OnlyIn
<1>7. ~ b[r] < a[r]
  BY <1>3, <1>4, <1>5, <1>6, OrdersBefore
<1>8. a[r] < b[r]
  BY <1>4, <1>5, <1>7
<1> QED
  BY <1>4, <1>8 DEF a, b

(* The terms of a cell are added in the order of the sequential build,     *)
(* whatever the architecture, the layout and the schedule.                 *)
THEOREM SumsAgree == Spec => []SameSumEverywhere
<1>1. ASSUME IndInv, call.kernel # "Population", NEW c \in DOMAIN cell,
             NEW i \in DOMAIN cell[c], NEW j \in DOMAIN cell[c], i < j
      PROVE  \E n \in DOMAIN call.extent :
               /\ cell[c][i][n] < cell[c][j][n]
               /\ \A m \in 0 .. n - 1 : cell[c][i][m] <= cell[c][j][m]
  <2> DEFINE a == cell[c][i]
             b == cell[c][j]
             D == DOMAIN call.extent
  <2>1. PICK r \in D : OnlyIn(D, r, a, b) /\ a[r] < b[r]
    BY <1>1, TermsInOrder
  <2>2. CallInv /\ a \in Asked
    BY <1>1 DEF IndInv, TypeInv
  <2> HIDE DEF a, b
  <2>3. PICK k \in Nat : D = 0 .. k
    BY <2>2, CallFacts
  <2>4. \A m \in D : a[m] \in Nat
    BY <2>2, AskedFacts
  <2>5. ASSUME NEW m \in 0 .. r - 1
        PROVE  a[m] <= b[m]
    <3>1. m \in D /\ m # r
      BY <2>1, <2>3, <2>5
    <3>2. a[m] = b[m] /\ a[m] \in Nat
      BY <2>1, <2>4, <3>1 DEF OnlyIn
    <3> QED
      BY <3>2
  <2> QED
    BY <2>1, <2>5 DEF a, b
<1>2. IndInv => SameSumEverywhere
  BY <1>1 DEF SameSumEverywhere
<1> QED
  BY <1>2, KernelInvariant, PTL

(* A zone of the sweep is computed from what its upwind neighbours left in *)
(* the planes.  Had the neighbour not been over, the policy would not have *)
(* let the zone begin; had another zone passed the cell on since, it would *)
(* lie behind this one.                                                    *)
THEOREM UpwindIsRead == Spec => []ReadsUpwind
<1>1. ASSUME IndInv, call.kernel = "SweepSubdomains", NEW a \in DOMAIN loaded, NEW n \in ZoneArg
      PROVE  LET read == loaded[a][Face(a, n)]
             IN  IF UpwindIndex(a, n) \in 0 .. call.extent[n] - 1
                   THEN read # << >> /\ Index(read[Len(read)], n) = UpwindIndex(a, n)
                   ELSE read = << >>
  <2> DEFINE D == DOMAIN call.extent
             c == Face(a, n)
             s == cell[c]
  <2>1. CallInv /\ TypeInv /\ OrderInv /\ CellInv /\ LoadedInv
    BY <1>1 DEF IndInv
  <2>2. /\ D = 0 .. 4 /\ call.extent \in [D -> Nat]
        /\ Suits(Nest, D, Ordered(call.kernel)) /\ Ordered(call.kernel) = {2, 3, 4}
    BY <1>1, <2>1, CallFacts DEF Ordered
  <2>3. call.flag \in [ZoneArg -> {-1, 1}]
    BY <1>1, <2>1 DEF CallInv
  <2>4. n \in D /\ n \in {2, 3, 4} /\ n \in Int /\ call.flag[n] \in {-1, 1} /\ call.extent[n] \in Nat
    BY <2>2, <2>3 DEF ZoneArg
  <2>5. a \in Asked \ waiting /\ a \in Pending /\ Adds(a)
    BY <2>1 DEF TypeInv, Pending
  <2>6. a \in [D -> Nat] /\ \A m \in D : a[m] < call.extent[m]
    BY <2>1, <2>5, AskedFacts
  <2>7. c \in Cells(a)
    BY <1>1 DEF Cells
  <2>8. c \in DOMAIN cell /\ loaded[a][c] = s
    BY <2>1, <2>5, <2>7 DEF TypeInv, LoadedInv
  <2>9. CellOK(c) /\ s \in Seq(Asked \ Pending)
    BY <2>1, <2>8 DEF CellInv, TypeInv
  <2>10. \A x : Adds(x)
    BY <1>1 DEF Adds
  (* The zones along the cell: a itself, those before it, and no other.    *)
  <2>11. ASSUME NEW x \in Asked, c \in Cells(x)
         PROVE  OnlyIn(D, n, x, a)
    <3>1. x \in [D -> Nat]
      BY <2>1, <2>11, AskedFacts
    <3>2. PICK m \in ZoneArg : c = Face(x, m)
      BY <1>1, <2>11 DEF Cells
    <3>3. m = n /\ x[0] = a[0] /\ x[1] = a[1]
          /\ [k \in ZoneArg \ {n} |-> Index(x, k)] = [k \in ZoneArg \ {n} |-> Index(a, k)]
      BY <3>2 DEF Face
    <3>4. ASSUME NEW k \in ZoneArg \ {n}
          PROVE  x[k] = a[k]
      <4>1. Index(x, k) = Index(a, k)
        BY <3>3
      <4>2. x[k] \in Nat /\ a[k] \in Nat /\ call.extent[k] \in Nat
        BY <2>2, <2>6, <3>1 DEF ZoneArg
      <4> QED
        BY <4>1, <4>2 DEF Index
    <3> QED
      BY <2>2, <3>3, <3>4 DEF OnlyIn, ZoneArg
  <2>12. \A i \in DOMAIN s : s[i] \in Asked /\ s[i] \notin Pending /\ c \in Cells(s[i])
    BY <2>9 DEF CellOK
  <2>13. \A x \in Asked : \A m \in D : x[m] \in Int
    BY <2>1, AskedFacts
  <2> HIDE DEF c, s, D
  <2>14. ASSUME NEW i \in DOMAIN s
         PROVE  s[i][n] < a[n]
    <3> DEFINE x == s[i]
    <3>1. x \in Asked /\ x \notin Pending /\ OnlyIn(D, n, x, a)
      BY <2>11, <2>12
    <3>2. x # a
      BY <2>5, <3>1
    <3>3. x[n] # a[n]
      <4>1. x \in [D -> Nat]
        BY <2>1, <3>1, AskedFacts DEF D
      <4> HIDE DEF x
      <4> QED
        BY <2>6, <3>1, <3>2, <4>1 DEF OnlyIn
    <3>4. ~ Before(Nest, a, x)
      BY <2>1, <2>5, <3>1 DEF OrderInv, Pending
    <3>5. OnlyIn(D, n, a, x)
      BY <3>1 DEF OnlyIn
    <3> HIDE DEF x
    <3>6. ~ a[n] < x[n]
      BY <2>2, <2>4, <2>5, <2>13, <3>1, <3>4, <3>5, OrdersBefore
    <3>7. x[n] < a[n]
      BY <2>4, <2>5, <2>13, <3>1, <3>3, <3>6
    <3> QED
      BY <3>7 DEF x
  <2>15. UpwindIndex(a, n) \in 0 .. call.extent[n] - 1 <=> a[n] > 0
    <3>1. a[n] \in Nat /\ a[n] < call.extent[n]
      BY <2>4, <2>6
    <3>2. call.flag[n] = 1 \/ call.flag[n] = -1
      BY <2>4
    <3> QED
      BY <2>4, <3>1, <3>2 DEF UpwindIndex, Index
  <2>16. CASE a[n] > 0
    <3> DEFINE u == [a EXCEPT ![n] = a[n] - 1]
    <3>1. a[n] \in Nat /\ a[n] < call.extent[n]
      BY <2>4, <2>6
    <3>2. u \in [D -> Nat] /\ u[n] = a[n] - 1 /\ \A m \in D : m # n => u[m] = a[m]
      BY <2>4, <2>6, <2>16, <3>1
    <3> HIDE DEF u
    <3>3. u \in Asked
      <4>1. \A m \in D : u[m] < call.extent[m]
        BY <2>2, <2>4, <2>6, <3>1, <3>2
      <4> QED
        BY <2>1, <3>2, <4>1, AskedFacts DEF D
    <3>4. Face(u, n) = c
      <4>1. u[0] = a[0] /\ u[1] = a[1]
        BY <2>2, <2>4, <3>2
      <4>2. \A k \in ZoneArg \ {n} : u[k] = a[k]
        BY <2>2, <3>2 DEF ZoneArg
      <4>3. \A k \in ZoneArg \ {n} : Index(u, k) = Index(a, k)
        BY <4>2 DEF Index
      <4> QED
        BY <4>1, <4>3 DEF Face, c
    <3>5. c \in Cells(u)
      BY <1>1, <3>4 DEF Cells
    <3>6. OnlyIn(D, n, u, a) /\ u[n] < a[n]
      BY <3>1, <3>2 DEF OnlyIn
    <3>7. Before(Nest, u, a)
      BY <2>2, <2>4, <2>5, <2>13, <3>3, <3>6, OrdersBefore
    <3>8. u \notin Pending
      BY <2>1, <2>5, <3>7 DEF OrderInv
    <3>9. PICK i \in DOMAIN s : s[i] = u
      BY <2>9, <2>10, <3>3, <3>5, <3>8 DEF CellOK, s
    <3>10. Len(s) \in DOMAIN s /\ s # << >> /\ i <= Len(s)
      BY <2>9, <3>9
    <3> DEFINE v == s[Len(s)]
    <3>11. v \in Asked /\ OnlyIn(D, n, v, a) /\ v[n] < a[n]
      BY <2>11, <2>12, <2>14, <3>10
    <3>12. v[n] >= u[n]
      <4>1. CASE i = Len(s)
        BY <2>4, <2>13, <3>3, <3>9, <4>1
      <4>2. CASE i # Len(s)
        <5>1. i < Len(s)
          BY <2>9, <3>9, <3>10, <4>2
        <5>2. ~ Before(Nest, v, u)
          BY <2>9, <3>9, <3>10, <5>1 DEF CellOK, s
        <5>3. OnlyIn(D, n, v, u)
          BY <3>6, <3>11 DEF OnlyIn
        <5> HIDE DEF v
        <5>4. ~ v[n] < u[n]
          BY <2>2, <2>4, <2>13, <3>3, <3>11, <5>2, <5>3, OrdersBefore
        <5> QED
          BY <2>4, <2>13, <3>3, <3>11, <5>4
      <4> QED
        BY <4>1, <4>2
    <3> HIDE DEF v
    <3>13. v[n] = a[n] - 1
      BY <2>4, <2>13, <3>1, <3>2, <3>11, <3>12
    <3>14. Index(v, n) = UpwindIndex(a, n)
      <4>1. call.flag[n] = 1 \/ call.flag[n] = -1
        BY <2>4
      <4> QED
        BY <2>4, <3>1, <3>13, <4>1 DEF UpwindIndex, Index
    <3> QED
      BY <2>8, <2>15, <2>16, <3>10, <3>14 DEF v, s, c
  <2>17. CASE ~ a[n] > 0
    <3>1. a[n] = 0
      BY <2>4, <2>6, <2>17
    <3>2. \A i \in DOMAIN s : FALSE
      <4> TAKE i \in DOMAIN s
      <4>1. s[i] \in [D -> Nat]
        BY <2>1, <2>12, AskedFacts DEF D
      <4>2. s[i][n] \in Nat
        BY <2>4, <4>1
      <4> QED
        BY <2>14, <3>1, <4>2
    <3>3. s = << >>
      <4>1. Len(s) \in Nat /\ DOMAIN s = 1 .. Len(s)
        BY <2>9
      <4>2. 1 \notin 1 .. Len(s)
        BY <3>2, <4>1
      <4>3. Len(s) = 0
        BY <4>1, <4>2
      <4> QED
        BY <2>9, <4>3, EmptySeq
    <3> QED
      BY <2>8, <2>15, <2>17, <3>3 DEF s, c
  <2> QED
    BY <2>16, <2>17
<1>2. IndInv => ReadsUpwind
  BY <1>1 DEF ReadsUpwind
<1> QED
  BY <1>2, KernelInvariant, PTL

=============================================================================
