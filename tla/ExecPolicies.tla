---------------------------- MODULE ExecPolicies ----------------------------
(***************************************************************************)
(* The execution policies of the kernels, for every architecture and data  *)
(* layout: the tables of Arch/*.h.  The comment in front of a kernel's     *)
(* tables names its arguments.  Nested GPU block and thread loops are one  *)
(* Parallel level.                                                         *)
(***************************************************************************)
EXTENDS LoopNest

Layout == {"DGZ", "DZG", "GDZ", "GZD", "ZDG", "ZGD"}

Arch == {"Sequential", "OpenMP", "CUDA", "HIP"}

Kernel == {"SweepSubdomains", "LTimes", "LPlusTimes", "Scattering", "Source", "Population"}

AllLayouts(nest) == [l \in Layout |-> nest]

-----------------------------------------------------------------------------
(* SweepSubdomains: 0 direction, 1 group, 2 k, 3 j, 4 i.                   *)

SweepSequential == [
  DGZ |-> <<Loop(<<0, 1, 2, 3, 4>>)>>,
  DZG |-> <<Loop(<<0, 2, 3, 4, 1>>)>>,
  GDZ |-> <<Loop(<<1, 0, 2, 3, 4>>)>>,
  GZD |-> <<Loop(<<1, 2, 3, 4, 0>>)>>,
  ZDG |-> <<Loop(<<2, 3, 4, 0, 1>>)>>,
  ZGD |-> <<Loop(<<2, 3, 4, 1, 0>>)>>]

SweepOpenMP == [
  DGZ |-> <<Parallel(<<0, 1>>), Loop(<<2, 3, 4>>)>>,
  DZG |-> <<Parallel(<<0>>), Loop(<<2, 3, 4, 1>>)>>,
  GDZ |-> <<Parallel(<<1, 0>>), Loop(<<2, 3, 4>>)>>,
  GZD |-> <<Parallel(<<1>>), Loop(<<2, 3, 4, 0>>)>>,
  ZDG |-> <<Hyperplane(<<2, 3, 4>>), Loop(<<0, 1>>)>>,
  ZGD |-> <<Hyperplane(<<2, 3, 4>>), Loop(<<1, 0>>)>>]

SweepCUDA == AllLayouts(<<Parallel(<<0, 1>>), Hyperplane(<<2, 3, 4>>)>>)

SweepHIP == AllLayouts(<<Parallel(<<0, 1>>), Hyperplane(<<2, 3, 4>>)>>)

-----------------------------------------------------------------------------
(* LTimes: 0 moment, 1 direction, 2 group, 3 zone.                         *)

LTimesSequential == [
  DGZ |-> <<Loop(<<0, 1, 2, 3>>)>>,
  DZG |-> <<Loop(<<0, 1, 3, 2>>)>>,
  GDZ |-> <<Loop(<<2, 0, 1, 3>>)>>,
  GZD |-> <<Loop(<<2, 3, 0, 1>>)>>,
  ZDG |-> <<Loop(<<3, 0, 1, 2>>)>>,
  ZGD |-> <<Loop(<<3, 2, 0, 1>>)>>]

LTimesOpenMP == [
  DGZ |-> <<Parallel(<<0, 2>>), Loop(<<1, 3>>)>>,
  DZG |-> <<Parallel(<<0, 3>>), Loop(<<1, 2>>)>>,
  GDZ |-> <<Parallel(<<2, 0>>), Loop(<<1, 3>>)>>,
  GZD |-> <<Parallel(<<2, 3, 0>>), Loop(<<1>>)>>,
  ZDG |-> <<Parallel(<<3, 0>>), Loop(<<1, 2>>)>>,
  ZGD |-> <<Parallel(<<3, 2>>), Loop(<<0, 1>>)>>]

LTimesCUDA == AllLayouts(<<Parallel(<<0, 2, 3>>), Loop(<<1>>)>>)

LTimesHIP == AllLayouts(<<Parallel(<<0, 2, 3>>), Loop(<<1>>)>>)

-----------------------------------------------------------------------------
(* LPlusTimes: 0 direction, 1 moment, 2 group, 3 zone.                     *)

LPlusTimesSequential == [
  DGZ |-> <<Loop(<<0, 1, 2, 3>>)>>,
  DZG |-> <<Loop(<<0, 1, 3, 2>>)>>,
  GDZ |-> <<Loop(<<2, 0, 1, 3>>)>>,
  GZD |-> <<Loop(<<2, 3, 0, 1>>)>>,
  ZDG |-> <<Loop(<<3, 0, 1, 2>>)>>,
  ZGD |-> <<Loop(<<3, 2, 0, 1>>)>>]

LPlusTimesOpenMP == [
  DGZ |-> <<Parallel(<<0, 2>>), Loop(<<1, 3>>)>>,
  DZG |-> <<Parallel(<<0, 3>>), Loop(<<1, 2>>)>>,
  GDZ |-> <<Parallel(<<2, 0>>), Loop(<<1, 3>>)>>,
  GZD |-> <<Parallel(<<2, 3, 0>>), Loop(<<1>>)>>,
  ZDG |-> <<Parallel(<<3, 0>>), Loop(<<1, 2>>)>>,
  ZGD |-> <<Parallel(<<3, 2, 0>>), Loop(<<1>>)>>]

LPlusTimesCUDA == AllLayouts(<<Parallel(<<0, 2, 3>>), Loop(<<1>>)>>)

LPlusTimesHIP == AllLayouts(<<Parallel(<<0, 2, 3>>), Loop(<<1>>)>>)

-----------------------------------------------------------------------------
(* Scattering: 0 moment, 1 destination group, 2 source group, 3 zone.      *)

ScatteringSequential == [
  DGZ |-> <<Loop(<<0, 1, 2, 3>>)>>,
  DZG |-> <<Loop(<<0, 3, 1, 2>>)>>,
  GDZ |-> <<Loop(<<1, 2, 0, 3>>)>>,
  GZD |-> <<Loop(<<1, 2, 3, 0>>)>>,
  ZDG |-> <<Loop(<<3, 0, 1, 2>>)>>,
  ZGD |-> <<Loop(<<3, 1, 2, 0>>)>>]

ScatteringOpenMP == [
  DGZ |-> <<Parallel(<<0, 1>>), Loop(<<2, 3>>)>>,
  DZG |-> <<Parallel(<<0, 3, 1>>), Loop(<<2>>)>>,
  GDZ |-> <<Parallel(<<1, 0>>), Loop(<<2, 3>>)>>,
  GZD |-> <<Parallel(<<1, 3>>), Loop(<<2, 0>>)>>,
  ZDG |-> <<Parallel(<<3, 0, 1>>), Loop(<<2>>)>>,
  ZGD |-> <<Parallel(<<3, 1>>), Loop(<<2, 0>>)>>]

(* Mutant: source groups over threads, too.                                *)
ScatteringCUDA_AllParallel == AllLayouts(<<Parallel(<<0, 1, 3, 2>>)>>)

ScatteringCUDA == AllLayouts(<<Parallel(<<0, 1, 3>>), Loop(<<2>>)>>)

ScatteringHIP == AllLayouts(<<Parallel(<<0, 1, 3>>), Loop(<<2>>)>>)

-----------------------------------------------------------------------------
(* Source: 0 group, 1 mixed element.                                       *)

SourceSequential == AllLayouts(<<Loop(<<0, 1>>)>>)

SourceOpenMP == [
  l \in Layout |-> <<Parallel(IF l \in {"DGZ", "GDZ", "GZD"} THEN <<0, 1>> ELSE <<1, 0>>)>>]

SourceCUDA == AllLayouts(<<Parallel(<<0, 1>>)>>)

SourceHIP == AllLayouts(<<Parallel(<<0, 1>>)>>)

-----------------------------------------------------------------------------
(* Population: 0 direction, 1 group, 2 zone; with a reduction policy.      *)

ReducePolicy == [
  Sequential |-> "seq_reduce", OpenMP |-> "omp_reduce",
  CUDA |-> "cuda_reduce", HIP |-> "hip_reduce"]

(* Mutant: the loop over the groups is missing in one layout.              *)
PopulationSequential_NoGroups == [
  DGZ |-> <<Loop(<<0, 1, 2>>)>>,
  DZG |-> <<Loop(<<0, 2>>)>>,
  GDZ |-> <<Loop(<<1, 0, 2>>)>>,
  GZD |-> <<Loop(<<1, 2, 0>>)>>,
  ZDG |-> <<Loop(<<2, 0, 1>>)>>,
  ZGD |-> <<Loop(<<2, 1, 0>>)>>]

PopulationSequential == [
  DGZ |-> <<Loop(<<0, 1, 2>>)>>,
  DZG |-> <<Loop(<<0, 2, 1>>)>>,
  GDZ |-> <<Loop(<<1, 0, 2>>)>>,
  GZD |-> <<Loop(<<1, 2, 0>>)>>,
  ZDG |-> <<Loop(<<2, 0, 1>>)>>,
  ZGD |-> <<Loop(<<2, 1, 0>>)>>]

PopulationOpenMP == [
  DGZ |-> <<Parallel(<<0, 1>>), Loop(<<2>>)>>,
  DZG |-> <<Parallel(<<0, 2>>), Loop(<<1>>)>>,
  GDZ |-> <<Parallel(<<1, 0>>), Loop(<<2>>)>>,
  GZD |-> <<Parallel(<<1, 2>>), Loop(<<0>>)>>,
  ZDG |-> <<Parallel(<<2, 0>>), Loop(<<1>>)>>,
  ZGD |-> <<Parallel(<<2, 1>>), Loop(<<0>>)>>]

PopulationCUDA == AllLayouts(<<Parallel(<<0, 1, 2>>)>>)

PopulationHIP == AllLayouts(<<Parallel(<<0, 1, 2>>)>>)

-----------------------------------------------------------------------------
(* ExecPolicy of a kernel: dispatch selects it by the run-time values of   *)
(* al_v, as does each kernel's Policy_<kernel><AL>.                        *)
ExecPolicy == [
  SweepSubdomains |-> [Sequential |-> SweepSequential, OpenMP |-> SweepOpenMP,
                       CUDA |-> SweepCUDA, HIP |-> SweepHIP],
  LTimes |-> [Sequential |-> LTimesSequential, OpenMP |-> LTimesOpenMP,
              CUDA |-> LTimesCUDA, HIP |-> LTimesHIP],
  LPlusTimes |-> [Sequential |-> LPlusTimesSequential, OpenMP |-> LPlusTimesOpenMP,
                  CUDA |-> LPlusTimesCUDA, HIP |-> LPlusTimesHIP],
  Scattering |-> [Sequential |-> ScatteringSequential, OpenMP |-> ScatteringOpenMP,
                  CUDA |-> ScatteringCUDA, HIP |-> ScatteringHIP],
  Source |-> [Sequential |-> SourceSequential, OpenMP |-> SourceOpenMP,
              CUDA |-> SourceCUDA, HIP |-> SourceHIP],
  Population |-> [Sequential |-> PopulationSequential, OpenMP |-> PopulationOpenMP,
                  CUDA |-> PopulationCUDA, HIP |-> PopulationHIP]]

=============================================================================
