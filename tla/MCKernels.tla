----------------------------- MODULE MCKernels ------------------------------
(***************************************************************************)
(* Kernels with small extents.                                             *)
(***************************************************************************)
EXTENDS Kernels

El(z, m) == [zone |-> z, material |-> m]

(* Two zones: pure; one of two materials, both of two, one of three; and   *)
(* none of material 0.                                                     *)
TwoZones == {
  <<El(0, 0), El(1, 0)>>,
  <<El(0, 0), El(0, 1), El(1, 2)>>,
  <<El(0, 0), El(0, 1), El(1, 0), El(1, 2)>>,
  <<El(0, 0), El(0, 1), El(0, 2), El(1, 0)>>,
  <<El(0, 1), El(1, 2)>>}

(* Up to three turns of a loop, and four iterations.                       *)
Accumulating(args) ==
  {e \in [0 .. args - 1 -> 1 .. 3] : Cardinality(IterationSpace(e)) <= 4}

(* Two to four mixed elements, in one group or two.                        *)
SourceExtents == {e \in [0 .. 1 -> 1 .. 4] : e[0] <= 2 /\ e[1] >= 2 /\ e[0] * e[1] <= 6}

Shape(d, g, k, j, i) ==
  [n \in 0 .. 4 |-> CASE n = 0 -> d [] n = 1 -> g [] n = 2 -> k [] n = 3 -> j [] n = 4 -> i]

(* Every plane is swept across, hyperplanes of up to three zones, two      *)
(* directions and two groups.                                              *)
SmallShapes ==
  {Shape(1, 1, 2, 2, 2), Shape(1, 1, 1, 3, 3), Shape(1, 1, 3, 1, 2),
   Shape(2, 1, 1, 2, 2), Shape(1, 2, 2, 2, 1)}

SmallExtents ==
  [k \in DOMAIN NumArgs |->
     CASE k = "Source" -> SourceExtents
       [] k = "SweepSubdomains" -> SmallShapes
       [] OTHER -> Accumulating(NumArgs[k])]

=============================================================================
