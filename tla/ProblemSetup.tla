---------------------------- MODULE ProblemSetup ----------------------------
(***************************************************************************)
(* From the command line to the directions of a problem: the input check   *)
(* InputVariables::checkValues, the partition into subdomains, the         *)
(* quadrature set and its distribution over direction sets.  Every rank    *)
(* computes this alike from the same input, so one process stands for all. *)
(*                                                                         *)
(* Of a direction only its flags (id, jd, kd) are kept, the signs of its   *)
(* cosines: they decide the octant, and the flags of the first direction   *)
(* of a set decide the neighbours and the traversal of all its subdomains  *)
(* (SweepDir in SweepGrid).                                                *)
(***************************************************************************)
EXTENDS Integers, FiniteSets

CONSTANT Inputs    \* command lines

(* zset is the smallest number of zone sets in a dimension, pool the value *)
(* of --dev_pool_size or NoPool.  polar and azim are 0 unless --quad names *)
(* them, and then their product is dirs.                                   *)
NoPool == -1000

InputVariables ==
  [zset : Int, groups : Int, gset : Int, dirs : Int, dset : Int, legendre : Int,
   niter : Int, pool : Int, polar : Int, azim : Int]

ASSUME InputAssumption ==
  /\ Inputs \subseteq InputVariables
  /\ \A v \in Inputs : v.polar # 0 \/ v.azim # 0 => v.dirs = v.polar * v.azim

VARIABLES
  input,      \* vars
  phase,      \* how far the program is
  direction   \* directions, by index

vars == <<input, phase, direction>>

Axis == 0 .. 2

Flags == [Axis -> {-1, 0, 1}]

(* Types; a problem that is set up has as many directions as asked for     *)
(* (the resize in createQuadratureSet).                                    *)
TypeOK ==
  /\ input \in Inputs
  /\ phase \in {"start", "checked", "rejected", "crashed", "partitioned", "aborted", "ready"}
  /\ direction \in [IF phase = "ready" THEN 0 .. input.dirs - 1 ELSE {} -> Flags]

Init ==
  /\ input \in Inputs
  /\ phase = "start"
  /\ direction = [i \in {} |-> [a \in Axis |-> 0]]

-----------------------------------------------------------------------------
(* InputVariables::checkValues.                                            *)

(* ~ (n % d) in C++, where d may be negative.                              *)
Divides(d, n) == n % (IF d < 0 THEN -d ELSE d) = 0

(* The checks in front of the first and of the second division.            *)
BadGroups(v) == v.zset <= 0 \/ v.groups < 1

BadDirections(v) ==
  \/ ~ Divides(v.gset, v.groups)
  \/ v.dirs < 8
  \/ ~ Divides(8, v.dset) /\ v.dset < 8

BadRest(v) ==
  \/ ~ Divides(v.dset, v.dirs)
  \/ v.legendre < 0
  \/ v.niter < 1
  \/ v.pool # NoPool /\ v.pool <= 0

(* Mutant: fewer sets than octants pass.                                   *)
Verdict_AnyDirset(v) ==
  CASE BadGroups(v) -> "rejected"
    [] ~ BadGroups(v) /\ v.gset = 0 -> "crashed"
    [] ~ BadGroups(v) /\ v.gset # 0 ->
         IF ~ Divides(v.gset, v.groups) \/ v.dirs < 8 THEN "rejected"
         ELSE IF v.dset = 0 THEN "crashed"
         ELSE IF BadRest(v) THEN "rejected" ELSE "checked"

(* % by zero is a crash.                                                   *)
Verdict(v) ==
  CASE BadGroups(v) -> "rejected"
    [] ~ BadGroups(v) /\ v.gset = 0 -> "crashed"
    [] ~ BadGroups(v) /\ v.gset # 0 ->
         IF BadDirections(v) THEN "rejected"
         ELSE IF v.dset = 0 THEN "crashed"
         ELSE IF BadRest(v) THEN "rejected" ELSE "checked"

CheckValues ==
  /\ phase = "start"
  /\ phase' = Verdict(input)
  /\ UNCHANGED <<input, direction>>

-----------------------------------------------------------------------------
(* The subdomains of a rank and the sets over them.  The counts are        *)
(* converted to size_t, and a vector is resized to their product, or else  *)
(* to each of them.  A negative count that the check has let through makes *)
(* one of these vectors longer than any can be: std::length_error, which   *)
(* nothing catches.                                                        *)
CreateSubdomains ==
  /\ phase = "checked"
  /\ phase' = IF input.gset < 0 \/ input.dset < 0 THEN "crashed" ELSE "partitioned"
  /\ UNCHANGED <<input, direction>>

-----------------------------------------------------------------------------
(* createQuadratureSet.                                                    *)

Sign(positive) == IF positive THEN 1 ELSE -1

(* Bit a of octant.                                                        *)
Bit(octant, a) == (octant \div (IF a = 0 THEN 1 ELSE IF a = 1 THEN 2 ELSE 4)) % 2

OctantFlags(octant) == [a \in Axis |-> Sign(Bit(octant, a) = 1)]

(* Mutant: the division by the 8 octants is rounded up.                    *)
PerOctant_RoundedUp(v) == (v.dirs + 8) \div 8

PerOctant(v) == v.dirs \div 8

(* The fake S2 set: equally many directions for each octant, in the order  *)
(* of the octants; what is left keeps the zeros of resize.                 *)
FakeSet(v) ==
  [i \in 0 .. v.dirs - 1 |->
     IF i < 8 * PerOctant(v)
       THEN OctantFlags(i \div PerOctant(v))
       ELSE [a \in Axis |-> 0]]

(* The Gauss-Legendre set.  The polar cosines ascend and are symmetric;    *)
(* azimuth j is at the angle (2j + 1) / azim of half a turn.  At a quarter *)
(* and three quarters of a turn the cosine is zero but for rounding, and   *)
(* its sign, sgn, is that of the rounding error.                           *)
PolarSet(v, sgn) ==
  [i \in 0 .. v.dirs - 1 |->
     LET p == i \div v.azim
         j == i % v.azim
     IN  [a \in Axis |->
           CASE a = 0 /\ 4 * j + 2 = v.azim -> sgn[1]
             [] a = 0 /\ 4 * j + 2 = 3 * v.azim -> sgn[2]
             [] a = 0 /\ 4 * j + 2 # v.azim /\ 4 * j + 2 # 3 * v.azim ->
                  Sign(4 * j + 2 < v.azim \/ 4 * j + 2 > 3 * v.azim)
             [] a = 1 -> Sign(2 * j + 1 < v.azim)
             [] a = 2 -> Sign(2 * p >= v.polar)]]

(* The field octant of a Gauss-Legendre direction.                         *)
Octant(f) ==
  (IF f[0] = -1 THEN 1 ELSE 0) + (IF f[1] = -1 THEN 2 ELSE 0) + (IF f[2] = -1 THEN 4 ELSE 0)

(* Mutant: not sorted.                                                     *)
SortedByOctant_Unsorted(dir) == dir

(* std::sort with dirSortFcn: by descending octant.  The flags of a        *)
(* direction are determined by its octant.                                 *)
SortedByOctant(dir) ==
  LET Above(o) == Cardinality({i \in DOMAIN dir : Octant(dir[i]) > o})
      OctantAt(i) == CHOOSE o \in 0 .. 7 : Above(o) <= i /\ (o = 0 \/ i < Above(o - 1))
  IN  [i \in DOMAIN dir |-> [a \in Axis |-> Sign(Bit(OctantAt(i), a) = 0)]]

(* The assertions on a Gauss-Legendre set.                                 *)
WellFormed(v) == v.polar % 4 = 0 /\ v.azim % 2 = 0 /\ v.polar * v.azim = v.dirs

CreateQuadratureSet ==
  /\ phase = "partitioned"
  /\ \/ /\ input.polar <= 0
        /\ phase' = "ready"
        /\ direction' = FakeSet(input)
     \/ /\ input.polar > 0
        /\ WellFormed(input)
        /\ phase' = "ready"
        /\ \E sgn \in [1 .. 2 -> {-1, 1}] :
             direction' = SortedByOctant(PolarSet(input, sgn))
     \/ /\ input.polar > 0
        /\ ~ WellFormed(input)
        /\ phase' = "aborted"
        /\ UNCHANGED direction
  /\ UNCHANGED input

(* The program goes on with this problem, or has exited.                   *)
Over == phase \notin {"start", "checked", "partitioned"} /\ UNCHANGED vars

Next == CheckValues \/ CreateSubdomains \/ CreateQuadratureSet \/ Over

Spec == Init /\ [][Next]_vars

-----------------------------------------------------------------------------
(* Properties.                                                             *)

(* Directions of a direction set, and the directions of set q              *)
(* (generateQuadrature, the chunks of Set/Direction).                      *)
SetSize == input.dirs \div input.dset

(* Groups of a group set (generateEnergy).                                 *)
GroupSetSize == input.groups \div input.gset

DirectionsOf(q) == q * SetSize .. q * SetSize + SetSize - 1

SetIds == 0 .. input.dset - 1

(* The condition the solver needs of its input and does not check.         *)
Aligned ==
  /\ input.dset % 8 = 0
  /\ input.polar > 0 => input.azim % 4 = 0

(* The directions of a set all lie in one octant, that of the set's first  *)
(* direction, which alone decides the neighbours and the traversal.        *)
OneOctantIfAligned ==
  phase = "ready" /\ Aligned =>
    \A q \in SetIds : \A i \in DirectionsOf(q) : direction[i] = direction[q * SetSize]

(* All octants get equally many direction sets: no sweep direction is      *)
(* missing, and the signs are the ones SweepGrid assumes.                  *)
OctantsBalanced ==
  phase = "ready" /\ Aligned =>
    \A f \in [Axis -> {-1, 1}] :
      8 * Cardinality({q \in SetIds : direction[q * SetSize] = f}) = input.dset

(* A problem that is set up has at least one direction set per octant and  *)
(* one group set, whatever their numbers were on the command line, and     *)
(* sets of equal size, none of them empty, take up all directions and      *)
(* groups.                                                                 *)
EnoughSets ==
  phase = "ready" =>
    /\ input.dset >= 8 /\ SetSize >= 1 /\ SetSize * input.dset = input.dirs
    /\ input.gset >= 1 /\ GroupSetSize >= 1 /\ GroupSetSize * input.gset = input.groups

(* InputVariables.cpp: "Number of direction sets (%d) must be a multiple   *)
(* of 8", of every input that passes the check.                            *)
DirsetsAreMultipleOf8 ==
  phase \in {"checked", "partitioned", "ready"} => input.dset % 8 = 0

(* Quadrature.cpp on the quadrature set: "This guarantees that each        *)
(* <GS,DS> pair have a single originating octant."                         *)
SingleOriginatingOctant ==
  phase = "ready" =>
    \A q \in SetIds : \A i, j \in DirectionsOf(q) : direction[i] = direction[j]

-----------------------------------------------------------------------------
(* The inductive invariant.                                                *)

(* An input goes on only when checkValues has found nothing wrong with it. *)
Accepted == phase \in {"checked", "partitioned", "ready"} => Verdict(input) = "checked"

(* No negative count gets past the partition.                              *)
Partitioned == phase \in {"partitioned", "ready"} => input.gset >= 0 /\ input.dset >= 0

(* The directions are one of the two quadrature sets for the input.        *)
Built ==
  phase = "ready" =>
    \/ input.polar <= 0 /\ direction = FakeSet(input)
    \/ /\ input.polar > 0
       /\ WellFormed(input)
       /\ \E sgn \in [1 .. 2 -> {-1, 1}] : direction = SortedByOctant(PolarSet(input, sgn))

IndInv == TypeOK /\ Accepted /\ Partitioned /\ Built

=============================================================================
