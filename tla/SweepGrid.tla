----------------------------- MODULE SweepGrid ------------------------------
(***************************************************************************)
(* The subdomain graph that PartitionSpace and the quadrature generator    *)
(* build: a box of ranks times a box of zone sets per rank, once for every *)
(* pair of a group set and a direction set.                                *)
(*                                                                         *)
(* The graph is defined on global coordinates, and its nodes are then      *)
(* named by ids, the row-major linearisation of the coordinates.           *)
(***************************************************************************)
EXTENDS Dimension

CONSTANTS
  NumSets,     \* group sets times direction sets
  NumRanks,    \* --procs: ranks along each dimension
  NumZoneSets, \* --zset: zone sets of a rank along each dimension
  SweepDir     \* signs (id, jd, kd) of a direction set's first direction

GridParameters ==
  /\ NumSets \in Nat \ {0}
  /\ NumRanks \in [Dim -> Nat \ {0}]
  /\ NumZoneSets \in [Dim -> Nat \ {0}]
  /\ SweepDir \in [0 .. NumSets - 1 -> [Dim -> {-1, 1}]]

ASSUME GridAssumption == GridParameters

-----------------------------------------------------------------------------
(* On coordinates.                                                         *)

GlobalNumSdom(d) == NumRanks[d] * NumZoneSets[d]

InRange(d, x) == 0 <= x /\ x < GlobalNumSdom(d)

RankCoord == {c \in [Dim -> Nat] : \A d \in Dim : c[d] < NumRanks[d]}

(* Zone sets are dealt to the ranks in blocks (scanSumLong).               *)
RankOf(c) == [d \in Dim |-> c.at[d] \div NumZoneSets[d]]

Move(c, d, step) == [c EXCEPT !.at[d] = @ + step]

Inside(c) == \A d \in Dim : InRange(d, c.at[d])

SdomCoord ==
  {c \in [set : 0 .. NumSets - 1, at : [Dim -> Int]] : Inside(c)}

Upwind(c, d) == Move(c, d, - SweepDir[c.set][d])

Downwind(c, d) == Move(c, d, SweepDir[c.set][d])

-----------------------------------------------------------------------------
(* On ids.                                                                 *)

(* Row-major linearisation of x in a box of extents n, and its inverse.    *)
Linear(n, x) == (x[0] * n[1] + x[1]) * n[2] + x[2]

Point(n, i) ==
  [d \in Dim |-> CASE d = 0 -> (i \div (n[1] * n[2])) % n[0]
                   [] d = 1 -> (i \div n[2]) % n[1]
                   [] d = 2 -> i % n[2]]

Volume(n) == n[0] * n[1] * n[2]

GlobalExtents == [d \in Dim |-> GlobalNumSdom(d)]

GlobalSdomId(c) == c.set * Volume(GlobalExtents) + Linear(GlobalExtents, c.at)

IdToCoord(i) ==
  [set |-> i \div Volume(GlobalExtents), at |-> Point(GlobalExtents, i % Volume(GlobalExtents))]

(* Out of range in the moved dimension: a boundary condition.              *)
IdOf(c) == IF Inside(c) THEN GlobalSdomId(c) ELSE NoSdom

SdomIds == 0 .. NumSets * Volume(GlobalExtents) - 1

RankIds == 0 .. Volume(NumRanks) - 1

ownerOf == [i \in SdomIds |-> Linear(NumRanks, RankOf(IdToCoord(i)))]

upwindOf == [i \in SdomIds |-> [d \in Dim |-> IdOf(Upwind(IdToCoord(i), d))]]

downwindOf == [i \in SdomIds |-> [d \in Dim |-> IdOf(Downwind(IdToCoord(i), d))]]

=============================================================================
