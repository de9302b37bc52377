------------------------------ MODULE MCSetup -------------------------------
(***************************************************************************)
(* ProblemSetup on small command lines.                                    *)
(***************************************************************************)
EXTENDS ProblemSetup

Valid == [zset |-> 1, groups |-> 2, gset |-> 1, dirs |-> 8, dset |-> 8, legendre |-> 0,
          niter |-> 1, pool |-> NoPool, polar |-> 0, azim |-> 0]

(* The fake set, with sets that divide the octants evenly or not.          *)
FakeInputs ==
  {[Valid EXCEPT !.dirs = n, !.dset = q] :
     n \in {7, 8, 12, 16, 24, 36, 48}, q \in {0, 1, 4, 8, 12, 16, 24}}

(* Gauss-Legendre sets.                                                    *)
PolarInputs ==
  {[Valid EXCEPT !.dirs = p * a, !.polar = p, !.azim = a, !.dset = q] :
     p \in {2, 4, 8}, a \in {1, 2, 4, 6, 8}, q \in {8, 12, 16}}

(* One field out of its range each.                                        *)
BadInputs ==
  {[Valid EXCEPT !.zset = 0], [Valid EXCEPT !.groups = 0], [Valid EXCEPT !.gset = 0],
   [Valid EXCEPT !.gset = 3], [Valid EXCEPT !.legendre = -1], [Valid EXCEPT !.niter = 0],
   [Valid EXCEPT !.pool = 0], [Valid EXCEPT !.pool = 4],
   [Valid EXCEPT !.polar = -4, !.azim = -2]}

(* Negative numbers of sets, of which some pass the check.                 *)
NegativeInputs ==
  {[Valid EXCEPT !.dirs = 24, !.gset = g, !.dset = q] :
     g \in {-3, -2, -1, 1}, q \in {-12, -8, -4, 8}}

AllInputs == FakeInputs \cup PolarInputs \cup BadInputs \cup NegativeInputs

(* Inputs with as many direction sets as the check's message asks for.     *)
PolarAsDocumented == {v \in PolarInputs : v.dset % 8 = 0}

=============================================================================
