----------------------------- MODULE Dimension ------------------------------
(***************************************************************************)
(* The three spatial dimensions and the id that stands for "no neighbour". *)
(***************************************************************************)
EXTENDS Integers

CONSTANT NoSdom    \* the id -1

Dim == 0 .. 2

(* Cardinality of a set of dimensions, spelled out.                        *)
Count(D) ==
  (IF 0 \in D THEN 1 ELSE 0) + (IF 1 \in D THEN 1 ELSE 0) + (IF 2 \in D THEN 1 ELSE 0)

=============================================================================
