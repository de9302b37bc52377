---------------------------- MODULE MCDevicePool ----------------------------
(***************************************************************************)
(* DevicePool on small problems: sizes whose bytes are multiples of 16 and *)
(* sizes whose bytes are not.                                              *)
(***************************************************************************)
EXTENDS DevicePool, TLC

(* Two group sets, three direction sets, zone sets in x and z.             *)
SetsPQXZ == (0 :> 2) @@ (1 :> 3) @@ (2 :> 2) @@ (3 :> 1) @@ (4 :> 2)

Problem(i, j, k, g, n, order, a, b) ==
  [zones |-> (0 :> i) @@ (1 :> j) @@ (2 :> k), groups |-> g, directions |-> n,
   legendre_order |-> order,
   mixed |-> [c \in Chunks("R") |-> IF c = 0 THEN a ELSE b]]

SmallProblems ==
  {Problem(1, 1, 1, 1, 1, 0, 1, 3), Problem(3, 1, 1, 1, 1, 1, 5, 3),
   Problem(2, 3, 1, 3, 1, 2, 6, 18), Problem(3, 5, 3, 1, 3, 0, 46, 45)}

=============================================================================
