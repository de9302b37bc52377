--------------------------- MODULE MCPlaneMemory ----------------------------
(***************************************************************************)
(* PlaneMemory on a rank with two zone sets, one behind the other in x.    *)
(***************************************************************************)
EXTENDS PlaneMemory, TLC

CONSTANTS a, b, c, d

(* Two opposite direction sets, a and b in the one, c and d in the other;  *)
(* the rank is at the corner of the plane where the one leaves.            *)
CornerUp == (a :> (0 :> Remote @@ 1 :> Remote @@ 2 :> NoSdom))
         @@ (b :> (0 :> a @@ 1 :> Remote @@ 2 :> NoSdom))
         @@ (c :> (0 :> NoSdom @@ 1 :> NoSdom @@ 2 :> NoSdom))
         @@ (d :> (0 :> c @@ 1 :> NoSdom @@ 2 :> NoSdom))

CornerDown == (a :> (0 :> b @@ 1 :> NoSdom @@ 2 :> NoSdom))
           @@ (b :> (0 :> NoSdom @@ 1 :> NoSdom @@ 2 :> NoSdom))
           @@ (c :> (0 :> d @@ 1 :> Remote @@ 2 :> NoSdom))
           @@ (d :> (0 :> Remote @@ 1 :> Remote @@ 2 :> NoSdom))

(* Every build, with either method.                                        *)
AllBuilds == {"host", "staged", "aware", "direct"} \X {"sweep", "bj"}

=============================================================================
