---------------------------- MODULE MCFieldFlow -----------------------------
(***************************************************************************)
(* FieldFlow on sixteen subdomains.                                        *)
(***************************************************************************)
EXTENDS FieldFlow, TLC

(* Two group sets, two direction sets, and zone sets in x and z.           *)
SetsPQXZ == (0 :> 2) @@ (1 :> 2) @@ (2 :> 2) @@ (3 :> 1) @@ (4 :> 2)

=============================================================================
