--------------------------- MODULE SubdomainGraph ---------------------------
(***************************************************************************)
(* The static structure a sweep runs on.  Every process (MPI rank) owns    *)
(* some subdomains; a subdomain is a set of groups, a set of directions    *)
(* and a box of zones.  Fields "upwind" and "downwind" give, for each of   *)
(* the three dimensions, the global id of the neighbour the subdomain      *)
(* receives its boundary plane from and of the one it sends it to, or -1   *)
(* at the boundary of the mesh.  All of it is computed once, before the    *)
(* first iteration, and never written again: hence CONSTANTS.              *)
(*                                                                         *)
(* The assumptions are what the communication code relies on.  Module      *)
(* SweepGrid builds the graph the way the generators do and shows that     *)
(* they hold there.                                                        *)
(***************************************************************************)
EXTENDS Dimension

CONSTANTS
  Sdom,      \* global subdomain ids
  Rank,      \* ranks of MPI_COMM_WORLD
  owner,     \* GlobalSdomId2Rank
  upwind,    \* field "upwind"
  downwind   \* field "downwind"

Ownership ==
  /\ owner \in [Sdom -> Rank]
  /\ \A r \in Rank : \E s \in Sdom : owner[s] = r

Neighbours ==
  /\ NoSdom \notin Sdom
  /\ upwind \in [Sdom -> [Dim -> Sdom \cup {NoSdom}]]
  /\ downwind \in [Sdom -> [Dim -> Sdom \cup {NoSdom}]]

(* A downwind edge is the upwind edge of the subdomain at its other end.   *)
Mirrored ==
  \A s, t \in Sdom : \A d \in Dim : downwind[s][d] = t <=> upwind[t][d] = s

(* No subdomain is its own neighbour.                                      *)
Irreflexive ==
  \A s \in Sdom : \A d \in Dim : upwind[s][d] # s

HasUpwind(s, d) == upwind[s][d] # NoSdom

HasDownwind(s, d) == downwind[s][d] # NoSdom

LocalEdge(s, t) == owner[s] = owner[t]

(* The planes of subdomain s that arrive in an MPI message.                *)
RemoteUpwind(s, d) == HasUpwind(s, d) /\ ~ LocalEdge(s, upwind[s][d])

(* Two planes of one subdomain never come from the same foreign rank: all  *)
(* messages to a subdomain carry the same tag (its id), so this is what    *)
(* makes their (source, tag) envelopes distinct.                           *)
DistinctSources ==
  \A s \in Sdom : \A d, e \in Dim :
    /\ d # e
    /\ RemoteUpwind(s, d)
    /\ RemoteUpwind(s, e)
    => owner[upwind[s][d]] # owner[upwind[s][e]]

ASSUME GraphAssumption ==
  Ownership /\ Neighbours /\ Mirrored /\ Irreflexive /\ DistinctSources

Owned(r) == {s \in Sdom : owner[s] = r}

=============================================================================
