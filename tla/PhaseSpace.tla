----------------------------- MODULE PhaseSpace -----------------------------
(***************************************************************************)
(* The subdomains of one rank: a box over the five dimensions of phase     *)
(* space (0 P energy, 1 Q direction, 2 Rx, 3 Ry, 4 Rz), and its            *)
(* projections onto the spaces of PartitionSpace.  A variable defined over *)
(* a space has one chunk of storage for each of the local subdomains of    *)
(* that space; subdomains that agree in all its dimensions share a chunk.  *)
(***************************************************************************)
EXTENDS Integers, FiniteSetsExt

CONSTANT NumLocal    \* SP, SQ, Sx, Sy, Sz: subdomains of a rank by dimension

Axis5 == 0 .. 4

ASSUME LocalAssumption == NumLocal \in [Axis5 -> Nat \ {0}]

(* enum SPACE, by the dimensions a space spans.                            *)
AxesOf == [
  P |-> {0}, Q |-> {1}, RX |-> {2}, RY |-> {3}, RZ |-> {4},
  R |-> {2, 3, 4}, PR |-> {0, 2, 3, 4}, PQR |-> Axis5, NULL |-> {}]

Space == DOMAIN AxesOf

-----------------------------------------------------------------------------
(* RAJA::Layout<5>: row-major, and dimensions of extent 0 are left out.    *)

OrOne(x) == IF x = 0 THEN 1 ELSE x

(* Elements between neighbours in dimension a; in the box for a = -1.      *)
Run(n, a) ==
  (IF a < 0 THEN OrOne(n[0]) ELSE 1) * (IF a < 1 THEN OrOne(n[1]) ELSE 1) *
  (IF a < 2 THEN OrOne(n[2]) ELSE 1) * (IF a < 3 THEN OrOne(n[3]) ELSE 1) *
  (IF a < 4 THEN OrOne(n[4]) ELSE 1)

Volume(n) == Run(n, -1)

Along(n, idx, a) == IF n[a] = 0 THEN 0 ELSE idx[a] * Run(n, a)

Linearize(n, idx) ==
  Along(n, idx, 0) + Along(n, idx, 1) + Along(n, idx, 2) + Along(n, idx, 3) + Along(n, idx, 4)

ToIndices(n, id) ==
  [a \in Axis5 |-> (id \div (IF n[a] = 0 THEN 1 ELSE Run(n, a))) % OrOne(n[a])]

-----------------------------------------------------------------------------
(* PartitionSpace on one rank.                                             *)

(* m_local_sdom_space_layout, m_local_num_sdom                             *)
LocalLayout(space) == [a \in Axis5 |-> IF a \in AxesOf[space] THEN NumLocal[a] ELSE 0]

NumSubdomains(space) == Volume(LocalLayout(space))

LocalSdom == 0 .. NumSubdomains("PQR") - 1

SdomIdToCoord(s) == ToIndices(LocalLayout("PQR"), s)

SubdomainToSpace(space, s) == Linearize(LocalLayout(space), SdomIdToCoord(s))

SpaceToSubdomain(space, c) ==
  Linearize(LocalLayout("PQR"), ToIndices(LocalLayout(space), c))

-----------------------------------------------------------------------------
(* DomainVar: the chunks of a variable over a space.                       *)

ChunkOf(space, s) == SubdomainToSpace(space, s)

Chunks(space) == 0 .. NumSubdomains(space) - 1

(* m_work_list: one subdomain for each chunk, in the order of the chunks.  *)
WorkList(space) == [c \in Chunks(space) |-> SpaceToSubdomain(space, c)]

=============================================================================
