----------------------------- MODULE DevicePool -----------------------------
(***************************************************************************)
(* Device memory of one rank in a build with CHAI and a device: main sizes *)
(* the Umpire pool before anything is allocated, by counting the arrays    *)
(* of the fields the generators and the block Jacobi communicator will     *)
(* create; the data store then owns the fields.                            *)
(*                                                                         *)
(* Fields with a policy for the host (directions as integers, neighbours)  *)
(* and the tables of the partition are on the host.  The pool (external)   *)
(* takes multiples of 16 bytes and starts with the size it is given, less  *)
(* what MemoryManager takes off.  A ManagedArray (external) keeps its      *)
(* memory until free() is called.                                          *)
(***************************************************************************)
EXTENDS PhaseSpace, Sequences

CONSTANTS
  Inputs,    \* sizes of the sets of a chunk, moments, mixed elements
  Methods,   \* PMETHOD_SWEEP, PMETHOD_BJ
  NumIter    \* niter

Dim == 0 .. 2

ASSUME PoolAssumption ==
  /\ Inputs \subseteq [zones : [Dim -> Nat \ {0}], groups : Nat \ {0},
                       directions : Nat \ {0}, legendre_order : Nat,
                       mixed : [Chunks("R") -> Nat]]
  /\ Methods \subseteq {"sweep", "bj"}
  /\ NumIter \in Nat \ {0}

VARIABLES
  input,    \* input_vars
  method,   \* parallel_method
  direct,   \* KRIPKE_USE_DIRECT_UMPIRE_PLANE_STORAGE
  phase,    \* generate, sweep, or threw
  todo,     \* fields to create before that
  iter,     \* sweeps done
  names,    \* keys of m_vars
  used      \* bytes of the pool in use

poolVars == <<input, method, direct, phase, todo, iter, names, used>>

-----------------------------------------------------------------------------
(* The fields: createField with the set a field spans.                     *)

Zones == input.zones[0] * input.zones[1] * input.zones[2]

Moments == (input.legendre_order + 1) * (input.legendre_order + 1)

(* A range set has its own size for each chunk, a product set the product. *)
Field(name, space, bytes, size) ==
  [name |-> name, space |-> space, bytes |-> bytes, size |-> size]

Even(space, size) == [c \in Chunks(space) |-> size]

ByDirection(name) == Field(name, "Q", 8, Even("Q", input.directions))

ByMixElem(name) == Field(name, "R", 8, input.mixed)

OnFace(name, a, b) ==
  Field(name, "PQR", 8, Even("PQR",
        input.directions * input.groups * input.zones[a] * input.zones[b]))

QuadratureFields == <<
  Field("moment_to_legendre", "NULL", 8, Even("NULL", Moments)),
  ByDirection("quadrature/xcos"), ByDirection("quadrature/ycos"),
  ByDirection("quadrature/zcos"), ByDirection("quadrature/w"),
  Field("ell", "Q", 8, Even("Q", Moments * input.directions)),
  Field("ell_plus", "Q", 8, Even("Q", input.directions * Moments))>>

SpaceFields == <<
  Field("dx", "RX", 8, Even("RX", input.zones[0])),
  Field("dy", "RY", 8, Even("RY", input.zones[1])),
  Field("dz", "RZ", 8, Even("RZ", input.zones[2])),
  Field("volume", "R", 8, Even("R", Zones)),
  ByMixElem("mixelem_to_zone"), ByMixElem("mixelem_to_material"),
  ByMixElem("mixelem_to_fraction"),
  Field("zone_to_num_mixelem", "R", 4, Even("R", Zones)),
  Field("zone_to_mixelem", "R", 8, Even("R", Zones)),
  Field("sigt_zonal", "PR", 8, Even("PR", input.groups * Zones))>>

DataFields ==
  LET flux == Even("PQR", input.directions * input.groups * Zones)
      moments == Even("PR", Moments * input.groups * Zones)
      all == input.groups * NumLocal[0]
  IN  << Field("psi", "PQR", 8, flux), Field("rhs", "PQR", 8, flux),
         Field("phi", "PR", 8, moments), Field("phi_out", "PR", 8, moments),
         OnFace("i_plane", 1, 2), OnFace("j_plane", 0, 2), OnFace("k_plane", 0, 1),
         Field("data/sigs", "NULL", 8,
               Even("NULL", 3 * (input.legendre_order + 1) * all * all)) >>

OldPlanes ==
  <<OnFace("old_i_plane", 1, 2), OnFace("old_j_plane", 0, 2), OnFace("old_k_plane", 0, 1)>>

NamesOf(fields) == {fields[n].name : n \in DOMAIN fields}

(* Mutant: requests are not rounded up.                                    *)
AlignQuickPoolRequest_None(bytes) == bytes

AlignQuickPoolRequest(bytes) == ((bytes + 15) \div 16) * 16

(* Planes have an allocator of their own when they are stored directly.    *)
InPool(field) ==
  ~ (direct /\ field.name \in {"i_plane", "j_plane", "k_plane",
                               "old_i_plane", "old_j_plane", "old_k_plane"})

(* FieldStorage: one array for each chunk, which the pool rounds up.       *)
BytesOf(field) ==
  IF InPool(field)
    THEN SumFunction([c \in Chunks(field.space) |->
                       ((field.size[c] * field.bytes + 15) \div 16) * 16])
    ELSE 0

-----------------------------------------------------------------------------
(* calculateAutoQuickPoolSizeBytes: its own count of the same arrays.      *)

Add(arrays, elements, bytes) == arrays * AlignQuickPoolRequest(elements * bytes)

(* Mutant: the old planes of block Jacobi are forgotten.                   *)
PlaneCopies_One == 1

PlaneCopies == IF method = "bj" THEN 2 ELSE 1

FluxBytes ==
  LET R == NumLocal[2] * NumLocal[3] * NumLocal[4]
      PQR == NumLocal[0] * NumLocal[1] * R
  IN  Add(2 * PQR, input.directions * input.groups * Zones, 8)
      + Add(2 * NumLocal[0] * R, Moments * input.groups * Zones, 8)

AllocatableBytes ==
  LET P == NumLocal[0]
      Q == NumLocal[1]
      R == NumLocal[2] * NumLocal[3] * NumLocal[4]
      each == input.directions * input.groups
      z == input.zones
      order == input.legendre_order
  IN  Add(1, Moments, 8)
      + Add(4 * Q, input.directions, 8)
      + Add(2 * Q, Moments * input.directions, 8)
      + Add(NumLocal[2], z[0], 8) + Add(NumLocal[3], z[1], 8) + Add(NumLocal[4], z[2], 8)
      + Add(R, Zones, 8)
      + SumFunction([c \in Chunks("R") |-> 3 * Add(1, input.mixed[c], 8)])
      + Add(R, Zones, 4) + Add(R, Zones, 8)
      + Add(P * R, input.groups * Zones, 8)
      + FluxBytes
      + Add(1, 3 * (order + 1) * (input.groups * P) * (input.groups * P), 8)
      + (IF direct THEN 0
         ELSE Add(PlaneCopies * P * Q * R, each * z[1] * z[2], 8)
              + Add(PlaneCopies * P * Q * R, each * z[0] * z[2], 8)
              + Add(PlaneCopies * P * Q * R, each * z[0] * z[1], 8))

RequestedPoolBytes == AllocatableBytes + 16

(* MemoryManager takes the alignment off again.                            *)
PoolBytes ==
  IF RequestedPoolBytes > 16 THEN RequestedPoolBytes - 16 ELSE RequestedPoolBytes

-----------------------------------------------------------------------------
PoolInit ==
  /\ input \in Inputs
  /\ method \in Methods
  /\ direct \in BOOLEAN
  /\ phase = "generate"
  /\ todo = QuadratureFields \o SpaceFields \o DataFields
  /\ iter = 0
  /\ names = {}
  /\ used = 0

(* createField and addVariable.                                            *)
CreateField ==
  /\ phase \in {"generate", "bj"}
  /\ todo # << >>
  /\ used' = used + BytesOf(Head(todo))
  /\ IF Head(todo).name \in names
       THEN phase' = "threw" /\ UNCHANGED names
       ELSE names' = names \cup {Head(todo).name} /\ UNCHANGED phase
  /\ todo' = Tail(todo)
  /\ UNCHANGED <<input, method, direct, iter>>

(* A sweep: block Jacobi's communicator creates its planes first.          *)
BeginSweep ==
  /\ phase = "generate" /\ todo = << >>
  /\ iter < NumIter
  /\ IF method = "bj"
       THEN phase' = "bj" /\ todo' = OldPlanes
       ELSE phase' = "sweep" /\ UNCHANGED todo
  /\ UNCHANGED <<input, method, direct, iter, names, used>>

RunSweep ==
  /\ phase = "bj" /\ todo = << >>
  /\ phase' = "sweep"
  /\ UNCHANGED <<input, method, direct, todo, iter, names, used>>

(* Mutant: one of the three is not deleted.                                *)
EndSweep_KeepOne ==
  /\ phase = "sweep"
  /\ iter' = iter + 1
  /\ phase' = "generate"
  /\ names' = names \ NamesOf(Tail(OldPlanes))
  /\ UNCHANGED <<input, method, direct, todo, used>>

(* The communicator deletes its planes (deleteVariable throws if one is    *)
(* not there).  The destructor of a field with CHAI frees nothing.         *)
EndSweep ==
  /\ phase = "sweep"
  /\ iter' = iter + 1
  /\ IF method = "bj" /\ ~ NamesOf(OldPlanes) \subseteq names
       THEN phase' = "threw" /\ UNCHANGED names
       ELSE phase' = "generate" /\ names' = names \ NamesOf(OldPlanes)
  /\ UNCHANGED <<input, method, direct, todo, used>>

(* SteadyStateSolver has returned, or the exception ends the program.      *)
PoolDone ==
  /\ phase = "threw" \/ (phase = "generate" /\ todo = << >> /\ iter = NumIter)
  /\ UNCHANGED poolVars

PoolNext == CreateField \/ BeginSweep \/ RunSweep \/ EndSweep \/ PoolDone

PoolSpec == PoolInit /\ [][PoolNext]_poolVars

-----------------------------------------------------------------------------
(* Properties.                                                             *)

(* Old planes of earlier sweeps.  Their variables are gone from the data   *)
(* store, but not their memory.                                            *)
OldPlaneBytes == SumFunction([n \in DOMAIN OldPlanes |-> BytesOf(OldPlanes[n])])

Abandoned == IF method = "bj" THEN iter * OldPlaneBytes ELSE 0

(* The pool the program sizes for itself holds every field there is: only  *)
(* what is left behind by block Jacobi makes the pool grow, by one set of  *)
(* old planes with every sweep but the first, and not at all when planes   *)
(* have an allocator of their own.                                         *)
FitsPool == used <= PoolBytes + Abandoned

(* And it is not larger than what the first sweep uses: main's count and   *)
(* the generators' fields are the same arrays, chunk by chunk.             *)
NothingToSpare == phase = "sweep" /\ iter = 0 => used = PoolBytes

(* Every sweep finds the data store without old planes: no variable is     *)
(* added twice or deleted when it is not there.                            *)
NeverThrows == phase # "threw"

=============================================================================
