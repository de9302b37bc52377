----------------------------- MODULE FieldFlow ------------------------------
(***************************************************************************)
(* One rank's iterations as a flow of data between fields: the calls of    *)
(* SteadyStateSolver, each kernel dispatched once for each entry of a work *)
(* list.  What a kernel does inside a chunk is in Kernels; the sweep is    *)
(* one step here (Transport).                                              *)
(*                                                                         *)
(* A chunk is the bag of the terms added up in it.  A term is the flux of  *)
(* a subdomain after some iteration, or the external source, with the      *)
(* factors it was multiplied by: the chunk of ell, the group sets that     *)
(* index sigs, the chunk of ell_plus; for the source, the chunk of the     *)
(* mixture tables.                                                         *)
(***************************************************************************)
EXTENDS PhaseSpace, Sequences, Bags

CONSTANT NumIter    \* niter

ASSUME FlowAssumption == NumIter \in Nat \ {0}

VARIABLES
  iter,     \* sweeps done
  call,     \* the kernel SteadyStateSolver is in
  todo,     \* what its loop has still to dispatch
  psi,      \* flux by chunk: its subdomain, and the iteration it is of
  phi,      \* moments of the flux
  phi_out,  \* moments of the scattering and external source
  rhs,      \* right hand side
  part      \* the sum of population

vars == <<iter, call, todo, psi, phi, phi_out, rhs, part>>

(* The work list of a field over a space.                                  *)
Visits(space) == [n \in 1 .. NumSubdomains(space) |-> WorkList(space)[n - 1]]

(* kConst(field, 0.0): all chunks the work list reaches.                   *)
Cleared(field, space) ==
  [c \in DOMAIN field |->
     IF \E n \in DOMAIN Visits(space) : ChunkOf(space, Visits(space)[n]) = c
       THEN EmptyBag ELSE field[c]]

Uninitialized == SetToBag({[of |-> <<"garbage">>, by |-> << >>]})

Init ==
  /\ iter = 0
  /\ call = "start"
  /\ todo = << >>
  /\ psi = [c \in Chunks("PQR") |-> <<c, 0>>]
  /\ phi = [c \in Chunks("PR") |-> Uninitialized]
  /\ phi_out = [c \in Chunks("PR") |-> Uninitialized]
  /\ rhs = [c \in Chunks("PQR") |-> Uninitialized]
  /\ part = EmptyBag

-----------------------------------------------------------------------------
(* Adding to a chunk.                                                      *)

Times(t, factors) == [of |-> t.of, by |-> t.by \o factors]

(* Every term of a bag, multiplied.  Different terms stay different.       *)
AllTimes(bag, factors) ==
  [t \in {Times(u, factors) : u \in DOMAIN bag} |->
     bag[CHOOSE u \in DOMAIN bag : Times(u, factors) = t]]

Add(field, space, s, bag) == [field EXCEPT ![ChunkOf(space, s)] = @ (+) bag]

PsiTerm(s) == [of |-> psi[ChunkOf("PQR", s)], by |-> << >>]

SourceTerm == [of |-> <<"source">>, by |-> << >>]

(* The kernel's loop ends, or dispatches the next entry.                   *)
Dispatch(kernel) == call = kernel /\ todo # << >> /\ todo' = Tail(todo) /\ UNCHANGED call

Begin(before, kernel, work) ==
  call = before /\ todo = << >> /\ call' = kernel /\ todo' = work

-----------------------------------------------------------------------------
(* phi = L * psi                                                           *)

(* Mutant: the moments of the last iteration are kept.                     *)
StartLTimes_NoReset ==
  /\ Begin(IF iter = 0 THEN "start" ELSE "Population", "LTimes", Visits("PQR"))
  /\ iter < NumIter
  /\ phi' = IF iter = 0 THEN Cleared(phi, "PR") ELSE phi
  /\ UNCHANGED <<iter, psi, phi_out, rhs, part>>

StartLTimes ==
  /\ Begin(IF iter = 0 THEN "start" ELSE "Population", "LTimes", Visits("PQR"))
  /\ iter < NumIter
  /\ phi' = Cleared(phi, "PR")
  /\ UNCHANGED <<iter, psi, phi_out, rhs, part>>

LTimes ==
  /\ Dispatch("LTimes")
  /\ LET s == Head(todo)
     IN  phi' = Add(phi, "PR", s, SetToBag({Times(PsiTerm(s), <<ChunkOf("Q", s)>>)}))
  /\ UNCHANGED <<iter, psi, phi_out, rhs, part>>

-----------------------------------------------------------------------------
(* phi_out = S * phi + Q                                                   *)

(* Two loops over the work list of moments.                                *)
SourcesAndTargets ==
  [n \in 1 .. NumSubdomains("PR") * NumSubdomains("PR") |->
     << WorkList("PR")[(n - 1) \div NumSubdomains("PR")],
        WorkList("PR")[(n - 1) % NumSubdomains("PR")] >>]

StartScattering ==
  /\ Begin("LTimes", "Scattering", SourcesAndTargets)
  /\ phi_out' = Cleared(phi_out, "PR")
  /\ UNCHANGED <<iter, psi, phi, rhs, part>>

(* "Only work on subdomains where src and dst are on the same R            *)
(* subdomain".                                                             *)
Scattering ==
  /\ Dispatch("Scattering")
  /\ LET src == Head(todo)[1]
         dst == Head(todo)[2]
     IN  phi_out' =
           IF SubdomainToSpace("R", src) # SubdomainToSpace("R", dst) THEN phi_out
           ELSE Add(phi_out, "PR", dst,
                    AllTimes(phi[ChunkOf("PR", src)], <<ChunkOf("P", src), ChunkOf("P", dst)>>))
  /\ UNCHANGED <<iter, psi, phi, rhs, part>>

StartSource ==
  /\ Begin("Scattering", "Source", Visits("PR"))
  /\ UNCHANGED <<iter, psi, phi, phi_out, rhs, part>>

Source ==
  /\ Dispatch("Source")
  /\ LET s == Head(todo)
     IN  phi_out' = Add(phi_out, "PR", s, SetToBag({Times(SourceTerm, <<ChunkOf("R", s)>>)}))
  /\ UNCHANGED <<iter, psi, phi, rhs, part>>

-----------------------------------------------------------------------------
(* rhs = L+ * phi_out, psi = Hinv * rhs                                    *)

StartLPlusTimes ==
  /\ Begin("Source", "LPlusTimes", Visits("PQR"))
  /\ rhs' = Cleared(rhs, "PQR")
  /\ UNCHANGED <<iter, psi, phi, phi_out, part>>

LPlusTimes ==
  /\ Dispatch("LPlusTimes")
  /\ LET s == Head(todo)
     IN  rhs' = Add(rhs, "PQR", s, AllTimes(phi_out[ChunkOf("PR", s)], <<ChunkOf("Q", s)>>))
  /\ UNCHANGED <<iter, psi, phi, phi_out, part>>

(* SweepSolver over all subdomains, and the start of population.           *)
Sweep ==
  /\ Begin("LPlusTimes", "Population", Visits("PQR"))
  /\ iter' = iter + 1
  /\ psi' = [c \in DOMAIN psi |->
               IF \E s \in LocalSdom : ChunkOf("PQR", s) = c THEN <<c, iter + 1>> ELSE psi[c]]
  /\ part' = EmptyBag
  /\ UNCHANGED <<phi, phi_out, rhs>>

(* Mutant: the edit runs over a work list of moments.                      *)
Population_OfMoments ==
  /\ Dispatch("Population")
  /\ LET s == SpaceToSubdomain("PR", ChunkOf("PR", Head(todo)))
     IN  part' = part (+) SetToBag({Times(PsiTerm(s), <<ChunkOf("Q", s), ChunkOf("R", s)>>)})
  /\ UNCHANGED <<iter, psi, phi, phi_out, rhs>>

(* With the weights of space Q and the volumes of space R.                 *)
Population ==
  /\ Dispatch("Population")
  /\ LET s == Head(todo)
     IN  part' = part (+) SetToBag({Times(PsiTerm(s), <<ChunkOf("Q", s), ChunkOf("R", s)>>)})
  /\ UNCHANGED <<iter, psi, phi, phi_out, rhs>>

Done == call = "Population" /\ todo = << >> /\ iter = NumIter /\ UNCHANGED vars

Next ==
  \/ StartLTimes \/ LTimes
  \/ StartScattering \/ Scattering
  \/ StartSource \/ Source
  \/ StartLPlusTimes \/ LPlusTimes
  \/ Sweep \/ Population
  \/ Done

Spec == Init /\ [][Next]_vars

-----------------------------------------------------------------------------
(* Properties.  Coordinates name the chunk a field should use, not the     *)
(* layouts the program computes it with.                                   *)

Coord(s) == SdomIdToCoord(s)

SameZones(s, t) == \A a \in 2 .. 4 : Coord(s)[a] = Coord(t)[a]

(* Chunk r of space R and subdomain s lie in the same zones.               *)
ZonesOf(r, s) == \A a \in 2 .. 4 : ToIndices(LocalLayout("R"), r)[a] = Coord(s)[a]

(* rhs = LPlus*S*L*psi + Q: when the sweep starts, the right hand side of  *)
(* a subdomain is made of the fluxes that all subdomains with the same     *)
(* zones had after the last iteration, each once, through the right        *)
(* coefficients, and of the source once.  Nothing is left of an earlier    *)
(* iteration, and none is added twice although a group and zone set's      *)
(* moments are shared by all direction sets.                               *)
FullSource(s) ==
  LET scattered == {[of |-> <<t, iter>>,
                     by |-> <<Coord(t)[1], Coord(t)[0], Coord(s)[0], Coord(s)[1]>>] :
                       t \in {u \in LocalSdom : SameZones(u, s)}}
      external == {[of |-> <<"source">>, by |-> <<r, Coord(s)[1]>>] :
                     r \in {q \in Chunks("R") : ZonesOf(q, s)}}
  IN  SetToBag(scattered \cup external)

SweepsFullSource ==
  [][iter' # iter => \A s \in LocalSdom : rhs[ChunkOf("PQR", s)] = FullSource(s)]_vars

(* The edit counts every subdomain's flux of this iteration once, with the *)
(* weights of its directions and the volumes of its zones, and no other.   *)
CountsAllFlux ==
  call = "Population" /\ todo = << >> =>
    part = SetToBag({[of |-> <<p[1], iter>>, by |-> <<Coord(p[1])[1], p[2]>>] :
                       p \in {q \in LocalSdom \X Chunks("R") : ZonesOf(q[2], q[1])}})

=============================================================================
