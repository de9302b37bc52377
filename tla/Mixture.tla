------------------------------ MODULE Mixture -------------------------------
(***************************************************************************)
(* generateSpace: the mesh is painted with materials by sampling, the      *)
(* mixed elements of every zone are counted and then filled into tables,   *)
(* and the tables are collapsed into the total cross section of a zone,    *)
(* by one of two loops.                                                    *)
(*                                                                         *)
(* One rank that holds the whole mesh; on several, a rank paints from its  *)
(* own lower zones (ZonesFollowGrid in Partition).  Coordinates are exact: *)
(* everything is scaled by the number of zones times the number of sample  *)
(* intervals.  A fraction is a number of samples; that the doubles add up  *)
(* to exactly 1.0 (line 312) is not modelled.                              *)
(***************************************************************************)
EXTENDS PhaseSpace, Sequences

CONSTANTS
  Meshes,      \* zones of a zone set by dimension, samples by dimension
  NumGroups    \* groups of a group set

Dim == 0 .. 2

ASSUME MixtureAssumption ==
  /\ Meshes \subseteq [zones : [Dim -> Nat \ {0}], samples : Nat \ {0}]
  /\ NumGroups \in Nat \ {0}

VARIABLES
  mesh,      \* input_vars
  gpu,       \* sigt_zonal is in device memory
  phase,     \* the loop the program is in
  chunk,     \* the entry of the work list that loop is at
  zone,      \* the zone it is at
  mix,       \* fractions by chunk, zone and material
  size,      \* Set/MixElem: elements by chunk
  element,   \* mixelem_to_zone, _to_material, _to_fraction
  zoneTable, \* zone_to_mixelem, zone_to_num_mixelem
  sigt       \* sigt_zonal by chunk, group and zone: the terms added, in order

vars == <<mesh, gpu, phase, chunk, zone, mix, size, element, zoneTable, sigt>>

-----------------------------------------------------------------------------
(* The mesh.                                                               *)

Half == <<60, 100, 60>>

(* RangeSet lower and ProductSet::getLayout over (k, j, i).                *)
LowerZone(c, d) == SdomIdToCoord(WorkList("R")[c])[d + 2] * mesh.zones[d]

NumZones == mesh.zones[0] * mesh.zones[1] * mesh.zones[2]

ZoneIndex(z) ==
  [d \in Dim |-> CASE d = 0 -> z % mesh.zones[0]
                   [] d = 1 -> (z \div mesh.zones[0]) % mesh.zones[1]
                   [] d = 2 -> z \div (mesh.zones[0] * mesh.zones[1])]

GlobalZone(c, z) == [d \in Dim |-> LowerZone(c, d) + ZoneIndex(z)[d]]

(* The unit of length along a dimension.                                   *)
Scale(d) == mesh.zones[d] * NumLocal[d + 2] * (mesh.samples + 1)

(* Mutant: samples from the lower edge of the zone.                        *)
Place_FromEdge(d, n, s) ==
  - Half[d + 1] * Scale(d) + 2 * Half[d + 1] * (n * (mesh.samples + 1) + s)

(* Sample s of zone n along d.                                             *)
Place(d, n, s) ==
  - Half[d + 1] * Scale(d) + 2 * Half[d + 1] * (n * (mesh.samples + 1) + s + 1)

AbsValue(x) == IF x < 0 THEN -x ELSE x

(* material_fcn                                                            *)
Within(p, d, low, high) ==
  /\ low * Scale(d) <= AbsValue(p[d])
  /\ AbsValue(p[d]) <= high * Scale(d)

Region1(p) == Within(p, 0, 0, 10) /\ Within(p, 1, 0, 10) /\ Within(p, 2, 0, 10)

Region2(p) ==
  \/ Within(p, 0, 0, 10) /\ Within(p, 1, 0, 60) /\ Within(p, 2, 0, 10)
  \/ Within(p, 0, 0, 40) /\ Within(p, 1, 50, 60) /\ Within(p, 2, 0, 10)
  \/ Within(p, 0, 30, 40) /\ Within(p, 1, 50, 60) /\ Within(p, 2, 0, 40)
  \/ Within(p, 0, 30, 40) /\ 50 * Scale(1) <= AbsValue(p[1]) /\ Within(p, 2, 30, 40)

Material == 0 .. 2

MaterialFcn(p) == IF Region1(p) THEN 0 ELSE IF Region2(p) THEN 1 ELSE 2

Samples == [Dim -> 0 .. mesh.samples - 1]

ZoneMixture(c, z) ==
  LET at == {[d \in Dim |-> Place(d, GlobalZone(c, z)[d], s[d])] : s \in Samples}
  IN  [m \in Material |-> Cardinality({p \in at : MaterialFcn(p) = m})]

(* main's own count, which sizes the device pool: quickPoolSizingMaterial  *)
(* and countMixedElementsForSpatialChunk, zone by zone from the corner of  *)
(* the chunk.                                                              *)

(* Mutant: the arm that leads out in z is forgotten.                       *)
QuickPoolSizingMaterial_NoArm(p) ==
  LET upTo(d, x) == AbsValue(p[d]) <= x * Scale(d)
      from(d, x) == AbsValue(p[d]) >= x * Scale(d)
  IN  IF upTo(0, 10) /\ upTo(1, 10) /\ upTo(2, 10) THEN 0
      ELSE IF \/ upTo(0, 10) /\ upTo(1, 60) /\ upTo(2, 10)
              \/ upTo(0, 40) /\ from(1, 50) /\ upTo(1, 60) /\ upTo(2, 10)
              \/ from(0, 30) /\ upTo(0, 40) /\ from(1, 50) /\ upTo(1, 60) /\ upTo(2, 40)
           THEN 1 ELSE 2

QuickPoolSizingMaterial(p) ==
  LET upTo(d, x) == AbsValue(p[d]) <= x * Scale(d)
      from(d, x) == AbsValue(p[d]) >= x * Scale(d)
  IN  IF upTo(0, 10) /\ upTo(1, 10) /\ upTo(2, 10) THEN 0
      ELSE IF \/ upTo(0, 10) /\ upTo(1, 60) /\ upTo(2, 10)
              \/ upTo(0, 40) /\ from(1, 50) /\ upTo(1, 60) /\ upTo(2, 10)
              \/ from(0, 30) /\ upTo(0, 40) /\ from(1, 50) /\ upTo(1, 60) /\ upTo(2, 40)
              \/ from(0, 30) /\ upTo(0, 40) /\ from(1, 50) /\ from(2, 30) /\ upTo(2, 40)
           THEN 1 ELSE 2

CountMixedElementsForSpatialChunk(set) ==
  LET inChunk == (0 .. mesh.zones[0] - 1) \X (0 .. mesh.zones[1] - 1) \X (0 .. mesh.zones[2] - 1)
      place(i, s) == [d \in Dim |-> Place(d, set[d] * mesh.zones[d] + i[d + 1], s[d])]
  IN  Cardinality({has \in inChunk \X Material :
                     \E s \in Samples : QuickPoolSizingMaterial(place(has[1], s)) = has[2]})

-----------------------------------------------------------------------------
(* The loops.                                                              *)

Zones == 0 .. NumZones - 1

Nothing == [c \in Chunks("R") |-> << >>]

Init ==
  /\ mesh \in Meshes
  /\ gpu \in BOOLEAN
  /\ phase = "paint"
  /\ chunk = 0
  /\ zone = 0
  /\ mix = Nothing
  /\ size = [c \in Chunks("R") |-> 0]
  /\ element = Nothing
  /\ zoneTable = Nothing
  /\ sigt = [c \in Chunks("PR") |-> [g \in 0 .. NumGroups - 1 |-> << >>]]

Painted(c) == [z \in Zones |-> ZoneMixture(c, z)]

(* Sample all zones of a chunk.                                            *)
Paint ==
  /\ phase = "paint"
  /\ chunk < NumSubdomains("R")
  /\ mix' = [mix EXCEPT ![chunk] = Painted(chunk)]
  /\ chunk' = chunk + 1
  /\ UNCHANGED <<mesh, gpu, phase, zone, size, element, zoneTable, sigt>>

(* ZoneMixture::numMixed, over the zones of a chunk.                       *)
Mixed(c) == {p \in Zones \X Material : mix[c][p[1]][p[2]] > 0}

(* Count the elements and make their set.                                  *)
CountMixed ==
  /\ phase = "paint"
  /\ chunk = NumSubdomains("R")
  /\ size' = [c \in Chunks("R") |-> Cardinality(Mixed(c))]
  /\ phase' = "fill"
  /\ chunk' = 0
  /\ UNCHANGED <<mesh, gpu, zone, mix, element, zoneTable, sigt>>

(* The materials of one zone, in ascending order.                          *)
Elements(z, fraction) ==
  LET of(m) == IF fraction[m] > 0
                 THEN <<[zone |-> z, material |-> m, fraction |-> fraction[m]]>>
                 ELSE << >>
  IN  of(0) \o of(1) \o of(2)

(* Mutant: a zone's elements are said to start behind them.                *)
FillZone_StartLate ==
  /\ phase = "fill"
  /\ zone < NumZones
  /\ LET new == Elements(zone, mix[chunk][zone])
         entry == [start |-> Len(element[chunk]) + Len(new), num |-> Len(new)]
     IN  /\ element' = [element EXCEPT ![chunk] = @ \o new]
         /\ zoneTable' = [zoneTable EXCEPT ![chunk] = Append(@, entry)]
  /\ zone' = zone + 1
  /\ UNCHANGED <<mesh, gpu, phase, chunk, mix, size, sigt>>

FillZone ==
  /\ phase = "fill"
  /\ zone < NumZones
  /\ LET new == Elements(zone, mix[chunk][zone])
         entry == [start |-> Len(element[chunk]), num |-> Len(new)]
     IN  /\ element' = [element EXCEPT ![chunk] = @ \o new]
         /\ zoneTable' = [zoneTable EXCEPT ![chunk] = Append(@, entry)]
  /\ zone' = zone + 1
  /\ UNCHANGED <<mesh, gpu, phase, chunk, mix, size, sigt>>

FillDone ==
  /\ phase = "fill"
  /\ zone = NumZones
  /\ zone' = 0
  /\ IF chunk + 1 = NumSubdomains("R")
       THEN phase' = "sigt" /\ chunk' = 0
       ELSE chunk' = chunk + 1 /\ UNCHANGED phase
  /\ UNCHANGED <<mesh, gpu, mix, size, element, zoneTable, sigt>>

(* Views through the subdomain that stands for a chunk of space PR.        *)
Space3Chunk(c) == ChunkOf("R", WorkList("PR")[c])

Term(e) == <<e.material, e.fraction>>

(* What is added after each turn of the host loop over the elements.       *)
Added(all) ==
  LET terms[n \in 0 .. Len(all)] ==
        IF n = 0 THEN [z \in Zones |-> << >>]
        ELSE [terms[n - 1] EXCEPT ![all[n].zone] = Append(@, Term(all[n]))]
  IN  terms

(* The host loop: all elements, each added to its zone.                    *)
ByElement(c) ==
  LET all == element[Space3Chunk(c)]
  IN  Added(all)[Len(all)]

(* The device loop: for each zone the elements of its range.               *)
ByZone(c) ==
  LET r == Space3Chunk(c)
      from(z) == zoneTable[r][z + 1].start
  IN  [z \in Zones |-> [n \in 1 .. zoneTable[r][z + 1].num |-> Term(element[r][from(z) + n])]]

(* Mutant: the host loop runs once for each direction set.                 *)
CollapseSigt_PerSubdomain ==
  /\ phase = "sigt"
  /\ chunk < NumSubdomains("PR")
  /\ LET terms == IF gpu THEN ByZone(chunk) ELSE ByElement(chunk)
     IN  sigt' = [sigt EXCEPT ![chunk] = [g \in DOMAIN @ |->
           IF gpu THEN terms ELSE [z \in Zones |-> terms[z] \o terms[z]]]]
  /\ chunk' = chunk + 1
  /\ UNCHANGED <<mesh, gpu, phase, zone, mix, size, element, zoneTable>>

(* All groups and zones of one chunk of sigt_zonal, which starts as 0.     *)
CollapseSigt ==
  /\ phase = "sigt"
  /\ chunk < NumSubdomains("PR")
  /\ LET terms == IF gpu THEN ByZone(chunk) ELSE ByElement(chunk)
     IN  sigt' = [sigt EXCEPT ![chunk] = [g \in DOMAIN @ |-> terms]]
  /\ chunk' = chunk + 1
  /\ UNCHANGED <<mesh, gpu, phase, zone, mix, size, element, zoneTable>>

Finished == phase = "sigt" /\ chunk = NumSubdomains("PR")

Done == Finished /\ UNCHANGED vars

Next ==
  Paint \/ CountMixed \/ FillZone \/ FillDone \/ CollapseSigt \/ Done

Spec == Init /\ [][Next]_vars

-----------------------------------------------------------------------------
(* Properties.                                                             *)

(* What is filled in never outgrows the tables allocated by the count, and *)
(* fills them when all zones are done ("Mismatch in mixture info").        *)
TablesFit ==
  phase = "fill" =>
    /\ \A c \in Chunks("R") : Len(element[c]) <= size[c]
    /\ zone = NumZones => Len(element[chunk]) = size[chunk]

(* The range of elements a zone is given in zone_to_mixelem and            *)
(* zone_to_num_mixelem holds exactly its own elements: Scattering goes by  *)
(* the range, Source and the host loop by mixelem_to_zone.  A zone has a   *)
(* material once, so that Source adds to a cell once.                      *)
RangesMatchZones ==
  /\ TablesFit
  /\ \A c \in Chunks("R") :
     \A z \in 1 .. Len(zoneTable[c]) :
      LET entry == zoneTable[c][z]
          range == entry.start + 1 .. entry.start + entry.num
      IN  /\ range = {n \in DOMAIN element[c] : element[c][n].zone = z - 1}
          /\ \A n, n2 \in range : element[c][n].material = element[c][n2].material => n = n2

(* Both loops give every zone of every group set the same sum, in the same *)
(* order: all that was sampled in it, material by material.                *)
SigtOfSamples ==
  phase = "sigt" =>
    \A c \in 0 .. chunk - 1 : \A g \in DOMAIN sigt[c], z \in Zones :
      LET terms == sigt[c][g][z]
          sampled == mix[Space3Chunk(c)][z]
      IN  /\ Range(terms) = {<<m, sampled[m]>> : m \in {m \in Material : sampled[m] > 0}}
          /\ \A n, n2 \in DOMAIN terms : n < n2 => terms[n][1] < terms[n2][1]

(* main sizes the pool for the mixed elements there will be: its count,    *)
(* over zone sets, is that of the generator, over chunks.                  *)
PoolCountsMixed ==
  phase = "fill" =>
    \A c \in Chunks("R") :
      size[c] = CountMixedElementsForSpatialChunk(
                  [d \in Dim |-> ToIndices(LocalLayout("R"), c)[d + 2]])

(* "Full-space, no reflecting BC's": the painted mesh is its own mirror    *)
(* image in every dimension, across chunks.                                *)
MirrorImage ==
  phase = "fill" =>
    \A c, c2 \in Chunks("R"), z, z2 \in Zones :
      (\A d \in Dim : GlobalZone(c, z)[d] + GlobalZone(c2, z2)[d]
                        = mesh.zones[d] * NumLocal[d + 2] - 1)
      => mix[c][z] = mix[c2][z2]

=============================================================================
