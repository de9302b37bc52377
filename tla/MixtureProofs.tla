--------------------------- MODULE MixtureProofs ----------------------------
(***************************************************************************)
(* The tables of mixed elements, for every mesh, every number of samples   *)
(* and every number of zone sets.                                          *)
(***************************************************************************)
EXTENDS Mixture, FiniteSetTheorems, SequenceTheorems, TLAPS

-----------------------------------------------------------------------------
(* The elements of a zone.                                                 *)

MixElement == [zone : Nat, material : Material, fraction : Nat]

Entry == [start : Nat, num : Nat]

(* A zone's pairs of zone and material, of the materials below k.          *)
PairsBelow(z, f, k) == {<<z, m>> : m \in {m \in Material : m < k /\ f[m] > 0}}

(* s are the elements of zone z for the materials below k.                 *)
HasBelow(s, z, f, k) ==
  /\ s \in Seq(MixElement)
  /\ \A i \in 1 .. Len(s) : s[i].zone = z /\ s[i].material < k
  /\ \A i, j \in 1 .. Len(s) : s[i].material = s[j].material => i = j
  /\ \A T : IsFiniteSet(T) /\ (\A m \in Material : <<z, m>> \notin T) =>
       /\ IsFiniteSet(T \cup PairsBelow(z, f, k))
       /\ Cardinality(T \cup PairsBelow(z, f, k)) = Cardinality(T) + Len(s)

(* The next turn of the loop over the materials.                           *)
LEMMA NextMaterial ==
  ASSUME NEW z \in Nat, NEW f \in [Material -> Nat], NEW k \in Material, NEW s,
         HasBelow(s, z, f, k)
  PROVE  HasBelow(s \o (IF f[k] > 0
                          THEN <<[zone |-> z, material |-> k, fraction |-> f[k]]>>
                          ELSE << >>), z, f, k + 1)
<1> DEFINE e == [zone |-> z, material |-> k, fraction |-> f[k]]
<1>1. k \in Nat /\ f[k] \in Nat /\ \A m \in Material : m < k + 1 <=> m < k \/ m = k
  BY DEF Material
<1>2. e \in MixElement /\ e.zone = z /\ e.material = k
  BY <1>1 DEF MixElement
<1>3. s \in Seq(MixElement) /\ Len(s) \in Nat /\ \A i \in 1 .. Len(s) : s[i] \in MixElement
  BY LenProperties, ElementOfSeq DEF HasBelow
<1> HIDE DEF e
<1>4. CASE f[k] > 0
  <2> DEFINE w == s \o <<e>>
  <2>1. <<e>> \in Seq(MixElement) /\ Len(<<e>>) = 1 /\ <<e>>[1] = e
    BY <1>2
  <2>2. /\ w \in Seq(MixElement)
        /\ Len(w) = Len(s) + 1
        /\ \A i \in 1 .. Len(s) + 1 : w[i] = IF i <= Len(s) THEN s[i] ELSE <<e>>[i - Len(s)]
    <3> HIDE DEF w
    <3>1. /\ s \o <<e>> \in Seq(MixElement)
          /\ Len(s \o <<e>>) = Len(s) + Len(<<e>>)
          /\ \A i \in 1 .. Len(s) + Len(<<e>>) :
               (s \o <<e>>)[i] = IF i <= Len(s) THEN s[i] ELSE <<e>>[i - Len(s)]
      BY <1>3, <2>1, ConcatProperties
    <3> QED
      BY <2>1, <3>1 DEF w
  <2> HIDE DEF w
  <2>3. /\ \A i \in 1 .. Len(s) : w[i] = s[i]
        /\ w[Len(s) + 1] = e
    <3>1. Len(s) + 1 - Len(s) = 1 /\ ~ Len(s) + 1 <= Len(s) /\ Len(s) + 1 \in 1 .. Len(s) + 1
      BY <1>3
    <3> QED
      BY <1>3, <2>1, <2>2, <3>1
  <2>4. \A i \in 1 .. Len(w) : w[i].zone = z /\ w[i].material < k + 1
    <3> SUFFICES ASSUME NEW i \in 1 .. Len(w)
                 PROVE  w[i].zone = z /\ w[i].material < k + 1
      OBVIOUS
    <3>1. CASE i \in 1 .. Len(s)
      <4>1. s[i].zone = z /\ s[i].material < k /\ s[i].material \in Int
        BY <1>3, <3>1 DEF HasBelow, MixElement, Material
      <4> QED
        BY <1>1, <2>3, <3>1, <4>1
    <3>2. CASE i = Len(s) + 1
      BY <1>1, <1>2, <2>3, <3>2
    <3> QED
      BY <1>3, <2>2, <3>1, <3>2
  <2>5. \A i, j \in 1 .. Len(w) : w[i].material = w[j].material => i = j
    <3>1. \A i \in 1 .. Len(w) : i \in 1 .. Len(s) \/ i = Len(s) + 1
      BY <1>3, <2>2
    <3>2. \A i \in 1 .. Len(s) : w[i].material # k
      <4>1. \A i \in 1 .. Len(s) : s[i].material < k
        BY DEF HasBelow
      <4> QED
        BY <1>1, <2>3, <4>1
    <3>3. w[Len(s) + 1].material = k
      BY <1>2, <2>3
    <3>4. \A i, j \in 1 .. Len(s) : w[i].material = w[j].material => i = j
      BY <2>3 DEF HasBelow
    <3> QED
      BY <3>1, <3>2, <3>3, <3>4
  <2>6. ASSUME NEW T, IsFiniteSet(T), \A m \in Material : <<z, m>> \notin T
        PROVE  /\ IsFiniteSet(T \cup PairsBelow(z, f, k + 1))
               /\ Cardinality(T \cup PairsBelow(z, f, k + 1)) = Cardinality(T) + Len(w)
    <3> DEFINE U == T \cup PairsBelow(z, f, k)
    <3>1. IsFiniteSet(U) /\ Cardinality(U) = Cardinality(T) + Len(s)
      BY <2>6 DEF HasBelow
    <3>2. T \cup PairsBelow(z, f, k + 1) = U \cup {<<z, k>>}
      BY <1>1, <1>4 DEF PairsBelow
    <3>3. <<z, k>> \notin U
      <4>1. <<z, k>> \notin PairsBelow(z, f, k)
        BY <1>1 DEF PairsBelow
      <4> QED
        BY <2>6, <4>1
    <3> HIDE DEF U
    <3>4. /\ IsFiniteSet(U \cup {<<z, k>>})
          /\ Cardinality(U \cup {<<z, k>>}) = Cardinality(U) + 1
      BY <3>1, <3>3, FS_AddElement
    <3>5. Cardinality(T) \in Nat
      BY <2>6, FS_CardinalityType
    <3>6. Cardinality(U \cup {<<z, k>>}) = Cardinality(T) + Len(w)
      <4>1. Cardinality(T) + Len(s) + 1 = Cardinality(T) + (Len(s) + 1)
        BY <1>3, <3>5
      <4> QED
        BY <2>2, <3>1, <3>4, <4>1
    <3> QED
      BY <3>2, <3>4, <3>6
  <2>7. HasBelow(w, z, f, k + 1)
    BY <2>2, <2>4, <2>5, <2>6 DEF HasBelow
  <2> QED
    BY <1>4, <2>7 DEF w, e
<1>5. CASE ~ f[k] > 0
  <2>1. s \o << >> = s
    BY <1>3, ConcatEmptySeq
  <2>2. PairsBelow(z, f, k + 1) = PairsBelow(z, f, k)
    BY <1>1, <1>5 DEF PairsBelow
  <2>3. \A i \in 1 .. Len(s) : s[i].material < k + 1
    <3>1. \A i \in 1 .. Len(s) : s[i].material < k /\ s[i].material \in Int
      BY <1>3 DEF HasBelow, MixElement, Material
    <3> QED
      BY <1>1, <3>1
  <2>4. HasBelow(s, z, f, k + 1)
    BY <2>2, <2>3 DEF HasBelow
  <2> QED
    BY <1>5, <2>1, <2>4
<1> QED
  BY <1>4, <1>5

(* A zone's elements are of that zone, one for each of its materials.      *)
LEMMA ZoneElements ==
  ASSUME NEW z \in Nat, NEW f \in [Material -> Nat]
  PROVE  HasBelow(Elements(z, f), z, f, 3)
<1> DEFINE of(m) == IF f[m] > 0
                      THEN <<[zone |-> z, material |-> m, fraction |-> f[m]]>>
                      ELSE << >>
<1>1. 0 \in Material /\ 1 \in Material /\ 2 \in Material /\ 0 + 1 = 1 /\ 1 + 1 = 2 /\ 2 + 1 = 3
  BY DEF Material
<1>2. HasBelow(<< >>, z, f, 0)
  <2>1. << >> \in Seq(MixElement) /\ Len(<< >>) = 0
    BY EmptySeq
  <2>2. PairsBelow(z, f, 0) = {}
    BY DEF PairsBelow, Material
  <2>3. \A T : IsFiniteSet(T) => Cardinality(T \cup {}) = Cardinality(T) + 0
    <3>1. \A T : T \cup {} = T
      OBVIOUS
    <3>2. \A T : IsFiniteSet(T) => Cardinality(T) \in Nat
      BY FS_CardinalityType
    <3> QED
      BY <3>1, <3>2
  <2>4. \A T : T \cup {} = T
    OBVIOUS
  <2>5. \A i : i \notin 1 .. Len(<< >>)
    BY <2>1
  <2> HIDE DEF of
  <2> QED
    BY <2>1, <2>2, <2>3, <2>4, <2>5 DEF HasBelow
<1>3. \A k \in Material : \A s : HasBelow(s, z, f, k) => HasBelow(s \o of(k), z, f, k + 1)
  BY NextMaterial
<1>4. Elements(z, f) = of(0) \o of(1) \o of(2)
  BY DEF Elements
<1>5. of(0) \in Seq(MixElement)
  <2>1. << >> \in Seq(MixElement)
    BY EmptySeq
  <2>2. [zone |-> z, material |-> 0, fraction |-> f[0]] \in MixElement
    BY <1>1 DEF MixElement
  <2> QED
    BY <2>1, <2>2
<1> HIDE DEF of
<1>6. << >> \o of(0) = of(0)
  BY <1>5, ConcatEmptySeq
<1>7. HasBelow(of(0), z, f, 1)
  BY <1>1, <1>2, <1>3, <1>6
<1>8. HasBelow(of(0) \o of(1), z, f, 2)
  BY <1>1, <1>3, <1>7
<1>9. HasBelow(of(0) \o of(1) \o of(2), z, f, 3)
  BY <1>1, <1>3, <1>8
<1> QED
  BY <1>4, <1>9

-----------------------------------------------------------------------------
(* The tables of a chunk.                                                  *)

(* The range of a zone in the table: its own elements, all materials       *)
(* different.                                                              *)
OwnRange(e, entry, z) ==
  /\ entry.start + 1 .. entry.start + entry.num = {n \in DOMAIN e : e[n].zone = z}
  /\ \A n, n2 \in entry.start + 1 .. entry.start + entry.num :
       e[n].material = e[n2].material => n = n2

(* Of the pairs of zone and material in mixed, the tables e and t hold     *)
(* those of the zones below k.                                             *)
Tables(e, t, mixed, k) ==
  /\ e \in Seq(MixElement)
  /\ t \in Seq(Entry)
  /\ Len(t) = k
  /\ \A n \in 1 .. Len(e) : e[n].zone < k
  /\ \A z \in 1 .. k : OwnRange(e, t[z], z - 1)
  /\ Len(e) = Cardinality({p \in mixed : p[1] < k})

LEMMA NoTables ==
  ASSUME NEW mixed, mixed \subseteq Nat \X Material
  PROVE  Tables(<< >>, << >>, mixed, 0)
<1>1. << >> \in Seq(MixElement) /\ << >> \in Seq(Entry) /\ Len(<< >>) = 0
  BY EmptySeq
<1>2. {p \in mixed : p[1] < 0} = {}
  OBVIOUS
<1>3. 1 .. 0 = {}
  OBVIOUS
<1> QED
  BY <1>1, <1>2, <1>3, FS_EmptySet DEF Tables

(* FillZone.                                                               *)
LEMMA NextTables ==
  ASSUME NEW e, NEW t, NEW mixed, NEW k \in Nat, NEW f \in [Material -> Nat],
         Tables(e, t, mixed, k), IsFiniteSet(mixed),
         \A p \in mixed : p[1] \in Nat,
         {p \in mixed : p[1] = k} = {<<k, m>> : m \in {m \in Material : f[m] > 0}}
  PROVE  Tables(e \o Elements(k, f),
                Append(t, [start |-> Len(e), num |-> Len(Elements(k, f))]), mixed, k + 1)
<1> DEFINE s == Elements(k, f)
           entry == [start |-> Len(e), num |-> Len(s)]
           w == e \o s
           u == Append(t, entry)
<1>1. HasBelow(s, k, f, 3)
  BY ZoneElements
<1>2. /\ s \in Seq(MixElement) /\ Len(s) \in Nat
      /\ e \in Seq(MixElement) /\ Len(e) \in Nat
      /\ t \in Seq(Entry) /\ Len(t) = k
  BY <1>1, LenProperties DEF HasBelow, Tables
<1> HIDE DEF s
<1>3. entry \in Entry /\ entry.start = Len(e) /\ entry.num = Len(s)
  BY <1>2 DEF Entry
<1>4. /\ w \in Seq(MixElement)
      /\ Len(w) = Len(e) + Len(s)
      /\ \A n \in 1 .. Len(e) + Len(s) : w[n] = IF n <= Len(e) THEN e[n] ELSE s[n - Len(e)]
  BY <1>2, ConcatProperties
<1>5. /\ u \in Seq(Entry)
      /\ Len(u) = k + 1
      /\ \A z \in 1 .. k : u[z] = t[z]
      /\ u[k + 1] = entry
  <2> HIDE DEF entry
  <2> QED
    BY <1>2, <1>3
<1> HIDE DEF w, u, entry
<1>6. DOMAIN w = 1 .. Len(e) + Len(s) /\ DOMAIN e = 1 .. Len(e)
  BY <1>2, <1>4, LenProperties
<1>7. \A n \in 1 .. Len(e) : n \in 1 .. Len(e) + Len(s) /\ w[n] = e[n] /\ w[n].zone \in Nat /\ w[n].zone < k
  <2> SUFFICES ASSUME NEW n \in 1 .. Len(e)
               PROVE  n \in 1 .. Len(e) + Len(s) /\ w[n] = e[n] /\ w[n].zone \in Nat /\ w[n].zone < k
    OBVIOUS
  <2>1. n \in 1 .. Len(e) + Len(s) /\ n <= Len(e)
    BY <1>2
  <2>2. w[n] = e[n]
    BY <1>4, <2>1
  <2>3. e[n] \in MixElement
    BY <1>2, ElementOfSeq
  <2>4. e[n].zone < k /\ e[n].zone \in Nat
    BY <2>3 DEF Tables, MixElement
  <2> QED
    BY <2>1, <2>2, <2>4
<1>8. \A n \in 1 .. Len(e) + Len(s) : ~ n <= Len(e) =>
        n - Len(e) \in 1 .. Len(s) /\ w[n] = s[n - Len(e)] /\ w[n].zone = k
  <2> SUFFICES ASSUME NEW n \in 1 .. Len(e) + Len(s), ~ n <= Len(e)
               PROVE  n - Len(e) \in 1 .. Len(s) /\ w[n] = s[n - Len(e)] /\ w[n].zone = k
    OBVIOUS
  <2>1. n - Len(e) \in 1 .. Len(s) /\ w[n] = s[n - Len(e)]
    BY <1>2, <1>4
  <2> QED
    BY <1>1, <2>1 DEF HasBelow
<1>9. \A n \in 1 .. Len(w) : w[n].zone < k + 1
  BY <1>2, <1>4, <1>7, <1>8
<1>10. ASSUME NEW z \in 1 .. k
       PROVE  OwnRange(w, u[z], z - 1)
  <2>1. z - 1 \in Nat /\ z - 1 # k
    OBVIOUS
  <2> DEFINE range == t[z].start + 1 .. t[z].start + t[z].num
  <2>2. /\ range = {n \in 1 .. Len(e) : e[n].zone = z - 1}
        /\ \A n, n2 \in range : e[n].material = e[n2].material => n = n2
    BY <1>6 DEF Tables, OwnRange
  <2> HIDE DEF range
  <2>3. {n \in 1 .. Len(e) + Len(s) : w[n].zone = z - 1} = {n \in 1 .. Len(e) : e[n].zone = z - 1}
    <3>1. ASSUME NEW n \in 1 .. Len(e) + Len(s), w[n].zone = z - 1
          PROVE  n \in 1 .. Len(e)
      BY <1>2, <1>8, <2>1, <3>1
    <3> QED
      BY <1>7, <3>1
  <2>4. \A n, n2 \in range : w[n].material = w[n2].material => n = n2
    BY <1>7, <2>2
  <2>5. u[z] = t[z]
    BY <1>5
  <2> QED
    BY <1>6, <2>2, <2>3, <2>4, <2>5 DEF OwnRange, range
<1>11. OwnRange(w, u[k + 1], k)
  <2>1. /\ entry.start + 1 = Len(e) + 1 /\ entry.start + entry.num = Len(e) + Len(s)
        /\ u[k + 1] = entry
    BY <1>3, <1>5
  <2>2. Len(e) + 1 .. Len(e) + Len(s) = {n \in 1 .. Len(e) + Len(s) : w[n].zone = k}
    <3>1. ASSUME NEW n \in 1 .. Len(e) + Len(s)
          PROVE  n \in Len(e) + 1 .. Len(e) + Len(s) <=> w[n].zone = k
      <4>1. CASE n <= Len(e)
        BY <1>2, <1>7, <4>1
      <4>2. CASE ~ n <= Len(e)
        BY <1>2, <1>8, <4>2
      <4> QED
        BY <4>1, <4>2
    <3>2. \A n \in Len(e) + 1 .. Len(e) + Len(s) : n \in 1 .. Len(e) + Len(s)
      BY <1>2
    <3> QED
      BY <3>1, <3>2
  <2>3. ASSUME NEW n \in Len(e) + 1 .. Len(e) + Len(s), NEW n2 \in Len(e) + 1 .. Len(e) + Len(s),
               w[n].material = w[n2].material
        PROVE  n = n2
    <3>1. /\ n \in 1 .. Len(e) + Len(s) /\ ~ n <= Len(e)
          /\ n2 \in 1 .. Len(e) + Len(s) /\ ~ n2 <= Len(e)
      BY <1>2
    <3>2. /\ n - Len(e) \in 1 .. Len(s) /\ w[n] = s[n - Len(e)]
          /\ n2 - Len(e) \in 1 .. Len(s) /\ w[n2] = s[n2 - Len(e)]
      BY <1>8, <3>1
    <3>3. n - Len(e) = n2 - Len(e)
      BY <1>1, <2>3, <3>2 DEF HasBelow
    <3> QED
      BY <1>2, <3>3
  <2> QED
    BY <1>6, <2>1, <2>2, <2>3 DEF OwnRange
<1>12. \A z \in 1 .. k + 1 : OwnRange(w, u[z], z - 1)
  <2>1. \A z \in 1 .. k + 1 : z \in 1 .. k \/ z = k + 1
    OBVIOUS
  <2>2. k + 1 - 1 = k
    OBVIOUS
  <2> QED
    BY <1>10, <1>11, <2>1, <2>2
<1>13. Len(w) = Cardinality({p \in mixed : p[1] < k + 1})
  <2> DEFINE T == {p \in mixed : p[1] < k}
  <2>1. {p \in mixed : p[1] < k + 1} = T \cup {p \in mixed : p[1] = k}
    BY <1>2
  <2>2. {p \in mixed : p[1] = k} = PairsBelow(k, f, 3)
    BY DEF PairsBelow, Material
  <2>3. IsFiniteSet(T) /\ T \in SUBSET mixed
    BY FS_Subset
  <2>4. \A m \in Material : <<k, m>> \notin T
    OBVIOUS
  <2>5. Cardinality(T) = Len(e)
    BY DEF Tables
  <2> HIDE DEF T
  <2>6. Cardinality(T \cup PairsBelow(k, f, 3)) = Cardinality(T) + Len(s)
    BY <1>1, <2>3, <2>4 DEF HasBelow
  <2> QED
    BY <1>4, <2>1, <2>2, <2>5, <2>6
<1>14. Tables(w, u, mixed, k + 1)
  BY <1>4, <1>5, <1>9, <1>12, <1>13 DEF Tables
<1> QED
  BY <1>14 DEF w, u, entry, s

-----------------------------------------------------------------------------
(* Painting.                                                               *)

LEMMA MeshType ==
  ASSUME mesh \in Meshes
  PROVE  /\ mesh.zones \in [Dim -> Nat \ {0}] /\ mesh.samples \in Nat \ {0}
         /\ NumZones \in Nat \ {0}
         /\ Zones \subseteq Nat
         /\ IsFiniteSet(Zones)
<1>1. mesh.zones \in [Dim -> Nat \ {0}] /\ mesh.samples \in Nat \ {0}
  BY MixtureAssumption
<1>2. mesh.zones[0] \in Nat \ {0} /\ mesh.zones[1] \in Nat \ {0} /\ mesh.zones[2] \in Nat \ {0}
  BY <1>1 DEF Dim
<1>3. \A x, y \in Nat \ {0} : x * y \in Nat \ {0}
  OBVIOUS
<1>4. NumZones \in Nat \ {0}
  BY <1>2, <1>3 DEF NumZones
<1>5. IsFiniteSet(0 .. NumZones - 1)
  BY <1>4, FS_Interval
<1> QED
  BY <1>1, <1>4, <1>5 DEF Zones

(* Where a zone is sampled.                                                *)
Places(c, z) == {[d \in Dim |-> Place(d, GlobalZone(c, z)[d], s[d])] : s \in Samples}

PlacesOf(c, z, m) == {p \in Places(c, z) : MaterialFcn(p) = m}

LEMMA ZoneMixtureIs ==
  \A c, z : ZoneMixture(c, z) = [m \in Material |-> Cardinality(PlacesOf(c, z, m))]
BY DEF ZoneMixture, Places, PlacesOf

LEMMA PlacesFinite ==
  ASSUME mesh \in Meshes, NEW c, NEW z
  PROVE  \A m : /\ IsFiniteSet(PlacesOf(c, z, m))
                /\ Cardinality(PlacesOf(c, z, m)) \in Nat
                /\ Cardinality(PlacesOf(c, z, m)) > 0 <=> \E p \in Places(c, z) : MaterialFcn(p) = m
<1> DEFINE X == 0 .. mesh.samples - 1
           D == (X \X X) \X X
           g == [t \in D |-> [d \in Dim |-> IF d = 0 THEN t[1][1] ELSE IF d = 1 THEN t[1][2] ELSE t[2]]]
           h == [t \in D |-> [d \in Dim |-> Place(d, GlobalZone(c, z)[d], g[t][d])]]
<1>1. IsFiniteSet(X)
  <2>1. mesh.samples - 1 \in Int
    BY MeshType
  <2> QED
    BY <2>1, FS_Interval
<1>2. IsFiniteSet(D)
  <2> HIDE DEF X
  <2>1. IsFiniteSet(X \X X)
    BY <1>1, FS_Product
  <2> QED
    BY <1>1, <2>1, FS_Product
<1>3. \A t \in D : g[t] \in Samples
  BY DEF Samples, Dim
<1>4. \A s \in Samples : \E t \in D : g[t] = s
  <2> SUFFICES ASSUME NEW s \in Samples PROVE \E t \in D : g[t] = s
    OBVIOUS
  <2> DEFINE t == <<<<s[0], s[1]>>, s[2]>>
  <2>1. s \in [Dim -> X] /\ 0 \in Dim /\ 1 \in Dim /\ 2 \in Dim
    BY DEF Samples, Dim
  <2> HIDE DEF X
  <2>2. t \in D
    BY <2>1
  <2>3. g[t] = [d \in Dim |-> IF d = 0 THEN s[0] ELSE IF d = 1 THEN s[1] ELSE s[2]]
    BY <2>2
  <2>4. \A d \in Dim : g[t][d] = s[d]
    BY <2>3 DEF Dim
  <2>5. g[t] = s
    BY <2>1, <2>3, <2>4
  <2> QED
    BY <2>2, <2>5
<1> HIDE DEF g, D
<1>5. h \in Surjection(D, Places(c, z))
  <2>1. ASSUME NEW t \in D PROVE h[t] \in Places(c, z)
    BY <1>3 DEF Places
  <2>2. ASSUME NEW p \in Places(c, z) PROVE \E t \in D : h[t] = p
    <3>1. PICK s \in Samples : p = [d \in Dim |-> Place(d, GlobalZone(c, z)[d], s[d])]
      BY DEF Places
    <3>2. PICK t \in D : g[t] = s
      BY <1>4
    <3>3. h[t] = p
      BY <3>1, <3>2
    <3> QED
      BY <3>3
  <2>3. h = [t \in D |-> h[t]] /\ DOMAIN h = D
    OBVIOUS
  <2> HIDE DEF h
  <2>4. h \in [D -> Places(c, z)]
    BY <2>1, <2>3
  <2> QED
    BY <2>2, <2>4 DEF Surjection
<1> HIDE DEF h
<1>6. IsFiniteSet(Places(c, z))
  BY <1>2, <1>5, FS_Surjection
<1> SUFFICES ASSUME NEW m
             PROVE  /\ IsFiniteSet(PlacesOf(c, z, m))
                    /\ Cardinality(PlacesOf(c, z, m)) \in Nat
                    /\ Cardinality(PlacesOf(c, z, m)) > 0 <=> \E p \in Places(c, z) : MaterialFcn(p) = m
  OBVIOUS
<1>7. PlacesOf(c, z, m) \in SUBSET Places(c, z)
  BY DEF PlacesOf
<1>8. IsFiniteSet(PlacesOf(c, z, m))
  BY <1>6, <1>7, FS_Subset
<1>9. /\ Cardinality(PlacesOf(c, z, m)) \in Nat
      /\ Cardinality(PlacesOf(c, z, m)) = 0 <=> PlacesOf(c, z, m) = {}
  BY <1>8, FS_CardinalityType, FS_EmptySet
<1>10. PlacesOf(c, z, m) # {} <=> \E p \in Places(c, z) : MaterialFcn(p) = m
  BY DEF PlacesOf
<1> QED
  BY <1>8, <1>9, <1>10

-----------------------------------------------------------------------------
(* The invariant.                                                          *)

(* Zones of chunk c whose elements are in the tables.                      *)
Filled(c) ==
  IF phase = "sigt" \/ c < chunk THEN NumZones ELSE IF c = chunk THEN zone ELSE 0

PhaseInv ==
  /\ mesh \in Meshes
  /\ chunk \in Nat
  /\ zone \in 0 .. NumZones
  /\ \/ phase = "paint" /\ zone = 0 /\ chunk <= NumSubdomains("R")
     \/ phase = "fill" /\ chunk < NumSubdomains("R")
     \/ phase = "sigt"

MixInv ==
  /\ DOMAIN mix = Chunks("R")
  /\ \A c \in Chunks("R") : phase = "paint" /\ c < chunk => mix[c] = Painted(c)
  /\ \A c \in Chunks("R") : phase # "paint" => mix[c] = Painted(c)

SizeInv ==
  phase # "paint" => \A c \in Chunks("R") : size[c] = Cardinality(Mixed(c))

TablesInv ==
  /\ DOMAIN element = Chunks("R")
  /\ DOMAIN zoneTable = Chunks("R")
  /\ phase = "paint" => element = Nothing /\ zoneTable = Nothing
  /\ phase # "paint" =>
       \A c \in Chunks("R") : Tables(element[c], zoneTable[c], Mixed(c), Filled(c))

MixtureInv == PhaseInv /\ MixInv /\ SizeInv /\ TablesInv

LEMMA ChunkBounds ==
  /\ NumSubdomains("R") \in Nat \ {0}
  /\ Chunks("R") = 0 .. NumSubdomains("R") - 1
<1> DEFINE n == LocalLayout("R")
<1>1. \A a \in Axis5 : OrOne(n[a]) \in Nat \ {0}
  <2>1. \A a \in Axis5 : n[a] \in Nat
    BY LocalAssumption DEF LocalLayout
  <2> QED
    BY <2>1 DEF OrOne
<1>2. OrOne(n[0]) \in Nat \ {0} /\ OrOne(n[1]) \in Nat \ {0} /\ OrOne(n[2]) \in Nat \ {0}
      /\ OrOne(n[3]) \in Nat \ {0} /\ OrOne(n[4]) \in Nat \ {0}
  BY <1>1 DEF Axis5
<1>3. Volume(n) = OrOne(n[0]) * OrOne(n[1]) * OrOne(n[2]) * OrOne(n[3]) * OrOne(n[4])
  BY DEF Volume, Run
<1>4. \A x, y \in Nat \ {0} : x * y \in Nat \ {0}
  OBVIOUS
<1> HIDE DEF n
<1>5. Volume(n) \in Nat \ {0}
  BY <1>2, <1>3, <1>4
<1> QED
  BY <1>5 DEF NumSubdomains, Chunks, n

(* What is mixed in a painted chunk.                                       *)
LEMMA PaintedFacts ==
  ASSUME mesh \in Meshes, NEW c, mix[c] = Painted(c)
  PROVE  /\ \A z \in Zones : mix[c][z] = ZoneMixture(c, z) /\ mix[c][z] \in [Material -> Nat]
         /\ IsFiniteSet(Mixed(c))
         /\ \A p \in Mixed(c) : p[1] \in Zones /\ p[1] \in Nat
         /\ \A z \in Zones : {p \in Mixed(c) : p[1] = z}
                               = {<<z, m>> : m \in {m \in Material : mix[c][z][m] > 0}}
<1>1. \A z \in Zones : mix[c][z] = ZoneMixture(c, z)
  BY DEF Painted
<1>2. \A z : ZoneMixture(c, z) \in [Material -> Nat]
  BY ZoneMixtureIs, PlacesFinite
<1>3. Zones \subseteq Nat /\ IsFiniteSet(Zones)
  BY MeshType
<1>4. IsFiniteSet(Zones \X Material)
  <2>1. IsFiniteSet(Material)
    <3> DEFINE last == 2
    <3>1. 0 \in Int /\ last \in Int
      OBVIOUS
    <3> HIDE DEF last
    <3>2. IsFiniteSet(0 .. last)
      BY <3>1, FS_Interval
    <3> QED
      BY <3>2 DEF Material, last
  <2> QED
    BY <1>3, <2>1, FS_Product
<1>5. IsFiniteSet(Mixed(c))
  <2>1. Mixed(c) \in SUBSET (Zones \X Material)
    BY DEF Mixed
  <2> QED
    BY <1>4, <2>1, FS_Subset
<1>6. \A z \in Zones : {p \in Mixed(c) : p[1] = z}
                         = {<<z, m>> : m \in {m \in Material : mix[c][z][m] > 0}}
  <2> SUFFICES ASSUME NEW z \in Zones
               PROVE  {p \in Mixed(c) : p[1] = z}
                        = {<<z, m>> : m \in {m \in Material : mix[c][z][m] > 0}}
    OBVIOUS
  <2>1. ASSUME NEW p \in Mixed(c), p[1] = z
        PROVE  p \in {<<z, m>> : m \in {m \in Material : mix[c][z][m] > 0}}
    <3>1. p \in Zones \X Material /\ mix[c][p[1]][p[2]] > 0
      BY DEF Mixed
    <3>2. p = <<z, p[2]>> /\ p[2] \in Material
      BY <2>1, <3>1
    <3> QED
      BY <2>1, <3>1, <3>2
  <2>2. ASSUME NEW m \in Material, mix[c][z][m] > 0
        PROVE  <<z, m>> \in Mixed(c) /\ <<z, m>>[1] = z
    BY <2>2 DEF Mixed
  <2> QED
    BY <2>1, <2>2
<1>7. \A p \in Mixed(c) : p[1] \in Zones
  BY DEF Mixed
<1> QED
  BY <1>1, <1>2, <1>3, <1>5, <1>6, <1>7

LEMMA InitInv == Init => MixtureInv
<1> SUFFICES ASSUME Init PROVE MixtureInv
  OBVIOUS
<1> USE DEF Init
<1>1. NumZones \in Nat \ {0}
  BY MeshType
<1>2. NumSubdomains("R") \in Nat /\ 0 <= NumSubdomains("R")
  BY ChunkBounds
<1>3. PhaseInv
  BY <1>1, <1>2 DEF PhaseInv
<1>4. MixInv
  BY ChunkBounds DEF MixInv, Nothing
<1>5. SizeInv
  BY DEF SizeInv
<1>6. TablesInv
  BY DEF TablesInv, Nothing
<1> QED
  BY <1>3, <1>4, <1>5, <1>6 DEF MixtureInv

(* What a step does not touch stays as it was.                             *)
LEMMA SameMesh ==
  ASSUME UNCHANGED mesh
  PROVE  /\ NumZones' = NumZones /\ Zones' = Zones /\ Meshes' = Meshes
         /\ \A c : Painted(c)' = Painted(c)
BY DEF NumZones, Zones, Painted, ZoneMixture, Place, GlobalZone, LowerZone, ZoneIndex, Scale,
       Samples, MaterialFcn, Region1, Region2, Within, AbsValue

LEMMA SameMixed ==
  ASSUME UNCHANGED <<mesh, mix>>
  PROVE  \A c : Mixed(c)' = Mixed(c)
BY SameMesh DEF Mixed

LEMMA PaintInv ==
  ASSUME MixtureInv, Paint
  PROVE  MixtureInv'
<1> USE DEF Paint
<1>1. PhaseInv /\ MixInv /\ TablesInv
  BY DEF MixtureInv
<1>2. NumSubdomains("R") \in Nat /\ Chunks("R") = 0 .. NumSubdomains("R") - 1
  BY ChunkBounds
<1>3. PhaseInv'
  BY <1>1, <1>2, SameMesh DEF PhaseInv
<1>4. MixInv'
  <2>1. DOMAIN mix' = Chunks("R")
    BY <1>1 DEF MixInv
  <2>2. ASSUME NEW c \in Chunks("R"), c < chunk + 1
        PROVE  mix'[c] = Painted(c)
    <3>1. CASE c = chunk
      BY <1>1, <2>2, <3>1 DEF MixInv
    <3>2. CASE c < chunk
      BY <1>1, <2>2, <3>2 DEF MixInv
    <3>3. c \in Int /\ chunk \in Int
      BY <1>1, <1>2 DEF PhaseInv
    <3> QED
      BY <2>2, <3>1, <3>2, <3>3
  <2> QED
    BY <2>1, <2>2, SameMesh DEF MixInv
<1>5. SizeInv'
  BY DEF SizeInv
<1>6. TablesInv'
  BY <1>1 DEF TablesInv
<1> QED
  BY <1>3, <1>4, <1>5, <1>6 DEF MixtureInv

LEMMA CountMixedInv ==
  ASSUME MixtureInv, CountMixed
  PROVE  MixtureInv'
<1> USE DEF CountMixed
<1>1. PhaseInv /\ MixInv /\ TablesInv
  BY DEF MixtureInv
<1>2. NumSubdomains("R") \in Nat \ {0} /\ Chunks("R") = 0 .. NumSubdomains("R") - 1
  BY ChunkBounds
<1>3. PhaseInv'
  BY <1>1, <1>2, SameMesh DEF PhaseInv
<1>4. \A c \in Chunks("R") : c < chunk /\ c \in Nat
  BY <1>2
<1>5. MixInv'
  BY <1>1, <1>4, SameMesh DEF MixInv
<1>6. SizeInv'
  BY SameMixed DEF SizeInv
<1>7. TablesInv'
  <2>1. ASSUME NEW c \in Chunks("R")
        PROVE  Tables(element[c], zoneTable[c], Mixed(c), 0)
    <3>1. element[c] = << >> /\ zoneTable[c] = << >>
      BY <1>1 DEF TablesInv, Nothing
    <3>2. Mixed(c) \subseteq Nat \X Material
      <4>1. Zones \subseteq Nat
        BY <1>1, MeshType DEF PhaseInv
      <4> QED
        BY <4>1 DEF Mixed
    <3> QED
      BY <3>1, <3>2, NoTables
  <2>2. \A c \in Chunks("R") : Filled(c)' = 0
    BY <1>1, <1>4, SameMesh DEF Filled, PhaseInv
  <2>3. \A c : Mixed(c)' = Mixed(c)
    BY SameMixed
  <2>4. \A c \in Chunks("R") : Tables(element'[c], zoneTable'[c], Mixed(c)', Filled(c)')
    BY <2>1, <2>2, <2>3
  <2> QED
    BY <1>1, <2>4 DEF TablesInv
<1> QED
  BY <1>3, <1>5, <1>6, <1>7 DEF MixtureInv

LEMMA FillZoneInv ==
  ASSUME MixtureInv, FillZone
  PROVE  MixtureInv'
<1> USE DEF FillZone
<1>1. PhaseInv /\ MixInv /\ SizeInv /\ TablesInv
  BY DEF MixtureInv
<1>2. NumSubdomains("R") \in Nat \ {0} /\ Chunks("R") = 0 .. NumSubdomains("R") - 1
  BY ChunkBounds
<1>3. mesh \in Meshes /\ NumZones \in Nat /\ zone \in Zones /\ zone \in Nat
      /\ chunk \in Chunks("R") /\ chunk \in Nat
  BY <1>1, <1>2, MeshType DEF PhaseInv, Zones
<1>4. PhaseInv'
  BY <1>1, <1>3, SameMesh DEF PhaseInv
<1>5. MixInv'
  BY <1>1, SameMesh DEF MixInv
<1>6. SizeInv'
  BY <1>1, SameMixed DEF SizeInv
<1>7. TablesInv'
  <2> DEFINE e == element[chunk] \o Elements(zone, mix[chunk][zone])
             t == Append(zoneTable[chunk], [start |-> Len(element[chunk]),
                                            num |-> Len(Elements(zone, mix[chunk][zone]))])
  <2>1. /\ element' = [element EXCEPT ![chunk] = e]
        /\ zoneTable' = [zoneTable EXCEPT ![chunk] = t]
    OBVIOUS
  <2>2. Tables(e, t, Mixed(chunk), zone + 1)
    <3>1. mix[chunk] = Painted(chunk)
      BY <1>1, <1>3 DEF MixInv
    <3>2. /\ mix[chunk][zone] \in [Material -> Nat]
          /\ IsFiniteSet(Mixed(chunk)) /\ \A p \in Mixed(chunk) : p[1] \in Nat
          /\ {p \in Mixed(chunk) : p[1] = zone}
               = {<<zone, m>> : m \in {m \in Material : mix[chunk][zone][m] > 0}}
      BY <1>3, <3>1, PaintedFacts
    <3>3. Tables(element[chunk], zoneTable[chunk], Mixed(chunk), zone)
      <4>1. Filled(chunk) = zone
        BY <1>3 DEF Filled
      <4> QED
        BY <1>1, <1>3, <4>1 DEF TablesInv
    <3> QED
      BY <1>3, <3>2, <3>3, NextTables
  <2> HIDE DEF e, t
  <2>3. DOMAIN element = Chunks("R") /\ DOMAIN zoneTable = Chunks("R")
    BY <1>1 DEF TablesInv
  <2>4. DOMAIN element' = Chunks("R") /\ DOMAIN zoneTable' = Chunks("R")
    BY <2>1, <2>3
  <2>5. ASSUME NEW c \in Chunks("R")
        PROVE  Tables(element'[c], zoneTable'[c], Mixed(c)', Filled(c)')
    <3>1. Mixed(c)' = Mixed(c)
      BY SameMixed
    <3>2. CASE c = chunk
      <4>1. element'[c] = e /\ zoneTable'[c] = t
        BY <2>1, <2>3, <2>5, <3>2
      <4>2. Filled(c)' = zone + 1
        BY <1>3, <3>2, SameMesh DEF Filled
      <4> QED
        BY <2>2, <3>1, <3>2, <4>1, <4>2
    <3>3. CASE c # chunk
      <4>1. element'[c] = element[c] /\ zoneTable'[c] = zoneTable[c]
        BY <2>1, <2>3, <2>5, <3>3
      <4>2. Filled(c)' = Filled(c)
        BY <3>3, SameMesh DEF Filled
      <4>3. Tables(element[c], zoneTable[c], Mixed(c), Filled(c))
        BY <1>1 DEF TablesInv
      <4> QED
        BY <3>1, <4>1, <4>2, <4>3
    <3> QED
      BY <3>2, <3>3
  <2>6. phase' # "paint"
    OBVIOUS
  <2> QED
    BY <2>4, <2>5, <2>6 DEF TablesInv
<1> QED
  BY <1>4, <1>5, <1>6, <1>7 DEF MixtureInv

LEMMA FillDoneInv ==
  ASSUME MixtureInv, FillDone
  PROVE  MixtureInv'
<1> USE DEF FillDone
<1>1. PhaseInv /\ MixInv /\ SizeInv /\ TablesInv
  BY DEF MixtureInv
<1>2. NumSubdomains("R") \in Nat \ {0} /\ Chunks("R") = 0 .. NumSubdomains("R") - 1
  BY ChunkBounds
<1>3. NumZones \in Nat /\ chunk \in Nat /\ chunk < NumSubdomains("R")
  BY <1>1, MeshType DEF PhaseInv
<1>4. phase' \in {"fill", "sigt"}
  OBVIOUS
<1>5. PhaseInv'
  BY <1>1, <1>2, <1>3, SameMesh DEF PhaseInv
<1>6. MixInv'
  BY <1>1, <1>4, SameMesh DEF MixInv
<1>7. SizeInv'
  BY <1>1, SameMixed DEF SizeInv
<1>8. TablesInv'
  <2>1. \A c \in Chunks("R") : Filled(c)' = Filled(c)
    <3> SUFFICES ASSUME NEW c \in Chunks("R") PROVE Filled(c)' = Filled(c)
      OBVIOUS
    <3>1. c \in Nat /\ c < NumSubdomains("R")
      BY <1>2
    <3>2. CASE chunk + 1 = NumSubdomains("R")
      <4>1. phase' = "sigt" /\ (c < chunk \/ c = chunk)
        BY <1>2, <1>3, <3>1, <3>2
      <4> QED
        BY <1>3, <3>2, <4>1, SameMesh DEF Filled
    <3>3. CASE chunk + 1 # NumSubdomains("R")
      <4>1. phase' = phase /\ chunk' = chunk + 1 /\ phase # "sigt"
        BY <3>3
      <4>2. CASE c < chunk
        BY <1>3, <3>1, <4>1, <4>2, SameMesh DEF Filled
      <4>3. CASE c = chunk
        BY <1>3, <3>1, <4>1, <4>3, SameMesh DEF Filled
      <4>4. CASE c > chunk
        BY <1>3, <3>1, <4>1, <4>4, SameMesh DEF Filled
      <4> QED
        BY <1>3, <3>1, <4>2, <4>3, <4>4
    <3> QED
      BY <3>2, <3>3
  <2>2. \A c \in Chunks("R") : Tables(element[c], zoneTable[c], Mixed(c), Filled(c))
    BY <1>1 DEF TablesInv
  <2>3. \A c \in Chunks("R") : Tables(element'[c], zoneTable'[c], Mixed(c)', Filled(c)')
    BY <2>1, <2>2, SameMixed
  <2> QED
    BY <1>1, <1>4, <2>3 DEF TablesInv
<1> QED
  BY <1>5, <1>6, <1>7, <1>8 DEF MixtureInv

LEMMA CollapseInv ==
  ASSUME MixtureInv, CollapseSigt \/ Done \/ UNCHANGED vars
  PROVE  MixtureInv'
<1>1. PhaseInv /\ MixInv /\ SizeInv /\ TablesInv
  BY DEF MixtureInv
<1>2. /\ UNCHANGED <<mesh, phase, zone, mix, size, element, zoneTable>>
      /\ chunk' = chunk \/ (phase = "sigt" /\ chunk' = chunk + 1)
  <2>1. CASE CollapseSigt
    BY <2>1 DEF CollapseSigt
  <2>2. CASE Done \/ UNCHANGED vars
    BY <2>2 DEF Done, vars
  <2> QED
    BY <2>1, <2>2
<1>3. PhaseInv'
  BY <1>1, <1>2, SameMesh DEF PhaseInv
<1>4. MixInv'
  BY <1>1, <1>2, SameMesh DEF MixInv
<1>5. SizeInv'
  BY <1>1, <1>2, SameMixed DEF SizeInv
<1>6. TablesInv'
  <2>1. \A c : Filled(c)' = Filled(c)
    BY <1>2, SameMesh DEF Filled
  <2> QED
    BY <1>1, <1>2, <2>1, SameMixed DEF TablesInv
<1> QED
  BY <1>3, <1>4, <1>5, <1>6 DEF MixtureInv

(* While a mesh is painted, counted and filled in, the tables hold exactly *)
(* the materials of the zones done so far.                                 *)
THEOREM MixtureInvariant == Spec => []MixtureInv
<1>1. MixtureInv /\ [Next]_vars => MixtureInv'
  BY PaintInv, CountMixedInv, FillZoneInv, FillDoneInv, CollapseInv DEF Next
<1> QED
  BY <1>1, InitInv, PTL DEF Spec

(* The invariant of a chunk that is past the count, zone by zone.          *)
LEMMA FilledBounds ==
  ASSUME MixtureInv, phase # "paint", NEW c \in Chunks("R")
  PROVE  /\ Filled(c) \in 0 .. NumZones
         /\ element[c] \in Seq(MixElement) /\ DOMAIN element[c] = 1 .. Len(element[c])
         /\ Len(zoneTable[c]) = Filled(c)
         /\ Tables(element[c], zoneTable[c], Mixed(c), Filled(c))
         /\ size[c] = Cardinality(Mixed(c))
         /\ mix[c] = Painted(c)
<1>1. PhaseInv /\ MixInv /\ SizeInv /\ TablesInv
  BY DEF MixtureInv
<1>2. Filled(c) \in 0 .. NumZones
  <2>1. NumZones \in Nat
    BY <1>1, MeshType DEF PhaseInv
  <2> QED
    BY <1>1, <2>1 DEF Filled, PhaseInv
<1>3. Tables(element[c], zoneTable[c], Mixed(c), Filled(c))
  BY <1>1 DEF TablesInv
<1>4. element[c] \in Seq(MixElement) /\ Len(zoneTable[c]) = Filled(c)
  BY <1>3 DEF Tables
<1>5. DOMAIN element[c] = 1 .. Len(element[c])
  BY <1>4, LenProperties
<1> QED
  BY <1>1, <1>2, <1>3, <1>4, <1>5 DEF SizeInv, MixInv

(* A zone's range in the tables is its own elements and has no material    *)
(* twice, and what is filled in fits what was counted.                     *)
THEOREM RangesAreOwn == Spec => []RangesMatchZones
<1>1. MixtureInv => RangesMatchZones
  <2> SUFFICES ASSUME MixtureInv PROVE RangesMatchZones
    OBVIOUS
  <2>1. PhaseInv /\ TablesInv
    BY DEF MixtureInv
  <2>2. TablesFit
    <3> SUFFICES ASSUME phase = "fill" PROVE TablesFit
      BY DEF TablesFit
    <3>1. ASSUME NEW c \in Chunks("R")
          PROVE  /\ Len(element[c]) <= size[c]
                 /\ Filled(c) = NumZones => Len(element[c]) = size[c]
      <4> DEFINE T == {p \in Mixed(c) : p[1] < Filled(c)}
      <4>1. /\ Filled(c) \in 0 .. NumZones
            /\ Len(element[c]) = Cardinality(T)
            /\ size[c] = Cardinality(Mixed(c))
        BY FilledBounds DEF Tables
      <4>2. IsFiniteSet(Mixed(c)) /\ \A p \in Mixed(c) : p[1] \in Zones
        BY <2>1, FilledBounds, PaintedFacts DEF PhaseInv
      <4>3. T \in SUBSET Mixed(c)
        OBVIOUS
      <4>4. Filled(c) = NumZones => T = Mixed(c)
        <5>1. NumZones \in Int
          BY <2>1, MeshType DEF PhaseInv
        <5> QED
          BY <4>2, <5>1 DEF Zones
      <4> HIDE DEF T
      <4>5. Cardinality(T) <= Cardinality(Mixed(c))
        BY <4>2, <4>3, FS_Subset
      <4> QED
        BY <4>1, <4>4, <4>5
    <3>2. chunk \in Chunks("R") /\ Filled(chunk) = zone
      BY <2>1, ChunkBounds DEF PhaseInv, Filled
    <3> QED
      BY <3>1, <3>2 DEF TablesFit
  <2>3. ASSUME NEW c \in Chunks("R"), NEW z \in 1 .. Len(zoneTable[c])
        PROVE  OwnRange(element[c], zoneTable[c][z], z - 1)
    <3>1. CASE phase = "paint"
      <4>1. zoneTable[c] = << >>
        BY <2>1, <3>1 DEF TablesInv, Nothing
      <4>2. Len(zoneTable[c]) = 0
        BY <4>1, EmptySeq
      <4> QED
        BY <2>3, <4>2
    <3>2. CASE phase # "paint"
      <4>1. /\ Tables(element[c], zoneTable[c], Mixed(c), Filled(c))
            /\ Len(zoneTable[c]) = Filled(c)
        BY <3>2, FilledBounds
      <4> QED
        BY <2>3, <4>1 DEF Tables
    <3> QED
      BY <3>1, <3>2
  <2> QED
    BY <2>2, <2>3 DEF RangesMatchZones, OwnRange
<1> QED
  BY <1>1, MixtureInvariant, PTL

(* What Kernels assumes of its mixture tables: a zone has a material at    *)
(* most once in all of a chunk's elements.                                 *)
MaterialsDiffer ==
  phase # "paint" =>
    \A c \in Chunks("R") : \A n, n2 \in DOMAIN element[c] :
      /\ element[c][n].zone \in Nat /\ element[c][n].material \in Nat
      /\ element[c][n].zone = element[c][n2].zone
           /\ element[c][n].material = element[c][n2].material => n = n2

(* The tables generateSpace builds are those the kernels are proved for.   *)
THEOREM TablesSuitKernels == Spec => []MaterialsDiffer
<1>1. MixtureInv => MaterialsDiffer
  <2> SUFFICES ASSUME MixtureInv, phase # "paint", NEW c \in Chunks("R"),
                      NEW n \in DOMAIN element[c], NEW n2 \in DOMAIN element[c]
               PROVE  /\ element[c][n].zone \in Nat /\ element[c][n].material \in Nat
                      /\ element[c][n].zone = element[c][n2].zone
                           /\ element[c][n].material = element[c][n2].material => n = n2
    BY DEF MaterialsDiffer
  <2>1. /\ Filled(c) \in 0 .. NumZones
        /\ element[c] \in Seq(MixElement) /\ DOMAIN element[c] = 1 .. Len(element[c])
        /\ Tables(element[c], zoneTable[c], Mixed(c), Filled(c))
    BY FilledBounds
  <2>2. element[c][n] \in MixElement
    BY <2>1, ElementOfSeq
  <2>3. element[c][n].zone \in Nat /\ element[c][n].material \in Nat
    BY <2>2 DEF MixElement, Material
  <2>4. ASSUME element[c][n].zone = element[c][n2].zone,
               element[c][n].material = element[c][n2].material
        PROVE  n = n2
    <3> DEFINE z == element[c][n].zone + 1
               entry == zoneTable[c][z]
    <3>1. z \in 1 .. Filled(c) /\ z - 1 = element[c][n].zone
      <4>1. element[c][n].zone < Filled(c)
        BY <2>1 DEF Tables
      <4>2. Filled(c) \in Int
        BY <2>1
      <4> QED
        BY <2>3, <4>1, <4>2
    <3> HIDE DEF z
    <3>2. OwnRange(element[c], entry, z - 1)
      BY <2>1, <3>1 DEF Tables
    <3> HIDE DEF entry
    <3>3. /\ n \in entry.start + 1 .. entry.start + entry.num
          /\ n2 \in entry.start + 1 .. entry.start + entry.num
      BY <2>4, <3>1, <3>2 DEF OwnRange
    <3> QED
      BY <2>4, <3>2, <3>3 DEF OwnRange
  <2> QED
    BY <2>3, <2>4
<1> QED
  BY <1>1, MixtureInvariant, PTL

-----------------------------------------------------------------------------
(* Division.                                                               *)

LEMMA DivMod ==
  ASSUME NEW a \in Int, NEW b \in Nat \ {0}
  PROVE  /\ a \div b \in Int
         /\ a % b \in 0 .. b - 1
         /\ a = b * (a \div b) + (a % b)
OBVIOUS

(* Multiples of b that are not equal are b apart.                          *)
LEMMA Apart ==
  ASSUME NEW p \in Int, NEW q \in Int, NEW b \in Nat \ {0}, p < q
  PROVE  b * p + b <= b * q
<1>1. PICK k \in Nat : q = p + 1 + k
  <2>1. q - p - 1 \in Nat
    OBVIOUS
  <2> QED
    BY <2>1
<1>2. b * q = b * (p + 1) + b * k
  BY <1>1
<1>3. b * (p + 1) = b * p + b /\ b * k >= 0
  BY <1>1
<1> QED
  BY <1>2, <1>3

(* Quotient and remainder are the only pair that adds up.                  *)
LEMMA DivModUnique ==
  ASSUME NEW a \in Int, NEW b \in Nat \ {0}, NEW q \in Int, NEW r \in 0 .. b - 1,
         a = b * q + r
  PROVE  a \div b = q /\ a % b = r
<1>1. /\ a \div b \in Int
      /\ a % b \in 0 .. b - 1
      /\ a = b * (a \div b) + (a % b)
  BY DivMod
<1> DEFINE p == a \div b
<1> HIDE DEF p
<1>2. ~ p < q
  BY <1>1, Apart DEF p
<1>3. ~ q < p
  BY <1>1, Apart DEF p
<1>4. p = q
  BY <1>1, <1>2, <1>3 DEF p
<1> QED
  BY <1>1, <1>4 DEF p

(* A number below the product of two extents has a quotient below the      *)
(* first, and the product of coordinates in range is below it.             *)
LEMMA DivInRange ==
  ASSUME NEW b \in Nat \ {0}, NEW m \in Nat \ {0}
  PROVE  /\ \A a \in 0 .. m * b - 1 : a \div b \in 0 .. m - 1
         /\ \A q \in 0 .. m - 1, r \in 0 .. b - 1 : b * q + r \in 0 .. m * b - 1
<1>1. ASSUME NEW a \in 0 .. m * b - 1
      PROVE  a \div b \in 0 .. m - 1
  <2>0. a \in Int /\ m * b \in Int /\ 0 <= a /\ a < m * b
    OBVIOUS
  <2> DEFINE p == a \div b
  <2>1. p \in Int /\ b * p <= a /\ a < b * p + b
    BY <2>0, DivMod
  <2> HIDE DEF p
  <2>2. ~ p < 0
    <3>1. SUFFICES ASSUME p < 0 PROVE FALSE
      OBVIOUS
    <3>2. b * p + b <= b * 0
      BY <2>1, <3>1, Apart
    <3> QED
      BY <2>0, <2>1, <3>2
  <2>3. p < m
    <3>1. SUFFICES ASSUME ~ p < m PROVE FALSE
      OBVIOUS
    <3>2. b * m <= b * p
      <4>1. CASE p = m
        BY <4>1
      <4>2. CASE m < p
        BY <4>2, <2>1, Apart
      <4> QED
        BY <2>1, <3>1, <4>1, <4>2
    <3>3. b * m = m * b
      OBVIOUS
    <3> QED
      BY <2>0, <2>1, <3>2, <3>3
  <2> QED
    BY <2>1, <2>2, <2>3 DEF p
<1>2. ASSUME NEW q \in 0 .. m - 1, NEW r \in 0 .. b - 1
      PROVE  b * q + r \in 0 .. m * b - 1
  <2>1. b * q + b <= b * m
    BY Apart
  <2>2. b * m = m * b /\ b * q \in Nat
    OBVIOUS
  <2> QED
    BY <2>1, <2>2
<1> QED
  BY <1>1, <1>2

-----------------------------------------------------------------------------
(* Where the chunks are.                                                   *)

(* Two digits and what is left of a number below b * m * k.                *)
LEMMA ThreeDigits ==
  ASSUME NEW b \in Nat \ {0}, NEW m \in Nat \ {0}, NEW k \in Nat \ {0},
         NEW a \in 0 .. k * (m * b) - 1
  PROVE  /\ a \div (m * b) \in 0 .. k - 1
         /\ (a \div (m * b)) % k = a \div (m * b)
         /\ (a \div b) % m \in 0 .. m - 1 /\ a % b \in 0 .. b - 1
         /\ a = (m * b) * (a \div (m * b)) + (b * ((a \div b) % m) + (a % b))
<1> DEFINE q == a \div b
           t == a % b
           i == q % m
           p == q \div m
           W == m * b
<1>1. a \in Int /\ W \in Nat \ {0}
  OBVIOUS
<1>2. q \in Int /\ t \in 0 .. b - 1 /\ a = b * q + t
  BY <1>1, DivMod
<1>3. p \in Int /\ i \in 0 .. m - 1 /\ q = m * p + i
  BY <1>2, DivMod
<1>4. a \div W \in 0 .. k - 1
  BY <1>1, DivInRange
<1> HIDE DEF p, i, q, t
<1>5. b * i + t \in 0 .. m * b - 1
  BY <1>2, <1>3, DivInRange
<1>6. b * q = b * (m * p) + b * i /\ b * (m * p) = (m * b) * p
  BY <1>3
<1> DEFINE x == b * i + t
<1>7. x \in 0 .. W - 1 /\ a = W * p + x
  <2>1. x \in 0 .. W - 1
    BY <1>5
  <2>2. b * i \in Int /\ W * p \in Int /\ b * q = W * p + b * i /\ t \in Int
    BY <1>2, <1>3, <1>6
  <2> HIDE DEF W
  <2>3. a = W * p + (b * i + t)
    BY <1>2, <2>2
  <2> QED
    BY <2>1, <2>3
<1> HIDE DEF x
<1>8. a \div W = p
  <2> HIDE DEF W
  <2> QED
    BY <1>1, <1>3, <1>7, DivModUnique
<1>9. p % k = p
  <2>1. p \in 0 .. k - 1 /\ p = k * 0 + p /\ p \in Int
    BY <1>4, <1>8
  <2>2. p \div k = 0 /\ p % k = p
    BY <2>1, DivModUnique
  <2> QED
    BY <2>2
<1> QED
  BY <1>2, <1>3, <1>4, <1>7, <1>8, <1>9 DEF x, i, q, t

(* A chunk over space is stood for by the subdomain of the same number,    *)
(* which lies where the chunk does.                                        *)
LEMMA ChunkIsPlace ==
  ASSUME NEW c \in Chunks("R")
  PROVE  /\ WorkList("R")[c] = c
         /\ \A d \in Dim : /\ SdomIdToCoord(c)[d + 2] = ToIndices(LocalLayout("R"), c)[d + 2]
                           /\ SdomIdToCoord(c)[d + 2] \in 0 .. NumLocal[d + 2] - 1
<1> DEFINE n == LocalLayout("R")
           full == LocalLayout("PQR")
           X == NumLocal[2]
           Y == NumLocal[3]
           Z == NumLocal[4]
<1>1. \A a \in Axis5 : NumLocal[a] \in Nat \ {0}
  BY LocalAssumption
<1>2. 0 \in Axis5 /\ 1 \in Axis5 /\ 2 \in Axis5 /\ 3 \in Axis5 /\ 4 \in Axis5
  BY DEF Axis5
<1>3. X \in Nat \ {0} /\ Y \in Nat \ {0} /\ Z \in Nat \ {0}
  BY <1>1, <1>2
<1>4. /\ n[0] = 0 /\ n[1] = 0 /\ n[2] = X /\ n[3] = Y /\ n[4] = Z
      /\ \A a \in Axis5 : full[a] = NumLocal[a]
  BY <1>2 DEF LocalLayout, AxesOf
<1>5. /\ OrOne(n[0]) = 1 /\ OrOne(n[1]) = 1 /\ OrOne(n[2]) = X /\ OrOne(n[3]) = Y /\ OrOne(n[4]) = Z
      /\ \A a \in Axis5 : OrOne(full[a]) = NumLocal[a] /\ full[a] # 0
  BY <1>1, <1>3, <1>4 DEF OrOne
<1> HIDE DEF X, Y, Z, n, full
<1>6. \A x \in Nat : x * 1 = x /\ 1 * x = x
  OBVIOUS
<1>7. Y * Z \in Nat \ {0} /\ X * Y \in Nat /\ X * Y * Z = X * (Y * Z)
  BY <1>3
<1>8. Run(n, 4) = 1 /\ Run(n, 3) = Z /\ Run(n, 2) = Y * Z /\ Volume(n) = X * (Y * Z)
  <2>1. Run(n, 4) = 1 * 1 * 1 * 1 * 1
    BY DEF Run
  <2>2. Run(n, 3) = 1 * 1 * 1 * 1 * Z
    BY <1>5 DEF Run
  <2>3. Run(n, 2) = 1 * 1 * 1 * Y * Z
    BY <1>5 DEF Run
  <2>4. Volume(n) = 1 * 1 * X * Y * Z
    BY <1>5 DEF Run, Volume
  <2> QED
    BY <1>3, <1>6, <1>7, <2>1, <2>2, <2>3, <2>4
<1>9. Run(full, 4) = 1 /\ Run(full, 3) = Z /\ Run(full, 2) = Y * Z
  <2>1. OrOne(full[3]) = Y /\ OrOne(full[4]) = Z
    BY <1>2, <1>5 DEF Y, Z
  <2>2. Run(full, 4) = 1 * 1 * 1 * 1 * 1
    BY DEF Run
  <2>3. Run(full, 3) = 1 * 1 * 1 * 1 * Z
    BY <2>1 DEF Run
  <2>4. Run(full, 2) = 1 * 1 * 1 * Y * Z
    BY <2>1 DEF Run
  <2> QED
    BY <1>3, <1>6, <1>7, <2>2, <2>3, <2>4
<1>10. c \in 0 .. X * (Y * Z) - 1 /\ c \in Int
  BY <1>8 DEF Chunks, NumSubdomains, n
<1> DEFINE cx == c \div (Y * Z)
           cy == (c \div Z) % Y
           cz == c % Z
<1>11. /\ cx \in 0 .. X - 1 /\ cx % X = cx
       /\ cy \in 0 .. Y - 1 /\ cz \in 0 .. Z - 1
       /\ c = (Y * Z) * cx + (Z * cy + cz)
  BY <1>3, <1>10, ThreeDigits
<1>12. c \div 1 = c
  BY <1>10
<1>13. /\ ToIndices(n, c)[2] = cx
       /\ ToIndices(n, c)[3] = cy
       /\ ToIndices(n, c)[4] = cz
       /\ ToIndices(n, c)[0] = 0 /\ ToIndices(n, c)[1] = 0
  <2>1. c % 1 = 0
    BY <1>10
  <2>2. X # 0 /\ Y # 0 /\ Z # 0
    BY <1>3
  <2> QED
    BY <1>2, <1>4, <1>5, <1>8, <1>11, <1>12, <2>1, <2>2 DEF ToIndices
<1>14. SpaceToSubdomain("R", c) = c
  <2> DEFINE idx == ToIndices(n, c)
  <2>1. SpaceToSubdomain("R", c) = Linearize(full, idx)
    BY DEF SpaceToSubdomain, n, full
  <2>2. /\ Along(full, idx, 0) = 0 * Run(full, 0) /\ Along(full, idx, 1) = 0 * Run(full, 1)
        /\ Along(full, idx, 2) = cx * (Y * Z) /\ Along(full, idx, 3) = cy * Z
        /\ Along(full, idx, 4) = cz * 1
    BY <1>2, <1>5, <1>9, <1>13 DEF Along
  <2>3. Run(full, 0) \in Nat /\ Run(full, 1) \in Nat
    <3>1. \A a \in Axis5 : OrOne(full[a]) \in Nat
      BY <1>1, <1>5
    <3>2. OrOne(full[0]) \in Nat /\ OrOne(full[1]) \in Nat /\ OrOne(full[2]) \in Nat
          /\ OrOne(full[3]) \in Nat /\ OrOne(full[4]) \in Nat
      BY <1>2, <3>1
    <3>3. /\ Run(full, 0) = 1 * OrOne(full[1]) * OrOne(full[2]) * OrOne(full[3]) * OrOne(full[4])
          /\ Run(full, 1) = 1 * 1 * OrOne(full[2]) * OrOne(full[3]) * OrOne(full[4])
      BY DEF Run
    <3>4. \A x, y \in Nat : x * y \in Nat
      OBVIOUS
    <3> QED
      BY <3>2, <3>3, <3>4
  <2>4. 0 * Run(full, 0) = 0 /\ 0 * Run(full, 1) = 0
    BY <2>3
  <2>5. cx * (Y * Z) = (Y * Z) * cx /\ cy * Z = Z * cy /\ cz * 1 = cz
        /\ (Y * Z) * cx \in Int /\ Z * cy \in Int /\ cz \in Int
    BY <1>3, <1>7, <1>11
  <2> HIDE DEF cx, cy, cz, idx
  <2>6. Linearize(full, idx) = (Y * Z) * cx + Z * cy + cz
    BY <2>2, <2>4, <2>5 DEF Linearize
  <2> QED
    BY <1>11, <2>1, <2>5, <2>6
<1>15. WorkList("R")[c] = c
  BY <1>14 DEF WorkList
<1>16. /\ SdomIdToCoord(c)[2] = cx
       /\ SdomIdToCoord(c)[3] = cy
       /\ SdomIdToCoord(c)[4] = cz
  <2>1. /\ OrOne(full[2]) = X /\ OrOne(full[3]) = Y /\ OrOne(full[4]) = Z
        /\ full[2] # 0 /\ full[3] # 0 /\ full[4] # 0
    BY <1>2, <1>5 DEF X, Y, Z
  <2>2. SdomIdToCoord(c) = ToIndices(full, c)
    BY DEF SdomIdToCoord, full
  <2> QED
    BY <1>2, <1>9, <1>11, <1>12, <2>1, <2>2 DEF ToIndices
<1>17. \A d \in Dim : d + 2 = 2 \/ d + 2 = 3 \/ d + 2 = 4
  BY DEF Dim
<1> QED
  BY <1>11, <1>13, <1>15, <1>16, <1>17 DEF X, Y, Z, n

LEMMA GlobalZoneType ==
  ASSUME mesh \in Meshes, NEW c \in Chunks("R"), NEW z \in Zones, NEW d \in Dim
  PROVE  /\ ZoneIndex(z)[d] \in 0 .. mesh.zones[d] - 1
         /\ GlobalZone(c, z)[d] = ToIndices(LocalLayout("R"), c)[d + 2] * mesh.zones[d] + ZoneIndex(z)[d]
         /\ GlobalZone(c, z)[d] \in Int
<1>1. mesh.zones \in [Dim -> Nat \ {0}]
  BY MeshType
<1> DEFINE I == mesh.zones[0]
           J == mesh.zones[1]
           K == mesh.zones[2]
<1>2. I \in Nat \ {0} /\ J \in Nat \ {0} /\ K \in Nat \ {0} /\ mesh.zones[d] \in Nat \ {0}
  BY <1>1 DEF Dim
<1>3. ZoneIndex(z)[d] \in 0 .. mesh.zones[d] - 1
  <2>1. z \in 0 .. I * J * K - 1
    BY DEF Zones, NumZones
  <2> HIDE DEF I, J, K
  <2>2. I * J * K = K * (J * I) /\ J * I = I * J
    BY <1>2
  <2>3. z \in 0 .. K * (J * I) - 1
    BY <2>1, <2>2
  <2>4. /\ z \div (J * I) \in 0 .. K - 1
        /\ (z \div I) % J \in 0 .. J - 1 /\ z % I \in 0 .. I - 1
    BY <1>2, <2>3, ThreeDigits
  <2>5. z \div (I * J) \in 0 .. K - 1
    BY <2>2, <2>4
  <2>6. CASE d = 0
    BY <2>4, <2>6 DEF ZoneIndex, I, J, K
  <2>7. CASE d = 1
    BY <2>4, <2>7 DEF ZoneIndex, I, J, K
  <2>8. CASE d = 2
    BY <2>5, <2>8 DEF ZoneIndex, I, J, K
  <2> QED
    BY <2>6, <2>7, <2>8 DEF Dim
<1>4. /\ WorkList("R")[c] = c
      /\ SdomIdToCoord(c)[d + 2] = ToIndices(LocalLayout("R"), c)[d + 2]
      /\ SdomIdToCoord(c)[d + 2] \in 0 .. NumLocal[d + 2] - 1
  BY ChunkIsPlace
<1>5. GlobalZone(c, z)[d] = ToIndices(LocalLayout("R"), c)[d + 2] * mesh.zones[d] + ZoneIndex(z)[d]
  BY <1>4 DEF GlobalZone, LowerZone
<1>6. ToIndices(LocalLayout("R"), c)[d + 2] \in Int
  BY <1>4
<1> QED
  BY <1>2, <1>3, <1>5, <1>6

-----------------------------------------------------------------------------
(* The mirror.                                                             *)

Mirror(p) == [d \in Dim |-> -p[d]]

LEMMA MirrorFacts ==
  ASSUME NEW p \in [Dim -> Int]
  PROVE  Mirror(p) \in [Dim -> Int] /\ Mirror(Mirror(p)) = p /\ MaterialFcn(Mirror(p)) = MaterialFcn(p)
<1>1. Mirror(p) \in [Dim -> Int]
  BY DEF Mirror
<1>2. \A d \in Dim : Mirror(Mirror(p))[d] = p[d]
  BY DEF Mirror
<1>3. Mirror(Mirror(p)) = p
  <2>1. Mirror(Mirror(p)) = [d \in Dim |-> Mirror(Mirror(p))[d]] /\ p = [d \in Dim |-> p[d]]
    BY DEF Mirror
  <2>2. [d \in Dim |-> Mirror(Mirror(p))[d]] = [d \in Dim |-> p[d]]
    BY <1>2
  <2> QED
    BY <2>1, <2>2
<1>4. \A d \in Dim : AbsValue(Mirror(p)[d]) = AbsValue(p[d])
  <2>1. \A x \in Int : AbsValue(-x) = AbsValue(x)
    BY DEF AbsValue
  <2> QED
    BY <2>1 DEF Mirror
<1>5. \A d \in Dim : \A low, high : Within(Mirror(p), d, low, high) <=> Within(p, d, low, high)
  BY <1>4 DEF Within
<1>6. 0 \in Dim /\ 1 \in Dim /\ 2 \in Dim
  BY DEF Dim
<1>7. Region1(Mirror(p)) <=> Region1(p)
  BY <1>5, <1>6 DEF Region1
<1>8. Region2(Mirror(p)) <=> Region2(p)
  BY <1>4, <1>5, <1>6 DEF Region2
<1> QED
  BY <1>1, <1>3, <1>7, <1>8 DEF MaterialFcn

(* The mirror image of a sample is the opposite sample of the opposite     *)
(* zone.                                                                   *)
LEMMA PlaceMirrored ==
  ASSUME mesh \in Meshes, NEW d \in Dim, NEW n \in Int, NEW n2 \in Int, NEW s \in Int,
         n + n2 = mesh.zones[d] * NumLocal[d + 2] - 1
  PROVE  /\ Place(d, n, s) \in Int
         /\ Place(d, n2, mesh.samples - 1 - s) = -Place(d, n, s)
<1> DEFINE S == mesh.samples + 1
           N == mesh.zones[d] * NumLocal[d + 2]
           H == Half[d + 1]
<1>1. S \in Int /\ mesh.samples = S - 1
  BY MeshType
<1>2. N \in Int
  <2>1. mesh.zones[d] \in Int
    BY MeshType
  <2>2. d + 2 \in Axis5
    BY DEF Dim, Axis5
  <2>3. NumLocal[d + 2] \in Int
    BY <2>2, LocalAssumption
  <2> QED
    BY <2>1, <2>3
<1>3. H \in Int
  BY DEF Half, Dim
<1>4. \A i, x : Place(d, i, x) = - H * (N * S) + 2 * H * (i * S + x + 1)
  BY DEF Place, Scale
<1>5. n2 = N - 1 - n
  BY <1>2
<1> HIDE DEF S, N, H
<1> DEFINE u == n * S + s + 1
           v == n2 * S + (S - 2 - s) + 1
<1>6. u + v = N * S
  <2>1. n2 * S = N * S - S - n * S
    BY <1>1, <1>2, <1>5
  <2> DEFINE a == n * S
             b == n2 * S
             c == N * S
  <2>2. a \in Int /\ b \in Int /\ c \in Int
    BY <1>1, <1>2
  <2>3. u = a + s + 1 /\ v = b + (S - 2 - s) + 1 /\ b = c - S - a
    BY <2>1
  <2> HIDE DEF u, v, a, b
  <2>4. u + v = c
    <3> HIDE DEF c
    <3> QED
      BY <1>1, <2>2, <2>3
  <2> QED
    BY <2>4
<1>7. u \in Int /\ v \in Int /\ mesh.samples - 1 - s = S - 2 - s
  BY <1>1
<1>8. /\ Place(d, n, s) = - H * (N * S) + 2 * H * u
      /\ Place(d, n2, mesh.samples - 1 - s) = - H * (N * S) + 2 * H * v
  BY <1>4, <1>7
<1> HIDE DEF u, v
<1>9. - H * (N * S) = - (H * u) - H * v /\ H * u \in Int /\ H * v \in Int
      /\ 2 * H * u = 2 * (H * u) /\ 2 * H * v = 2 * (H * v)
  BY <1>3, <1>6, <1>7
<1> QED
  BY <1>8, <1>9

(* The mirror image of a sample of a zone is a sample of the opposite one. *)
LEMMA SampleMirrored ==
  ASSUME mesh \in Meshes, NEW c \in Chunks("R"), NEW c2 \in Chunks("R"),
         NEW z \in Zones, NEW z2 \in Zones,
         \A d \in Dim : GlobalZone(c, z)[d] + GlobalZone(c2, z2)[d]
                          = mesh.zones[d] * NumLocal[d + 2] - 1,
         NEW p \in Places(c, z)
  PROVE  p \in [Dim -> Int] /\ Mirror(p) \in Places(c2, z2)
<1>1. PICK s \in Samples : p = [d \in Dim |-> Place(d, GlobalZone(c, z)[d], s[d])]
  BY DEF Places
<1> DEFINE s2 == [d \in Dim |-> mesh.samples - 1 - s[d]]
<1>2. mesh.samples \in Nat /\ \A d \in Dim : s[d] \in 0 .. mesh.samples - 1 /\ s[d] \in Int
  BY MeshType DEF Samples
<1>3. s2 \in Samples
  BY <1>2 DEF Samples
<1>4. \A d \in Dim : /\ GlobalZone(c, z)[d] \in Int /\ GlobalZone(c2, z2)[d] \in Int
  BY GlobalZoneType
<1>5. \A d \in Dim :
        /\ Place(d, GlobalZone(c, z)[d], s[d]) \in Int
        /\ Place(d, GlobalZone(c2, z2)[d], s2[d]) = -Place(d, GlobalZone(c, z)[d], s[d])
  <2> TAKE d \in Dim
  <2>1. s2[d] = mesh.samples - 1 - s[d]
    OBVIOUS
  <2> DEFINE n == GlobalZone(c, z)[d]
             n2 == GlobalZone(c2, z2)[d]
             x == s[d]
  <2>2. n + n2 = mesh.zones[d] * NumLocal[d + 2] - 1 /\ n \in Int /\ n2 \in Int /\ x \in Int
    BY <1>2, <1>4
  <2> HIDE DEF s2, n, n2, x
  <2>3. Place(d, n, x) \in Int /\ Place(d, n2, mesh.samples - 1 - x) = -Place(d, n, x)
    BY <2>2, PlaceMirrored
  <2> QED
    BY <2>1, <2>3 DEF n, n2, x
<1> HIDE DEF s2
<1>6. p \in [Dim -> Int]
  BY <1>1, <1>5
<1>7. Mirror(p) = [d \in Dim |-> Place(d, GlobalZone(c2, z2)[d], s2[d])]
  <2>1. \A d \in Dim : p[d] = Place(d, GlobalZone(c, z)[d], s[d])
    BY <1>1
  <2>2. \A d \in Dim : -p[d] = Place(d, GlobalZone(c2, z2)[d], s2[d])
    BY <1>5, <2>1
  <2> QED
    BY <2>2 DEF Mirror
<1> QED
  BY <1>3, <1>6, <1>7 DEF Places

(* The mesh is its own mirror image: opposite zones are mixed alike.       *)
THEOREM MeshIsSymmetric == Spec => []MirrorImage
<1>1. MixtureInv => MirrorImage
  <2> SUFFICES ASSUME MixtureInv, phase = "fill",
                      NEW c \in Chunks("R"), NEW c2 \in Chunks("R"),
                      NEW z \in Zones, NEW z2 \in Zones,
                      \A d \in Dim : GlobalZone(c, z)[d] + GlobalZone(c2, z2)[d]
                                       = mesh.zones[d] * NumLocal[d + 2] - 1
               PROVE  mix[c][z] = mix[c2][z2]
    BY DEF MirrorImage
  <2>1. mesh \in Meshes
    BY DEF MixtureInv, PhaseInv
  <2>2. \A d \in Dim : GlobalZone(c2, z2)[d] + GlobalZone(c, z)[d]
                         = mesh.zones[d] * NumLocal[d + 2] - 1
    <3>1. \A d \in Dim : GlobalZone(c2, z2)[d] \in Int /\ GlobalZone(c, z)[d] \in Int
      BY <2>1, GlobalZoneType
    <3>2. \A x, y \in Int : x + y = y + x
      OBVIOUS
    <3> QED
      BY <3>1, <3>2
  <2>3. \A p \in Places(c, z) : p \in [Dim -> Int] /\ Mirror(p) \in Places(c2, z2)
    BY <2>1, SampleMirrored
  <2>4. \A p \in Places(c2, z2) : p \in [Dim -> Int] /\ Mirror(p) \in Places(c, z)
    BY <2>1, <2>2, SampleMirrored
  <2>5. ASSUME NEW m \in Material
        PROVE  Cardinality(PlacesOf(c, z, m)) = Cardinality(PlacesOf(c2, z2, m))
    <3> DEFINE S == PlacesOf(c, z, m)
               T == PlacesOf(c2, z2, m)
               f == [p \in S |-> Mirror(p)]
    <3>1. \A p \in S : p \in [Dim -> Int] /\ Mirror(p) \in T /\ Mirror(Mirror(p)) = p
      BY <2>3, MirrorFacts DEF PlacesOf
    <3>2. \A p \in T : p \in [Dim -> Int] /\ Mirror(p) \in S /\ Mirror(Mirror(p)) = p
      BY <2>4, MirrorFacts DEF PlacesOf
    <3>3. IsFiniteSet(S)
      BY <2>1, PlacesFinite
    <3> HIDE DEF S, T
    <3>4. f \in [S -> T]
      BY <3>1
    <3>5. \A p, q \in S : f[p] = f[q] => p = q
      <4>1. \A p \in S : Mirror(f[p]) = p
        BY <3>1
      <4> HIDE DEF f
      <4> QED
        BY <4>1
    <3>6. \A p \in T : \E q \in S : f[q] = p
      <4>1. \A p \in T : Mirror(p) \in S /\ f[Mirror(p)] = p
        BY <3>2
      <4> QED
        BY <4>1
    <3> HIDE DEF f
    <3>7. f \in Bijection(S, T)
      BY <3>4, <3>5, <3>6 DEF Bijection, Injection, Surjection, IsInjective
    <3>8. ExistsBijection(S, T)
      BY <3>7 DEF ExistsBijection
    <3> QED
      BY <3>3, <3>8, FS_Bijection DEF S, T
  <2>6. ZoneMixture(c, z) = ZoneMixture(c2, z2)
    <3>1. ZoneMixture(c, z) = [m \in Material |-> Cardinality(PlacesOf(c, z, m))]
      BY ZoneMixtureIs
    <3>2. ZoneMixture(c2, z2) = [m \in Material |-> Cardinality(PlacesOf(c2, z2, m))]
      BY ZoneMixtureIs
    <3> QED
      BY <2>5, <3>1, <3>2
  <2>7. mix[c] = Painted(c) /\ mix[c2] = Painted(c2)
    BY FilledBounds
  <2> QED
    BY <2>1, <2>6, <2>7, PaintedFacts
<1> QED
  BY <1>1, MixtureInvariant, PTL

-----------------------------------------------------------------------------
(* The count of main.                                                      *)

(* quickPoolSizingMaterial is material_fcn.                                *)
LEMMA SameMaterial ==
  ASSUME mesh \in Meshes, NEW p \in [Dim -> Int]
  PROVE  QuickPoolSizingMaterial(p) = MaterialFcn(p) /\ MaterialFcn(p) \in Material
<1> DEFINE S(d) == Scale(d)
           A(d) == AbsValue(p[d])
<1>1. \A d \in Dim : S(d) \in Nat
  <2> TAKE d \in Dim
  <2>1. d + 2 \in Axis5
    BY DEF Dim, Axis5
  <2>2. mesh.zones[d] \in Nat /\ NumLocal[d + 2] \in Nat /\ mesh.samples + 1 \in Nat
    BY <2>1, MeshType, LocalAssumption
  <2>3. \A x, y \in Nat : x * y \in Nat
    OBVIOUS
  <2> QED
    BY <2>2, <2>3 DEF Scale
<1>2. \A d \in Dim : A(d) \in Nat
  BY DEF AbsValue
<1>3. 0 \in Dim /\ 1 \in Dim /\ 2 \in Dim
  BY DEF Dim
<1> DEFINE x == A(0)
           y == A(1)
           w == A(2)
           X == S(0)
           Y == S(1)
           W == S(2)
<1>4. x \in Nat /\ y \in Nat /\ w \in Nat /\ X \in Nat /\ Y \in Nat /\ W \in Nat
  BY <1>1, <1>2, <1>3
<1>5. \A low, high :
        /\ Within(p, 0, low, high) <=> low * X <= x /\ x <= high * X
        /\ Within(p, 1, low, high) <=> low * Y <= y /\ y <= high * Y
        /\ Within(p, 2, low, high) <=> low * W <= w /\ w <= high * W
  BY DEF Within
<1>6. Region1(p) <=> x <= 10 * X /\ y <= 10 * Y /\ w <= 10 * W
  <2> HIDE DEF x, y, w, X, Y, W
  <2> QED
    BY <1>4, <1>5 DEF Region1
<1>7. Region2(p) <=>
        \/ x <= 10 * X /\ y <= 60 * Y /\ w <= 10 * W
        \/ x <= 40 * X /\ y >= 50 * Y /\ y <= 60 * Y /\ w <= 10 * W
        \/ x >= 30 * X /\ x <= 40 * X /\ y >= 50 * Y /\ y <= 60 * Y /\ w <= 40 * W
        \/ x >= 30 * X /\ x <= 40 * X /\ y >= 50 * Y /\ w >= 30 * W /\ w <= 40 * W
  <2>1. 50 * Scale(1) <= AbsValue(p[1]) <=> 50 * Y <= y
    OBVIOUS
  <2> HIDE DEF x, y, w, X, Y, W
  <2> QED
    BY <1>4, <1>5, <2>1 DEF Region2
<1>8. QuickPoolSizingMaterial(p) =
        IF x <= 10 * X /\ y <= 10 * Y /\ w <= 10 * W THEN 0
        ELSE IF \/ x <= 10 * X /\ y <= 60 * Y /\ w <= 10 * W
                \/ x <= 40 * X /\ y >= 50 * Y /\ y <= 60 * Y /\ w <= 10 * W
                \/ x >= 30 * X /\ x <= 40 * X /\ y >= 50 * Y /\ y <= 60 * Y /\ w <= 40 * W
                \/ x >= 30 * X /\ x <= 40 * X /\ y >= 50 * Y /\ w >= 30 * W /\ w <= 40 * W
             THEN 1 ELSE 2
  BY DEF QuickPoolSizingMaterial
<1> HIDE DEF x, y, w, X, Y, W
<1> QED
  BY <1>6, <1>7, <1>8 DEF MaterialFcn, Material

(* The zone at an index.                                                   *)
LEMMA ZoneAtIndex ==
  ASSUME mesh \in Meshes
  PROVE  /\ \A z, z2 \in Zones : (\A d \in Dim : ZoneIndex(z)[d] = ZoneIndex(z2)[d]) => z = z2
         /\ \A i \in 0 .. mesh.zones[0] - 1, j \in 0 .. mesh.zones[1] - 1,
               k \in 0 .. mesh.zones[2] - 1 :
              \E z \in Zones : ZoneIndex(z)[0] = i /\ ZoneIndex(z)[1] = j /\ ZoneIndex(z)[2] = k
<1> DEFINE I == mesh.zones[0]
           J == mesh.zones[1]
           K == mesh.zones[2]
<1>1. I \in Nat \ {0} /\ J \in Nat \ {0} /\ K \in Nat \ {0}
  BY MeshType DEF Dim
<1>2. /\ \A z \in Zones : z \in 0 .. I * J * K - 1
      /\ \A z \in 0 .. I * J * K - 1 : z \in Zones
  BY DEF Zones, NumZones
<1>3. \A z : /\ ZoneIndex(z)[0] = z % I /\ ZoneIndex(z)[1] = (z \div I) % J
             /\ ZoneIndex(z)[2] = z \div (I * J)
  BY DEF ZoneIndex, Dim
<1> HIDE DEF I, J, K
<1>4. I * J * K = K * (J * I) /\ J * I = I * J /\ J * I \in Nat \ {0}
  BY <1>1
<1>5. ASSUME NEW z \in Zones
      PROVE  z = (J * I) * ZoneIndex(z)[2] + (I * ZoneIndex(z)[1] + ZoneIndex(z)[0])
  <2>1. z \in 0 .. K * (J * I) - 1
    BY <1>2, <1>4
  <2>2. z = (J * I) * (z \div (J * I)) + (I * ((z \div I) % J) + (z % I))
    BY <1>1, <2>1, ThreeDigits
  <2> QED
    BY <1>3, <1>4, <2>2
<1>6. ASSUME NEW i \in 0 .. I - 1, NEW j \in 0 .. J - 1, NEW k \in 0 .. K - 1
      PROVE  \E z \in Zones : ZoneIndex(z)[0] = i /\ ZoneIndex(z)[1] = j /\ ZoneIndex(z)[2] = k
  <2> DEFINE W == J * I
             x == I * j + i
             z == W * k + x
             q == J * k + j
  <2>1. x \in 0 .. W - 1
    BY <1>1, DivInRange
  <2>2. W \in Nat \ {0} /\ x \in Int /\ k \in Int /\ q \in Int
    BY <1>1, <1>4, <2>1
  <2>3. z \in 0 .. K * W - 1
    <3> HIDE DEF W, x
    <3> QED
      BY <1>1, <2>1, <2>2, DivInRange
  <2>4. z \div W = k
    <3> HIDE DEF W, x
    <3>1. z \in Int /\ z = W * k + x
      BY <2>3
    <3> HIDE DEF z
    <3> QED
      BY <2>1, <2>2, <3>1, DivModUnique
  <2>5. z = I * q + i
    <3> DEFINE a == I * j
               b == I * (J * k)
    <3>1. W * k = b /\ I * q = b + a /\ a \in Int /\ b \in Int
      BY <1>1
    <3>2. x = a + i /\ z = W * k + x
      OBVIOUS
    <3> HIDE DEF a, b, W, x, z, q
    <3> QED
      BY <3>1, <3>2
  <2>6. q % J = j
    <3>1. q = J * k + j
      OBVIOUS
    <3> HIDE DEF q
    <3> QED
      BY <1>1, <2>2, <3>1, DivModUnique
  <2>7. z \in Int
    BY <2>3
  <2> HIDE DEF z, q
  <2>8. z \div I = q /\ z % I = i
    BY <1>1, <2>2, <2>5, <2>7, DivModUnique
  <2>9. z \in Zones /\ z \div (I * J) = k
    BY <1>2, <1>4, <2>3, <2>4 DEF W
  <2> QED
    BY <1>3, <2>6, <2>8, <2>9
<1>7. ASSUME NEW z \in Zones, NEW z2 \in Zones, \A d \in Dim : ZoneIndex(z)[d] = ZoneIndex(z2)[d]
      PROVE  z = z2
  <2>1. ZoneIndex(z)[0] = ZoneIndex(z2)[0] /\ ZoneIndex(z)[1] = ZoneIndex(z2)[1]
        /\ ZoneIndex(z)[2] = ZoneIndex(z2)[2]
    BY <1>7 DEF Dim
  <2>2. /\ z = (J * I) * ZoneIndex(z)[2] + (I * ZoneIndex(z)[1] + ZoneIndex(z)[0])
        /\ z2 = (J * I) * ZoneIndex(z2)[2] + (I * ZoneIndex(z2)[1] + ZoneIndex(z2)[0])
    BY <1>5
  <2> QED
    BY <2>1, <2>2
<1> QED
  BY <1>6, <1>7 DEF I, J, K

(* main counts the mixed elements of a chunk as the generator does.        *)
THEOREM PoolFitsMixture == Spec => []PoolCountsMixed
<1>1. MixtureInv => PoolCountsMixed
  <2> SUFFICES ASSUME MixtureInv, phase = "fill", NEW c \in Chunks("R")
               PROVE  size[c] = CountMixedElementsForSpatialChunk(
                                  [d \in Dim |-> ToIndices(LocalLayout("R"), c)[d + 2]])
    BY DEF PoolCountsMixed
  <2> DEFINE set == [d \in Dim |-> ToIndices(LocalLayout("R"), c)[d + 2]]
             inChunk == (0 .. mesh.zones[0] - 1) \X (0 .. mesh.zones[1] - 1) \X (0 .. mesh.zones[2] - 1)
             place(i, s) == [d \in Dim |-> Place(d, set[d] * mesh.zones[d] + i[d + 1], s[d])]
             P == {has \in inChunk \X Material :
                     \E s \in Samples : QuickPoolSizingMaterial(place(has[1], s)) = has[2]}
             index(z) == <<ZoneIndex(z)[0], ZoneIndex(z)[1], ZoneIndex(z)[2]>>
             f == [p \in Mixed(c) |-> <<index(p[1]), p[2]>>]
  <2>1. mesh \in Meshes
    BY DEF MixtureInv, PhaseInv
  <2>2. CountMixedElementsForSpatialChunk(set) = Cardinality(P)
    BY DEF CountMixedElementsForSpatialChunk
  <2>3. size[c] = Cardinality(Mixed(c)) /\ mix[c] = Painted(c)
    BY FilledBounds
  <2>4. ASSUME NEW z \in Zones
        PROVE  /\ index(z) \in inChunk
               /\ \A s : place(index(z), s) = [d \in Dim |-> Place(d, GlobalZone(c, z)[d], s[d])]
    <3>1. \A d \in Dim : /\ ZoneIndex(z)[d] \in 0 .. mesh.zones[d] - 1
                         /\ GlobalZone(c, z)[d] = set[d] * mesh.zones[d] + ZoneIndex(z)[d]
      BY <2>1, GlobalZoneType
    <3>2. 0 \in Dim /\ 1 \in Dim /\ 2 \in Dim
      BY DEF Dim
    <3>3. \A d \in Dim : index(z)[d + 1] = ZoneIndex(z)[d]
      BY DEF Dim
    <3>4. index(z) \in inChunk
      BY <3>1, <3>2
    <3> HIDE DEF set, index
    <3>5. \A s : place(index(z), s) = [d \in Dim |-> Place(d, GlobalZone(c, z)[d], s[d])]
      BY <3>1, <3>3
    <3> QED
      BY <3>4, <3>5
  <2>5. ASSUME NEW z \in Zones, NEW m \in Material
        PROVE  <<z, m>> \in Mixed(c) <=> <<index(z), m>> \in P
    <3>1. <<z, m>> \in Mixed(c) <=> ZoneMixture(c, z)[m] > 0
      <4>1. mix[c][z] = ZoneMixture(c, z)
        BY <2>1, <2>3, PaintedFacts
      <4> QED
        BY <4>1 DEF Mixed
    <3>2. ZoneMixture(c, z)[m] > 0 <=> \E p \in Places(c, z) : MaterialFcn(p) = m
      BY <2>1, ZoneMixtureIs, PlacesFinite
    <3>3. \A s \in Samples : place(index(z), s) \in [Dim -> Int]
      <4> SUFFICES ASSUME NEW s \in Samples
                   PROVE  [d \in Dim |-> Place(d, GlobalZone(c, z)[d], s[d])] \in [Dim -> Int]
        BY <2>4
      <4>1. \A d \in Dim : Place(d, GlobalZone(c, z)[d], s[d]) \in Int
        <5> SUFFICES ASSUME NEW d \in Dim PROVE Place(d, GlobalZone(c, z)[d], s[d]) \in Int
          OBVIOUS
        <5>1. GlobalZone(c, z)[d] \in Int /\ s[d] \in Int
          BY <2>1, GlobalZoneType, MeshType DEF Samples
        <5> DEFINE n == GlobalZone(c, z)[d]
                   N == mesh.zones[d] * NumLocal[d + 2]
                   n2 == N - 1 - n
        <5>2. N \in Int
          <6>1. d + 2 \in Axis5
            BY DEF Dim, Axis5
          <6> QED
            BY <2>1, <6>1, MeshType, LocalAssumption
        <5>3. n2 \in Int /\ n + n2 = N - 1
          BY <5>1, <5>2
        <5> HIDE DEF n2
        <5> QED
          BY <2>1, <5>1, <5>3, PlaceMirrored
      <4> QED
        BY <4>1
    <3> HIDE DEF place, index
    <3>4. (\E p \in Places(c, z) : MaterialFcn(p) = m)
            <=> \E s \in Samples : MaterialFcn(place(index(z), s)) = m
      BY <2>4 DEF Places
    <3>5. \A s \in Samples : QuickPoolSizingMaterial(place(index(z), s)) = MaterialFcn(place(index(z), s))
      BY <2>1, <3>3, SameMaterial
    <3>6. <<index(z), m>> \in P <=> \E s \in Samples : QuickPoolSizingMaterial(place(index(z), s)) = m
      <4>1. index(z) \in inChunk
        BY <2>4
      <4> HIDE DEF inChunk
      <4> QED
        BY <4>1
    <3> QED
      BY <3>1, <3>2, <3>4, <3>5, <3>6
  <2>6. \A p \in Mixed(c) : p[1] \in Zones /\ p[2] \in Material /\ p = <<p[1], p[2]>>
    BY DEF Mixed
  <2>7. f \in [Mixed(c) -> P]
    <3> HIDE DEF P, index
    <3>1. \A p \in Mixed(c) : <<index(p[1]), p[2]>> \in P
      BY <2>5, <2>6
    <3> QED
      BY <3>1
  <2>8. \A p, q \in Mixed(c) : f[p] = f[q] => p = q
    <3>0. SUFFICES ASSUME NEW p \in Mixed(c), NEW q \in Mixed(c), f[p] = f[q]
                   PROVE  p = q
      OBVIOUS
    <3>1. f[p] = <<index(p[1]), p[2]>> /\ f[q] = <<index(q[1]), q[2]>>
      OBVIOUS
    <3>2. /\ ZoneIndex(p[1])[0] = ZoneIndex(q[1])[0] /\ ZoneIndex(p[1])[1] = ZoneIndex(q[1])[1]
          /\ ZoneIndex(p[1])[2] = ZoneIndex(q[1])[2] /\ p[2] = q[2]
      <4> HIDE DEF f
      <4>1. index(p[1]) = index(q[1]) /\ p[2] = q[2]
        <5> HIDE DEF index
        <5>1. <<index(p[1]), p[2]>> = <<index(q[1]), q[2]>>
          BY <3>0, <3>1
        <5>2. \A a, b, a2, b2 : <<a, b>> = <<a2, b2>> => a = a2 /\ b = b2
          OBVIOUS
        <5> QED
          BY <5>1, <5>2
      <4>2. index(p[1])[1] = index(q[1])[1] /\ index(p[1])[2] = index(q[1])[2]
            /\ index(p[1])[3] = index(q[1])[3]
        BY <4>1
      <4> QED
        BY <4>1, <4>2
    <3>3. \A d \in Dim : ZoneIndex(p[1])[d] = ZoneIndex(q[1])[d]
      BY <3>2 DEF Dim
    <3>4. p[1] = q[1]
      BY <2>1, <2>6, <3>3, ZoneAtIndex
    <3> QED
      BY <2>6, <3>2, <3>4
  <2>9. \A y \in P : \E p \in Mixed(c) : f[p] = y
    <3> SUFFICES ASSUME NEW y \in P PROVE \E p \in Mixed(c) : f[p] = y
      OBVIOUS
    <3>1. y = <<y[1], y[2]>> /\ y[1] \in inChunk /\ y[2] \in Material
      <4> HIDE DEF inChunk, place
      <4> QED
        OBVIOUS
    <3>2. /\ y[1][1] \in 0 .. mesh.zones[0] - 1 /\ y[1][2] \in 0 .. mesh.zones[1] - 1
          /\ y[1][3] \in 0 .. mesh.zones[2] - 1 /\ y[1] = <<y[1][1], y[1][2], y[1][3]>>
      BY <3>1
    <3>3. PICK z \in Zones : /\ ZoneIndex(z)[0] = y[1][1] /\ ZoneIndex(z)[1] = y[1][2]
                             /\ ZoneIndex(z)[2] = y[1][3]
      BY <2>1, <3>2, ZoneAtIndex
    <3>4. index(z) = y[1]
      BY <3>2, <3>3
    <3> HIDE DEF index, P
    <3>5. <<z, y[2]>> \in Mixed(c)
      BY <2>5, <3>1, <3>4
    <3>6. f[<<z, y[2]>>] = y
      BY <3>1, <3>4, <3>5
    <3> QED
      BY <3>5, <3>6
  <2> HIDE DEF f, P
  <2>10. f \in Bijection(Mixed(c), P)
    BY <2>7, <2>8, <2>9 DEF Bijection, Injection, Surjection, IsInjective
  <2>11. ExistsBijection(Mixed(c), P)
    BY <2>10 DEF ExistsBijection
  <2>12. IsFiniteSet(Mixed(c))
    BY <2>1, <2>3, PaintedFacts
  <2>13. Cardinality(Mixed(c)) = Cardinality(P)
    BY <2>11, <2>12, FS_Bijection
  <2> QED
    BY <2>2, <2>3, <2>13
<1> QED
  BY <1>1, MixtureInvariant, PTL

-----------------------------------------------------------------------------
(* Numbers.                                                                *)

(* A set of numbers with 0 and the successor of each of its numbers has    *)
(* all of them.                                                            *)
LEMMA Induction ==
  ASSUME NEW T, 0 \in T, \A n \in Nat : n \in T => n + 1 \in T
  PROVE  Nat \subseteq T
<1> SUFFICES ASSUME Nat \ T # {} PROVE FALSE
  OBVIOUS
<1> DEFINE R == OpToRel(<, Nat)
           U == Nat \ T
<1>1. IsWellFoundedOn(R, Nat) /\ U \subseteq Nat /\ U # {}
  BY NatLessThanWellFounded
<1>2. \E x \in U : \A y \in U : ~ (<<y, x>> \in R)
  <2> HIDE DEF R, U
  <2> QED
    BY <1>1, WFMin
<1>3. PICK x \in Nat \ T : \A y \in Nat \ T : ~ (y < x)
  BY <1>2 DEF OpToRel
<1>4. x # 0
  BY <1>3
<1>5. x - 1 \in Nat /\ x - 1 \in T
  BY <1>3, <1>4
<1> QED
  BY <1>5

-----------------------------------------------------------------------------
(* The sums of a chunk.                                                    *)

TermOf == Material \X Nat

(* How many of the first n elements are of a zone with num elements behind *)
(* start.                                                                  *)
Passed(n, start, num) ==
  IF n <= start THEN 0 ELSE IF n >= start + num THEN num ELSE n - start

(* The terms of the zones' elements among the first n.                     *)
TermsUpTo(all, table, n) ==
  [z \in Zones |->
    [i \in 1 .. Passed(n, table[z + 1].start, table[z + 1].num) |->
      Term(all[table[z + 1].start + i])]]

(* The recursion of Added.                                                 *)
Turns(all, g) ==
  g = [n \in 0 .. Len(all) |->
        IF n = 0 THEN [z \in Zones |-> << >>]
        ELSE [g[n - 1] EXCEPT ![all[n].zone] = Append(@, Term(all[n]))]]

LEMMA AddedIs == \A all : Added(all) = CHOOSE g : Turns(all, g)
BY DEF Added, Turns

(* One more term.                                                          *)
LEMMA AppendTerm ==
  ASSUME NEW f, NEW k \in Nat, \A i \in 1 .. k + 1 : f[i] \in TermOf, NEW x, x = f[k + 1]
  PROVE  Append([i \in 1 .. k |-> f[i]], x) = [i \in 1 .. k + 1 |-> f[i]]
<1> DEFINE s == [i \in 1 .. k |-> f[i]]
           t == [i \in 1 .. k + 1 |-> f[i]]
<1>1. s \in Seq(TermOf) /\ Len(s) = k /\ \A i \in 1 .. k : s[i] = f[i]
  <2>1. \A i \in 1 .. k : i \in 1 .. k + 1
    OBVIOUS
  <2> QED
    BY <2>1
<1>2. t \in Seq(TermOf) /\ Len(t) = k + 1 /\ \A i \in 1 .. k + 1 : t[i] = f[i]
  OBVIOUS
<1>3. x \in TermOf
  BY <1>2
<1> HIDE DEF s, t
<1>4. /\ Append(s, x) \in Seq(TermOf) /\ Len(Append(s, x)) = k + 1
      /\ \A i \in 1 .. k : Append(s, x)[i] = s[i]
      /\ Append(s, x)[k + 1] = x
  BY <1>1, <1>3, AppendProperties
<1>5. \A i \in 1 .. k + 1 : Append(s, x)[i] = t[i]
  <2>1. \A i \in 1 .. k + 1 : i \in 1 .. k \/ i = k + 1
    OBVIOUS
  <2> QED
    BY <1>1, <1>2, <1>4, <2>1
<1>6. Append(s, x) = t
  BY <1>2, <1>4, <1>5, SeqEqual
<1> QED
  BY <1>6 DEF s, t

(* The elements of a chunk, with the ranges of its zones.                  *)
HasRanges(all, table) ==
  /\ all \in Seq(MixElement)
  /\ \A n \in 1 .. Len(all) : all[n].zone \in Zones
  /\ \A z \in Zones :
       /\ table[z + 1] \in Entry
       /\ table[z + 1].start + 1 .. table[z + 1].start + table[z + 1].num
            = {n \in 1 .. Len(all) : all[n].zone = z}

(* A turn of the loop over the elements.                                   *)
LEMMA Turn ==
  ASSUME NEW all, NEW table, HasRanges(all, table), NEW n \in 1 .. Len(all)
  PROVE  TermsUpTo(all, table, n)
           = [TermsUpTo(all, table, n - 1) EXCEPT ![all[n].zone] = Append(@, Term(all[n]))]
<1> DEFINE start(z) == table[z + 1].start
           num(z) == table[z + 1].num
           T(m) == TermsUpTo(all, table, m)
           z0 == all[n].zone
<1>1. Len(all) \in Nat /\ n \in Int /\ z0 \in Zones
  BY LenProperties DEF HasRanges
<1>2. \A z \in Zones : start(z) \in Nat /\ num(z) \in Nat
  BY DEF HasRanges, Entry
<1>3. \A z \in Zones : n \in start(z) + 1 .. start(z) + num(z) <=> z0 = z
  BY DEF HasRanges
<1>4. \A z \in Zones : \A i \in 1 .. num(z) : Term(all[start(z) + i]) \in TermOf
  <2> SUFFICES ASSUME NEW z \in Zones, NEW i \in 1 .. num(z)
               PROVE  Term(all[start(z) + i]) \in TermOf
    OBVIOUS
  <2>1. start(z) + i \in start(z) + 1 .. start(z) + num(z)
    BY <1>2
  <2>2. start(z) + i \in 1 .. Len(all)
    BY <2>1 DEF HasRanges
  <2>3. all[start(z) + i] \in MixElement
    BY <2>2, ElementOfSeq DEF HasRanges
  <2> QED
    BY <2>3 DEF MixElement, Term, TermOf
<1>5. ASSUME NEW z \in Zones, z # z0
      PROVE  Passed(n, start(z), num(z)) = Passed(n - 1, start(z), num(z))
  <2> DEFINE a == start(z)
             b == num(z)
  <2>1. a \in Nat /\ b \in Nat /\ ~ n \in a + 1 .. a + b
    BY <1>2, <1>3, <1>5
  <2> HIDE DEF a, b
  <2>2. Passed(n, a, b) = Passed(n - 1, a, b)
    BY <1>1, <2>1 DEF Passed
  <2> QED
    BY <2>2 DEF a, b
<1>6. /\ Passed(n - 1, start(z0), num(z0)) = n - 1 - start(z0)
      /\ Passed(n, start(z0), num(z0)) = n - start(z0)
      /\ n - 1 - start(z0) \in Nat
      /\ n - start(z0) <= num(z0)
  <2> DEFINE a == start(z0)
             b == num(z0)
  <2>1. a \in Nat /\ b \in Nat /\ n \in a + 1 .. a + b
    BY <1>1, <1>2, <1>3
  <2> HIDE DEF a, b
  <2>2. /\ Passed(n - 1, a, b) = n - 1 - a
        /\ Passed(n, a, b) = n - a
        /\ n - 1 - a \in Nat
        /\ n - a <= b
    BY <1>1, <2>1 DEF Passed
  <2> QED
    BY <2>2 DEF a, b
<1>7. \A m : T(m) = [z \in Zones |-> T(m)[z]]
             /\ \A z \in Zones : T(m)[z] = [i \in 1 .. Passed(m, start(z), num(z)) |->
                                              Term(all[start(z) + i])]
  BY DEF TermsUpTo
<1>8. \A z \in Zones : z # z0 => T(n)[z] = T(n - 1)[z]
  <2> SUFFICES ASSUME NEW z \in Zones, z # z0
               PROVE  T(n)[z] = T(n - 1)[z]
    OBVIOUS
  <2>1. /\ T(n)[z] = [i \in 1 .. Passed(n, start(z), num(z)) |-> Term(all[start(z) + i])]
        /\ T(n - 1)[z] = [i \in 1 .. Passed(n - 1, start(z), num(z)) |-> Term(all[start(z) + i])]
    BY <1>7
  <2>2. Passed(n, start(z), num(z)) = Passed(n - 1, start(z), num(z))
    BY <1>5
  <2> HIDE DEF T, start, num
  <2> QED
    BY <2>1, <2>2
<1>9. T(n)[z0] = Append(T(n - 1)[z0], Term(all[n]))
  <2> DEFINE k == n - 1 - start(z0)
             f == [i \in 1 .. num(z0) |-> Term(all[start(z0) + i])]
  <2>1. start(z0) \in Nat /\ num(z0) \in Nat
    BY <1>1, <1>2
  <2>2. /\ k \in Nat /\ k + 1 = n - start(z0) /\ k + 1 <= num(z0)
        /\ start(z0) + (k + 1) = n
    BY <1>1, <1>6, <2>1
  <2>3. \A i \in 1 .. k + 1 : i \in 1 .. num(z0) /\ f[i] = Term(all[start(z0) + i])
                              /\ f[i] \in TermOf
    <3>1. \A i \in 1 .. k + 1 : i \in 1 .. num(z0)
      BY <2>1, <2>2
    <3> QED
      BY <1>1, <1>4, <3>1
  <2>4. f[k + 1] = Term(all[n])
    <3>1. k + 1 \in 1 .. k + 1
      BY <2>2
    <3> QED
      BY <2>2, <2>3, <3>1
  <2>5. T(n - 1)[z0] = [i \in 1 .. k |-> f[i]]
    <3>1. T(n - 1)[z0] = [i \in 1 .. k |-> Term(all[start(z0) + i])]
      BY <1>1, <1>6, <1>7
    <3>2. \A i \in 1 .. k : i \in 1 .. k + 1
      BY <2>2
    <3> HIDE DEF f, k
    <3> QED
      BY <2>3, <3>1, <3>2
  <2>6. T(n)[z0] = [i \in 1 .. k + 1 |-> f[i]]
    <3>1. T(n)[z0] = [i \in 1 .. k + 1 |-> Term(all[start(z0) + i])]
      BY <1>1, <1>6, <1>7, <2>2
    <3> HIDE DEF f, k
    <3> QED
      BY <2>3, <3>1
  <2> HIDE DEF f, k, T, z0
  <2> QED
    BY <2>2, <2>3, <2>4, <2>5, <2>6, AppendTerm
<1> HIDE DEF T, z0
<1>10. [T(n - 1) EXCEPT ![z0] = Append(@, Term(all[n]))]
         = [z \in Zones |-> IF z = z0 THEN Append(T(n - 1)[z0], Term(all[n])) ELSE T(n - 1)[z]]
  BY <1>7
<1>11. \A z \in Zones : T(n)[z] = IF z = z0 THEN Append(T(n - 1)[z0], Term(all[n])) ELSE T(n - 1)[z]
  BY <1>8, <1>9
<1>12. T(n) = [z \in Zones |-> IF z = z0 THEN Append(T(n - 1)[z0], Term(all[n])) ELSE T(n - 1)[z]]
  BY <1>7, <1>11
<1> QED
  BY <1>10, <1>12 DEF T, z0

(* The loop over the elements adds to each zone the terms of its range.    *)
LEMMA LoopAdds ==
  ASSUME NEW all, NEW table, HasRanges(all, table)
  PROVE  Added(all)[Len(all)]
           = [z \in Zones |-> [i \in 1 .. table[z + 1].num |-> Term(all[table[z + 1].start + i])]]
<1> DEFINE G == [n \in 0 .. Len(all) |-> TermsUpTo(all, table, n)]
<1>1. Len(all) \in Nat
  BY LenProperties DEF HasRanges
<1>2. \A z \in Zones : table[z + 1].start \in Nat /\ table[z + 1].num \in Nat
  BY DEF HasRanges, Entry
<1>3. TermsUpTo(all, table, 0) = [z \in Zones |-> << >>]
  <2> SUFFICES ASSUME NEW z \in Zones
               PROVE  [i \in 1 .. Passed(0, table[z + 1].start, table[z + 1].num) |->
                        Term(all[table[z + 1].start + i])] = << >>
    BY DEF TermsUpTo
  <2>1. Passed(0, table[z + 1].start, table[z + 1].num) = 0
    BY <1>2 DEF Passed
  <2>2. 1 .. 0 = {}
    OBVIOUS
  <2> QED
    BY <2>1, <2>2
<1>4. TermsUpTo(all, table, Len(all))
        = [z \in Zones |-> [i \in 1 .. table[z + 1].num |-> Term(all[table[z + 1].start + i])]]
  <2> SUFFICES ASSUME NEW z \in Zones
               PROVE  Passed(Len(all), table[z + 1].start, table[z + 1].num) = table[z + 1].num
    BY DEF TermsUpTo
  <2> DEFINE a == table[z + 1].start
             b == table[z + 1].num
  <2>1. a \in Nat /\ b \in Nat
    BY <1>2
  <2>2. a + 1 .. a + b \subseteq 1 .. Len(all)
    BY DEF HasRanges
  <2> HIDE DEF a, b
  <2>3. b = 0 \/ a + b \in 1 .. Len(all)
    BY <2>1, <2>2
  <2>4. Passed(Len(all), a, b) = b
    BY <1>1, <2>1, <2>3 DEF Passed
  <2> QED
    BY <2>4 DEF a, b
<1>5. Turns(all, G)
  <2>1. \A n \in 0 .. Len(all) :
          TermsUpTo(all, table, n)
            = IF n = 0 THEN [z \in Zones |-> << >>]
              ELSE [G[n - 1] EXCEPT ![all[n].zone] = Append(@, Term(all[n]))]
    <3> SUFFICES ASSUME NEW n \in 0 .. Len(all), n # 0
                 PROVE  TermsUpTo(all, table, n)
                          = [G[n - 1] EXCEPT ![all[n].zone] = Append(@, Term(all[n]))]
      BY <1>3
    <3>1. n \in 1 .. Len(all) /\ n - 1 \in 0 .. Len(all)
      BY <1>1
    <3>2. G[n - 1] = TermsUpTo(all, table, n - 1)
      BY <3>1
    <3> HIDE DEF G
    <3> QED
      BY <3>1, <3>2, Turn
  <2>2. G = [n \in 0 .. Len(all) |-> TermsUpTo(all, table, n)]
    OBVIOUS
  <2> HIDE DEF G
  <2>3. G = [n \in 0 .. Len(all) |->
              IF n = 0 THEN [z \in Zones |-> << >>]
              ELSE [G[n - 1] EXCEPT ![all[n].zone] = Append(@, Term(all[n]))]]
    BY <2>1, <2>2, Zenon
  <2> QED
    BY <2>3 DEF Turns
<1>6. PICK g : g = Added(all) /\ Turns(all, g)
  BY <1>5, AddedIs
<1>7. \A n \in 0 .. Len(all) :
        g[n] = IF n = 0 THEN [z \in Zones |-> << >>]
               ELSE [g[n - 1] EXCEPT ![all[n].zone] = Append(@, Term(all[n]))]
  <2> DEFINE h == [n \in 0 .. Len(all) |->
                    IF n = 0 THEN [z \in Zones |-> << >>]
                    ELSE [g[n - 1] EXCEPT ![all[n].zone] = Append(@, Term(all[n]))]]
  <2>1. g = h
    BY <1>6 DEF Turns
  <2>2. \A n \in 0 .. Len(all) :
          h[n] = IF n = 0 THEN [z \in Zones |-> << >>]
                 ELSE [g[n - 1] EXCEPT ![all[n].zone] = Append(@, Term(all[n]))]
    OBVIOUS
  <2> QED
    BY <2>1, <2>2, Zenon
<1> DEFINE S == {n \in Nat : n <= Len(all) => g[n] = TermsUpTo(all, table, n)}
<1>8. 0 \in S
  <2>1. 0 \in 0 .. Len(all) /\ 0 \in Nat
    BY <1>1
  <2>2. g[0] = [z \in Zones |-> << >>]
    BY <1>7, <2>1
  <2> QED
    BY <1>3, <2>1, <2>2
<1>9. ASSUME NEW n \in Nat, n \in S
      PROVE  n + 1 \in S
  <2> SUFFICES ASSUME n + 1 <= Len(all)
               PROVE  g[n + 1] = TermsUpTo(all, table, n + 1)
    OBVIOUS
  <2> DEFINE m == n + 1
  <2>1. m \in 1 .. Len(all) /\ m \in 0 .. Len(all) /\ m # 0 /\ m - 1 = n /\ n <= Len(all)
    BY <1>1
  <2>2. g[n] = TermsUpTo(all, table, n)
    BY <1>9, <2>1
  <2> HIDE DEF m
  <2>3. g[m] = [g[m - 1] EXCEPT ![all[m].zone] = Append(@, Term(all[m]))]
    BY <1>7, <2>1
  <2>4. TermsUpTo(all, table, m)
          = [TermsUpTo(all, table, m - 1) EXCEPT ![all[m].zone] = Append(@, Term(all[m]))]
    BY <2>1, Turn
  <2>5. g[m - 1] = TermsUpTo(all, table, m - 1)
    BY <2>1, <2>2
  <2>6. g[m] = TermsUpTo(all, table, m)
    BY <2>3, <2>4, <2>5
  <2> QED
    BY <2>6 DEF m
<1>10. Len(all) \in S
  <2> HIDE DEF S
  <2> QED
    BY <1>1, <1>8, <1>9, Induction
<1>11. g[Len(all)] = TermsUpTo(all, table, Len(all))
  BY <1>1, <1>10
<1> QED
  BY <1>4, <1>6, <1>11

-----------------------------------------------------------------------------
(* What a zone's range holds.                                              *)

(* The elements of e between two bounds are the materials f has, ascending *)
(* and with their fractions.                                               *)
Holds(e, first, last, f) ==
  /\ \A n \in first .. last :
       /\ e[n].material \in Material /\ f[e[n].material] > 0
       /\ e[n].fraction = f[e[n].material]
  /\ \A n, n2 \in first .. last : n < n2 => e[n].material < e[n2].material
  /\ \A m \in Material : f[m] > 0 => \E n \in first .. last : e[n].material = m

(* The same for the materials below k, in a sequence of their own.         *)
HoldsBelow(s, f, k) ==
  /\ s \in Seq(MixElement)
  /\ \A n \in 1 .. Len(s) :
       /\ s[n].material < k /\ f[s[n].material] > 0
       /\ s[n].fraction = f[s[n].material]
  /\ \A n, n2 \in 1 .. Len(s) : n < n2 => s[n].material < s[n2].material
  /\ \A m \in Material : m < k /\ f[m] > 0 => \E n \in 1 .. Len(s) : s[n].material = m

(* The next turn of the loop over the materials.                           *)
LEMMA NextHolds ==
  ASSUME NEW z \in Nat, NEW f \in [Material -> Nat], NEW k \in Material, NEW s,
         HoldsBelow(s, f, k)
  PROVE  HoldsBelow(s \o (IF f[k] > 0
                            THEN <<[zone |-> z, material |-> k, fraction |-> f[k]]>>
                            ELSE << >>), f, k + 1)
<1> DEFINE e == [zone |-> z, material |-> k, fraction |-> f[k]]
<1>1. k \in Nat /\ f[k] \in Nat /\ \A m \in Material : m < k + 1 <=> m < k \/ m = k
  BY DEF Material
<1>2. e \in MixElement /\ e.material = k /\ e.fraction = f[k]
  BY <1>1 DEF MixElement
<1>3. s \in Seq(MixElement) /\ Len(s) \in Nat /\ \A i \in 1 .. Len(s) : s[i].material \in Material
  <2>1. s \in Seq(MixElement) /\ Len(s) \in Nat
    BY LenProperties DEF HoldsBelow
  <2>2. \A i \in 1 .. Len(s) : s[i] \in MixElement
    BY <2>1, ElementOfSeq
  <2> QED
    BY <2>1, <2>2 DEF MixElement
<1> HIDE DEF e
<1>4. CASE f[k] > 0
  <2> DEFINE w == s \o <<e>>
  <2>1. <<e>> \in Seq(MixElement) /\ Len(<<e>>) = 1 /\ <<e>>[1] = e
    BY <1>2
  <2>2. /\ w \in Seq(MixElement)
        /\ Len(w) = Len(s) + 1
        /\ \A i \in 1 .. Len(s) + 1 : w[i] = IF i <= Len(s) THEN s[i] ELSE <<e>>[i - Len(s)]
    <3>1. /\ s \o <<e>> \in Seq(MixElement)
          /\ Len(s \o <<e>>) = Len(s) + Len(<<e>>)
          /\ \A i \in 1 .. Len(s) + Len(<<e>>) :
               (s \o <<e>>)[i] = IF i <= Len(s) THEN s[i] ELSE <<e>>[i - Len(s)]
      BY <1>3, <2>1, ConcatProperties
    <3> QED
      BY <2>1, <3>1
  <2> HIDE DEF w
  <2>3. /\ \A i \in 1 .. Len(s) : w[i] = s[i] /\ i \in 1 .. Len(s) + 1
        /\ w[Len(s) + 1] = e /\ Len(s) + 1 \in 1 .. Len(s) + 1
    <3>1. Len(s) + 1 - Len(s) = 1 /\ ~ Len(s) + 1 <= Len(s) /\ Len(s) + 1 \in 1 .. Len(s) + 1
      BY <1>3
    <3> QED
      BY <1>3, <2>1, <2>2, <3>1
  <2>4. \A i \in 1 .. Len(s) + 1 : i \in 1 .. Len(s) \/ i = Len(s) + 1
    BY <1>3
  <2>5. \A i \in 1 .. Len(s) : /\ w[i].material < k /\ w[i].material \in Int
                               /\ f[w[i].material] > 0 /\ w[i].fraction = f[w[i].material]
    BY <1>3, <2>3 DEF HoldsBelow, Material
  <2>6. w[Len(s) + 1].material = k /\ w[Len(s) + 1].fraction = f[k]
    BY <1>2, <2>3
  <2>7. \A n \in 1 .. Len(w) : /\ w[n].material < k + 1 /\ f[w[n].material] > 0
                               /\ w[n].fraction = f[w[n].material]
    BY <1>1, <1>4, <2>2, <2>4, <2>5, <2>6
  <2>8. ASSUME NEW n \in 1 .. Len(w), NEW n2 \in 1 .. Len(w), n < n2
        PROVE  w[n].material < w[n2].material
    <3>1. n \in 1 .. Len(s)
      BY <1>3, <2>2, <2>8
    <3>2. CASE n2 \in 1 .. Len(s)
      BY <2>3, <2>8, <3>1, <3>2 DEF HoldsBelow
    <3>3. CASE n2 = Len(s) + 1
      BY <2>5, <2>6, <3>1, <3>3
    <3> QED
      BY <2>2, <2>4, <3>2, <3>3
  <2>9. ASSUME NEW m \in Material, m < k + 1, f[m] > 0
        PROVE  \E n \in 1 .. Len(w) : w[n].material = m
    <3>1. CASE m = k
      BY <2>2, <2>3, <2>6, <3>1
    <3>2. CASE m < k
      <4>1. PICK n \in 1 .. Len(s) : s[n].material = m
        BY <2>9, <3>2 DEF HoldsBelow
      <4> QED
        BY <2>2, <2>3, <4>1
    <3> QED
      BY <1>1, <2>9, <3>1, <3>2
  <2>10. HoldsBelow(w, f, k + 1)
    BY <2>2, <2>7, <2>8, <2>9 DEF HoldsBelow
  <2> QED
    BY <1>4, <2>10 DEF w, e
<1>5. CASE ~ f[k] > 0
  <2>1. s \o << >> = s
    BY <1>3, ConcatEmptySeq
  <2>2. \A i \in 1 .. Len(s) : s[i].material < k + 1
    <3>1. \A i \in 1 .. Len(s) : s[i].material < k /\ s[i].material \in Int
      BY <1>3 DEF HoldsBelow, Material
    <3> QED
      BY <1>1, <3>1
  <2>3. \A m \in Material : m < k + 1 /\ f[m] > 0 => m < k
    BY <1>1, <1>5
  <2>4. HoldsBelow(s, f, k + 1)
    BY <2>2, <2>3 DEF HoldsBelow
  <2> QED
    BY <1>5, <2>1, <2>4
<1> QED
  BY <1>4, <1>5

(* So the elements of a zone are what was sampled in it.                   *)
LEMMA ElementsHold ==
  ASSUME NEW z \in Nat, NEW f \in [Material -> Nat]
  PROVE  HoldsBelow(Elements(z, f), f, 3)
<1> DEFINE of(m) == IF f[m] > 0
                      THEN <<[zone |-> z, material |-> m, fraction |-> f[m]]>>
                      ELSE << >>
<1>1. 0 \in Material /\ 1 \in Material /\ 2 \in Material /\ 0 + 1 = 1 /\ 1 + 1 = 2 /\ 2 + 1 = 3
  BY DEF Material
<1>2. HoldsBelow(<< >>, f, 0)
  <2>1. << >> \in Seq(MixElement) /\ Len(<< >>) = 0
    BY EmptySeq
  <2>2. \A i : i \notin 1 .. Len(<< >>)
    BY <2>1
  <2>3. \A m \in Material : ~ m < 0
    BY DEF Material
  <2> HIDE DEF of
  <2> QED
    BY <2>1, <2>2, <2>3 DEF HoldsBelow
<1>3. \A k \in Material : \A s : HoldsBelow(s, f, k) => HoldsBelow(s \o of(k), f, k + 1)
  BY NextHolds
<1>4. Elements(z, f) = of(0) \o of(1) \o of(2)
  BY DEF Elements
<1>5. of(0) \in Seq(MixElement)
  <2>1. << >> \in Seq(MixElement)
    BY EmptySeq
  <2>2. [zone |-> z, material |-> 0, fraction |-> f[0]] \in MixElement
    BY <1>1 DEF MixElement
  <2> QED
    BY <2>1, <2>2
<1> HIDE DEF of
<1>6. << >> \o of(0) = of(0)
  BY <1>5, ConcatEmptySeq
<1>7. HoldsBelow(of(0), f, 1)
  BY <1>1, <1>2, <1>3, <1>6
<1>8. HoldsBelow(of(0) \o of(1), f, 2)
  BY <1>1, <1>3, <1>7
<1>9. HoldsBelow(of(0) \o of(1) \o of(2), f, 3)
  BY <1>1, <1>3, <1>8
<1> QED
  BY <1>4, <1>9

(* Elements appended behind e do not change what it holds.                 *)
LEMMA StillHolds ==
  ASSUME NEW e \in Seq(MixElement), NEW s \in Seq(MixElement), NEW f,
         NEW first \in Nat, NEW last \in Nat, 1 <= first, last <= Len(e), Holds(e, first, last, f)
  PROVE  Holds(e \o s, first, last, f)
<1> DEFINE w == e \o s
<1>1. \A n \in first .. last : w[n] = e[n]
  <2> SUFFICES ASSUME NEW n \in first .. last PROVE w[n] = e[n]
    OBVIOUS
  <2>1. Len(e) \in Nat /\ Len(s) \in Nat
    BY LenProperties
  <2>2. n \in 1 .. Len(e) + Len(s) /\ n <= Len(e)
    BY <2>1
  <2> QED
    BY <2>2, ConcatProperties
<1> HIDE DEF w
<1>2. Holds(w, first, last, f)
  BY <1>1 DEF Holds
<1> QED
  BY <1>2 DEF w

(* Elements appended behind e are where they are expected.                 *)
LEMMA NowHolds ==
  ASSUME NEW e \in Seq(MixElement), NEW f \in [Material -> Nat], NEW z \in Nat
  PROVE  Holds(e \o Elements(z, f), Len(e) + 1, Len(e) + Len(Elements(z, f)), f)
<1> DEFINE s == Elements(z, f)
           w == e \o s
<1>1. HoldsBelow(s, f, 3)
  BY ElementsHold
<1> HIDE DEF s
<1>2. Len(e) \in Nat /\ Len(s) \in Nat /\ s \in Seq(MixElement)
  BY <1>1, LenProperties DEF HoldsBelow
<1>3. \A n \in Len(e) + 1 .. Len(e) + Len(s) : w[n] = s[n - Len(e)] /\ n - Len(e) \in 1 .. Len(s)
  <2> SUFFICES ASSUME NEW n \in Len(e) + 1 .. Len(e) + Len(s)
               PROVE  w[n] = s[n - Len(e)] /\ n - Len(e) \in 1 .. Len(s)
    OBVIOUS
  <2>1. n \in 1 .. Len(e) + Len(s) /\ ~ n <= Len(e) /\ n - Len(e) \in 1 .. Len(s)
    BY <1>2
  <2> QED
    BY <1>2, <2>1, ConcatProperties
<1> HIDE DEF w
<1>4. \A n \in 1 .. Len(s) : s[n].material \in Material
  <2>1. \A n \in 1 .. Len(s) : s[n] \in MixElement
    BY <1>2, ElementOfSeq
  <2> QED
    BY <2>1 DEF MixElement
<1>5. \A n \in Len(e) + 1 .. Len(e) + Len(s) :
        /\ w[n].material \in Material /\ f[w[n].material] > 0
        /\ w[n].fraction = f[w[n].material]
  BY <1>1, <1>3, <1>4 DEF HoldsBelow
<1>6. ASSUME NEW n \in Len(e) + 1 .. Len(e) + Len(s), NEW n2 \in Len(e) + 1 .. Len(e) + Len(s), n < n2
      PROVE  w[n].material < w[n2].material
  <2>1. n - Len(e) < n2 - Len(e)
    BY <1>2, <1>6
  <2> QED
    BY <1>1, <1>3, <2>1 DEF HoldsBelow
<1>7. ASSUME NEW m \in Material, f[m] > 0
      PROVE  \E n \in Len(e) + 1 .. Len(e) + Len(s) : w[n].material = m
  <2>1. m < 3
    BY DEF Material
  <2>2. PICK i \in 1 .. Len(s) : s[i].material = m
    BY <1>1, <1>7, <2>1 DEF HoldsBelow
  <2> DEFINE n == Len(e) + i
  <2>3. n \in Len(e) + 1 .. Len(e) + Len(s) /\ n - Len(e) = i
    BY <1>2
  <2> HIDE DEF n
  <2>4. w[n].material = m
    BY <1>3, <2>2, <2>3
  <2> QED
    BY <2>3, <2>4
<1>8. Holds(w, Len(e) + 1, Len(e) + Len(s), f)
  BY <1>5, <1>6, <1>7 DEF Holds
<1> QED
  BY <1>8 DEF w, s

(* Chunks over groups and space.                                           *)
LEMMA GroupChunks == NumSubdomains("PR") \in Nat \ {0}
<1> DEFINE n == LocalLayout("PR")
<1>1. \A a \in Axis5 : OrOne(n[a]) \in Nat \ {0}
  <2>1. \A a \in Axis5 : n[a] \in Nat
    BY LocalAssumption DEF LocalLayout
  <2> QED
    BY <2>1 DEF OrOne
<1>2. OrOne(n[0]) \in Nat \ {0} /\ OrOne(n[1]) \in Nat \ {0} /\ OrOne(n[2]) \in Nat \ {0}
      /\ OrOne(n[3]) \in Nat \ {0} /\ OrOne(n[4]) \in Nat \ {0}
  BY <1>1 DEF Axis5
<1>3. Volume(n) = OrOne(n[0]) * OrOne(n[1]) * OrOne(n[2]) * OrOne(n[3]) * OrOne(n[4])
  BY DEF Volume, Run
<1>4. \A x, y \in Nat \ {0} : x * y \in Nat \ {0}
  OBVIOUS
<1> HIDE DEF n
<1>5. Volume(n) \in Nat \ {0}
  BY <1>2, <1>3, <1>4
<1> QED
  BY <1>5 DEF NumSubdomains, n

-----------------------------------------------------------------------------
(* The loops.                                                              *)

(* The ranges filled in so far hold what was sampled in their zones.       *)
RangesHold ==
  phase # "paint" =>
    \A c \in Chunks("R") : \A z \in 1 .. Filled(c) :
      LET entry == zoneTable[c][z]
      IN  Holds(element[c], entry.start + 1, entry.start + entry.num, mix[c][z - 1])

(* The loops have given each zone the terms of its range.                  *)
SigtInv ==
  /\ DOMAIN sigt = Chunks("PR")
  /\ phase = "sigt" =>
       /\ chunk <= NumSubdomains("PR")
       /\ \A c \in Chunks("PR") : c < chunk => \A g \in DOMAIN sigt[c] : sigt[c][g] = ByZone(c)

SampledInv == MixtureInv /\ RangesHold /\ SigtInv

(* Bounds of a range.                                                      *)
LEMMA RangeBounds ==
  ASSUME MixtureInv, phase # "paint", NEW c \in Chunks("R"), NEW z \in 1 .. Filled(c)
  PROVE  /\ zoneTable[c][z] \in Entry
         /\ zoneTable[c][z].start \in Nat /\ zoneTable[c][z].num \in Nat
         /\ zoneTable[c][z].start + 1 .. zoneTable[c][z].start + zoneTable[c][z].num
              = {n \in 1 .. Len(element[c]) : element[c][n].zone = z - 1}
         /\ element[c] \in Seq(MixElement)
<1>1. /\ Tables(element[c], zoneTable[c], Mixed(c), Filled(c))
      /\ Filled(c) \in 0 .. NumZones
      /\ element[c] \in Seq(MixElement) /\ DOMAIN element[c] = 1 .. Len(element[c])
  BY FilledBounds
<1>2. zoneTable[c] \in Seq(Entry) /\ Len(zoneTable[c]) = Filled(c)
      /\ OwnRange(element[c], zoneTable[c][z], z - 1)
  BY <1>1 DEF Tables
<1>3. zoneTable[c][z] \in Entry
  BY <1>2, ElementOfSeq
<1> QED
  BY <1>1, <1>2, <1>3 DEF Entry, OwnRange

LEMMA HoldStart ==
  ASSUME Init
  PROVE  RangesHold /\ SigtInv
BY DEF Init, RangesHold, SigtInv

(* Painting and counting: no elements yet.                                 *)
LEMMA EarlyHold ==
  ASSUME SampledInv, Paint \/ CountMixed
  PROVE  RangesHold' /\ SigtInv'
<1>1. PhaseInv /\ SigtInv /\ phase = "paint"
  BY DEF SampledInv, MixtureInv, Paint, CountMixed
<1>2. NumSubdomains("R") \in Nat \ {0} /\ Chunks("R") = 0 .. NumSubdomains("R") - 1
  BY ChunkBounds
<1>3. sigt' = sigt /\ phase' \in {"paint", "fill"} /\ chunk' \in Nat
  BY <1>1 DEF Paint, CountMixed, PhaseInv
<1>4. SigtInv'
  BY <1>1, <1>3 DEF SigtInv
<1>5. RangesHold'
  <2>1. CASE Paint
    BY <1>1, <2>1 DEF Paint, RangesHold
  <2>2. CASE CountMixed
    <3>1. zone' = 0 /\ chunk' = 0 /\ phase' = "fill"
      BY <1>1, <2>2 DEF CountMixed, PhaseInv
    <3>2. ASSUME NEW c \in Chunks("R") PROVE Filled(c)' = 0
      BY <1>2, <3>1 DEF Filled
    <3>3. 1 .. 0 = {}
      OBVIOUS
    <3> QED
      BY <3>2, <3>3 DEF RangesHold
  <2> QED
    BY <2>1, <2>2
<1> QED
  BY <1>4, <1>5

(* Filling in a zone.                                                      *)
LEMMA FillHolds ==
  ASSUME SampledInv, FillZone
  PROVE  RangesHold' /\ SigtInv'
<1>1. PhaseInv /\ MixInv /\ TablesInv /\ SigtInv /\ RangesHold /\ phase = "fill" /\ MixtureInv
  BY DEF SampledInv, MixtureInv, FillZone
<1>2. NumSubdomains("R") \in Nat \ {0} /\ Chunks("R") = 0 .. NumSubdomains("R") - 1
  BY ChunkBounds
<1>3. /\ sigt' = sigt /\ phase' = "fill" /\ chunk' = chunk /\ zone' = zone + 1 /\ mix' = mix
      /\ UNCHANGED mesh /\ zone < NumZones
  BY <1>1 DEF FillZone
<1>4. mesh \in Meshes /\ chunk \in Chunks("R") /\ zone \in Zones /\ zone \in Nat
  BY <1>1, <1>2, <1>3, MeshType DEF PhaseInv, Zones
<1>5. SigtInv'
  BY <1>1, <1>3 DEF SigtInv, PhaseInv
<1>6. RangesHold'
  <2> SUFFICES ASSUME NEW c \in Chunks("R"), NEW z \in 1 .. Filled(c)'
               PROVE  Holds(element'[c], zoneTable'[c][z].start + 1,
                            zoneTable'[c][z].start + zoneTable'[c][z].num, mix[c][z - 1])
    BY <1>3 DEF RangesHold
  <2> DEFINE s == Elements(zone, mix[chunk][zone])
             entry == [start |-> Len(element[chunk]), num |-> Len(s)]
  <2>1. /\ element' = [element EXCEPT ![chunk] = element[chunk] \o s]
        /\ zoneTable' = [zoneTable EXCEPT ![chunk] = Append(zoneTable[chunk], entry)]
        /\ DOMAIN element = Chunks("R") /\ DOMAIN zoneTable = Chunks("R")
    BY <1>1 DEF FillZone, TablesInv
  <2>2. mix[chunk][zone] \in [Material -> Nat]
    <3>1. mix[chunk] = Painted(chunk)
      BY <1>1, <1>4 DEF MixInv
    <3> QED
      BY <1>4, <3>1, PaintedFacts
  <2>3. /\ element[c] \in Seq(MixElement) /\ Len(element[c]) \in Nat
        /\ zoneTable[c] \in Seq(Entry) /\ Len(zoneTable[c]) = Filled(c)
        /\ Filled(c) \in Nat
    <3>1. /\ element[c] \in Seq(MixElement) /\ Len(zoneTable[c]) = Filled(c)
          /\ Filled(c) \in 0 .. NumZones
          /\ Tables(element[c], zoneTable[c], Mixed(c), Filled(c))
      BY <1>1, FilledBounds
    <3>2. NumZones \in Nat
      BY <1>4, MeshType
    <3> QED
      BY <3>1, <3>2, LenProperties DEF Tables
  <2>4. \A n \in 1 .. Filled(c) :
          /\ zoneTable[c][n].start \in Nat /\ zoneTable[c][n].num \in Nat
          /\ zoneTable[c][n].start + 1 .. zoneTable[c][n].start + zoneTable[c][n].num
               \subseteq 1 .. Len(element[c])
          /\ Holds(element[c], zoneTable[c][n].start + 1,
                   zoneTable[c][n].start + zoneTable[c][n].num, mix[c][n - 1])
    BY <1>1, RangeBounds DEF RangesHold
  <2>5. CASE c # chunk
    <3>1. element'[c] = element[c] /\ zoneTable'[c] = zoneTable[c]
      BY <2>1, <2>5
    <3>2. Filled(c)' = Filled(c)
      BY <1>3, <2>5, SameMesh DEF Filled
    <3> QED
      BY <2>4, <3>1, <3>2
  <2>6. CASE c = chunk
    <3> HIDE DEF entry
    <3>1. element'[c] = element[c] \o s /\ zoneTable'[c] = Append(zoneTable[c], entry)
      BY <2>1, <2>6
    <3>2. Filled(c) = zone /\ Filled(c)' = zone + 1
      <4>1. ~ c < chunk
        BY <1>2, <2>6
      <4> QED
        BY <1>1, <1>3, <2>6, <4>1, SameMesh DEF Filled
    <3>3. s \in Seq(MixElement) /\ Len(s) \in Nat
      <4> HIDE DEF s
      <4>1. HoldsBelow(s, mix[chunk][zone], 3)
        BY <1>4, <2>2, ElementsHold DEF s
      <4> QED
        BY <4>1, LenProperties DEF HoldsBelow
    <3> HIDE DEF s
    <3>4. entry \in Entry /\ entry.start = Len(element[c]) /\ entry.num = Len(s)
      BY <2>3, <2>6, <3>3 DEF entry, Entry
    <3>5. /\ zoneTable'[c][zone + 1] = entry
          /\ \A n \in 1 .. zone : zoneTable'[c][n] = zoneTable[c][n]
      BY <2>3, <3>1, <3>2, <3>4, AppendProperties
    <3>6. CASE z = zone + 1
      <4>1. Holds(element[c] \o s, Len(element[c]) + 1, Len(element[c]) + Len(s), mix[chunk][zone])
        BY <1>4, <2>2, <2>3, NowHolds DEF s
      <4>2. z - 1 = zone
        BY <1>4, <3>6
      <4> QED
        BY <2>6, <3>1, <3>4, <3>5, <3>6, <4>1, <4>2
    <3>7. CASE z \in 1 .. zone
      <4> DEFINE a == zoneTable[c][z].start
                 b == zoneTable[c][z].num
      <4>1. /\ a \in Nat /\ b \in Nat
            /\ a + 1 .. a + b \subseteq 1 .. Len(element[c])
            /\ Holds(element[c], a + 1, a + b, mix[c][z - 1])
        BY <2>4, <3>2, <3>7
      <4>2. zoneTable'[c][z].start = a /\ zoneTable'[c][z].num = b
        BY <3>5, <3>7
      <4> HIDE DEF a, b
      <4>3. a + 1 \in Nat /\ a + b \in Nat /\ 1 <= a + 1 /\ (b = 0 \/ a + b <= Len(element[c]))
        BY <2>3, <4>1
      <4>4. CASE b = 0
        <5>1. a + 1 .. a + b = {}
          BY <4>1, <4>4
        <5>2. Holds(element[c] \o s, a + 1, a + b, mix[c][z - 1])
          BY <4>1, <5>1 DEF Holds
        <5> QED
          BY <3>1, <4>2, <5>2
      <4>5. CASE a + b <= Len(element[c])
        <5>1. Holds(element[c] \o s, a + 1, a + b, mix[c][z - 1])
          BY <2>3, <3>3, <4>1, <4>3, <4>5, StillHolds
        <5> QED
          BY <3>1, <4>2, <5>1
      <4> QED
        BY <4>3, <4>4, <4>5
    <3> QED
      BY <1>4, <3>2, <3>6, <3>7
  <2> QED
    BY <2>5, <2>6
<1> QED
  BY <1>5, <1>6

(* The end of a chunk.                                                     *)
LEMMA FillDoneHolds ==
  ASSUME SampledInv, FillDone
  PROVE  RangesHold' /\ SigtInv'
<1>1. PhaseInv /\ SigtInv /\ RangesHold /\ phase = "fill"
  BY DEF SampledInv, MixtureInv, FillDone
<1>2. NumSubdomains("R") \in Nat \ {0} /\ Chunks("R") = 0 .. NumSubdomains("R") - 1
  BY ChunkBounds
<1>3. /\ sigt' = sigt /\ UNCHANGED <<mesh, mix, element, zoneTable>> /\ zone = NumZones /\ zone' = 0
      /\ \/ chunk + 1 = NumSubdomains("R") /\ phase' = "sigt" /\ chunk' = 0
         \/ chunk + 1 # NumSubdomains("R") /\ phase' = "fill" /\ chunk' = chunk + 1
  BY <1>1 DEF FillDone
<1>4. chunk \in Nat /\ chunk < NumSubdomains("R") /\ NumZones \in Nat /\ NumZones' = NumZones
  BY <1>1, <1>3, MeshType, SameMesh DEF PhaseInv
<1>5. SigtInv'
  <2>1. \A c \in Chunks("PR") : ~ c < 0
    BY DEF Chunks
  <2>2. 0 <= NumSubdomains("PR")
    BY GroupChunks
  <2> QED
    BY <1>1, <1>3, <1>4, <2>1, <2>2 DEF SigtInv
<1>6. ASSUME NEW c \in Chunks("R") PROVE Filled(c)' = Filled(c)
  <2>1. c \in Nat /\ c < NumSubdomains("R")
    BY <1>2
  <2>2. CASE chunk + 1 = NumSubdomains("R")
    <3>1. c < chunk \/ c = chunk
      BY <1>2, <1>4, <2>1, <2>2
    <3>2. Filled(c)' = NumZones
      BY <1>3, <1>4, <2>2 DEF Filled
    <3>3. Filled(c) = NumZones
      BY <1>3, <3>1 DEF Filled
    <3> QED
      BY <3>2, <3>3
  <2>3. CASE chunk + 1 # NumSubdomains("R")
    <3>1. phase' = "fill" /\ chunk' = chunk + 1
      BY <1>3, <2>3
    <3>2. Filled(c)' = IF c < chunk + 1 THEN NumZones ELSE 0
      BY <1>3, <1>4, <2>1, <3>1 DEF Filled
    <3>3. Filled(c) = IF c < chunk \/ c = chunk THEN NumZones ELSE 0
      BY <1>1, <1>3 DEF Filled
    <3>4. c < chunk + 1 <=> c < chunk \/ c = chunk
      BY <1>4, <2>1
    <3> QED
      BY <3>2, <3>3, <3>4
  <2> QED
    BY <2>2, <2>3
<1>7. RangesHold'
  BY <1>1, <1>3, <1>6 DEF RangesHold
<1> QED
  BY <1>5, <1>7

(* Of a boxes of b the places are a * b.                                   *)
LEMMA Inside ==
  ASSUME NEW a \in Nat \ {0}, NEW b \in Nat \ {0}, NEW x \in 0 .. a - 1, NEW y \in 0 .. b - 1
  PROVE  x * b + y \in 0 .. a * b - 1
<1>1. x * b \in Nat /\ a * b \in Nat /\ (x + 1) * b = x * b + b
  OBVIOUS
<1>2. (x + 1) * b <= a * b
  <2>1. a - (x + 1) \in Nat
    OBVIOUS
  <2>2. (a - (x + 1)) * b \in Nat
    BY <2>1
  <2>3. (a - (x + 1)) * b = a * b - (x + 1) * b
    OBVIOUS
  <2> QED
    BY <1>1, <2>2, <2>3
<1> QED
  BY <1>1, <1>2

(* A subdomain's chunk of space R is one of them.                          *)
LEMMA SpaceChunk ==
  ASSUME NEW c \in Chunks("PR")
  PROVE  Space3Chunk(c) \in Chunks("R")
<1> DEFINE n == LocalLayout("R")
           full == LocalLayout("PQR")
           pr == LocalLayout("PR")
           X == NumLocal[2]
           Y == NumLocal[3]
           Z == NumLocal[4]
           sd == SpaceToSubdomain("PR", c)
<1>1. \A a \in Axis5 : NumLocal[a] \in Nat \ {0}
  BY LocalAssumption
<1>2. 0 \in Axis5 /\ 1 \in Axis5 /\ 2 \in Axis5 /\ 3 \in Axis5 /\ 4 \in Axis5
  BY DEF Axis5
<1>3. X \in Nat \ {0} /\ Y \in Nat \ {0} /\ Z \in Nat \ {0}
  BY <1>1, <1>2
<1>4. /\ n[0] = 0 /\ n[1] = 0 /\ n[2] = X /\ n[3] = Y /\ n[4] = Z
      /\ \A a \in Axis5 : full[a] = NumLocal[a]
      /\ \A a \in Axis5 : pr[a] \in Nat
  <2>1. "R" \in DOMAIN AxesOf /\ "PQR" \in DOMAIN AxesOf
    BY DEF AxesOf
  <2> QED
    BY <1>1, <1>2 DEF LocalLayout, AxesOf
<1>5. \A x, y \in Nat \ {0} : x * y \in Nat \ {0}
  OBVIOUS
<1>6. \A L : (\A a \in Axis5 : L[a] \in Nat) => \A a \in Axis5 : Run(L, a) \in Nat \ {0} /\ OrOne(L[a]) \in Nat \ {0}
  <2> SUFFICES ASSUME NEW L, \A a \in Axis5 : L[a] \in Nat
               PROVE  \A a \in Axis5 : Run(L, a) \in Nat \ {0} /\ OrOne(L[a]) \in Nat \ {0}
    OBVIOUS
  <2>1. \A a \in Axis5 : OrOne(L[a]) \in Nat \ {0}
    BY DEF OrOne
  <2>2. OrOne(L[0]) \in Nat \ {0} /\ OrOne(L[1]) \in Nat \ {0} /\ OrOne(L[2]) \in Nat \ {0}
        /\ OrOne(L[3]) \in Nat \ {0} /\ OrOne(L[4]) \in Nat \ {0} /\ 1 \in Nat \ {0}
    BY <1>2, <2>1
  <2>3. \A a \in Axis5 : Run(L, a) \in Nat \ {0}
    BY <1>5, <2>2 DEF Run
  <2> QED
    BY <2>1, <2>3
<1> HIDE DEF X, Y, Z, n, full, pr, sd
<1>7. \A id \in Int, b \in Nat \ {0}, m \in Nat \ {0} : (id \div b) % m \in 0 .. m - 1
  <2> SUFFICES ASSUME NEW id \in Int, NEW b \in Nat \ {0}, NEW m \in Nat \ {0}
               PROVE  (id \div b) % m \in 0 .. m - 1
    OBVIOUS
  <2>1. id \div b \in Int
    BY DivMod
  <2> QED
    BY <2>1, DivMod
<1>8. \A L, id : id \in Int /\ (\A a \in Axis5 : L[a] \in Nat) =>
        \A a \in Axis5 : ToIndices(L, id)[a] \in 0 .. OrOne(L[a]) - 1
  <2> SUFFICES ASSUME NEW L, NEW id, id \in Int, \A a \in Axis5 : L[a] \in Nat, NEW a \in Axis5
               PROVE  ToIndices(L, id)[a] \in 0 .. OrOne(L[a]) - 1
    OBVIOUS
  <2> DEFINE b == IF L[a] = 0 THEN 1 ELSE Run(L, a)
  <2>1. b \in Nat \ {0} /\ OrOne(L[a]) \in Nat \ {0}
    BY <1>6
  <2>2. ToIndices(L, id)[a] = (id \div b) % OrOne(L[a])
    BY DEF ToIndices
  <2> HIDE DEF b
  <2> QED
    BY <1>7, <2>1, <2>2
<1>9. \A L, idx : (\A a \in Axis5 : L[a] \in Nat /\ idx[a] \in Int) => Linearize(L, idx) \in Int
  <2> SUFFICES ASSUME NEW L, NEW idx, \A a \in Axis5 : L[a] \in Nat /\ idx[a] \in Int
               PROVE  Linearize(L, idx) \in Int
    OBVIOUS
  <2>1. \A a \in Axis5 : Along(L, idx, a) \in Int
    <3>1. \A x \in Int, y \in Nat : x * y \in Int
      OBVIOUS
    <3>2. \A a \in Axis5 : Run(L, a) \in Nat
      BY <1>6
    <3> QED
      BY <3>1, <3>2 DEF Along
  <2> QED
    BY <1>2, <2>1 DEF Linearize
<1>10. sd \in Int
  <2>1. c \in Int
    BY DEF Chunks
  <2>2. \A a \in Axis5 : OrOne(pr[a]) \in Nat
    BY <1>4, <1>6
  <2>3. \A a \in Axis5 : ToIndices(pr, c)[a] \in Int
    BY <1>4, <1>8, <2>1, <2>2
  <2>4. \A a \in Axis5 : full[a] \in Nat
    BY <1>1, <1>4
  <2> QED
    BY <1>9, <2>3, <2>4 DEF sd, SpaceToSubdomain, full, pr
<1> DEFINE i == SdomIdToCoord(sd)
<1>11. i[2] \in 0 .. X - 1 /\ i[3] \in 0 .. Y - 1 /\ i[4] \in 0 .. Z - 1
  <2>1. \A a \in Axis5 : full[a] \in Nat /\ OrOne(full[a]) = NumLocal[a]
    BY <1>1, <1>4 DEF OrOne
  <2>2. \A a \in Axis5 : i[a] \in 0 .. OrOne(full[a]) - 1
    BY <1>8, <1>10, <2>1 DEF SdomIdToCoord, full
  <2> QED
    BY <1>2, <2>1, <2>2 DEF X, Y, Z
<1>12. \A x \in Nat : x * 1 = x /\ 1 * x = x
  OBVIOUS
<1>13. OrOne(n[0]) = 1 /\ OrOne(n[1]) = 1 /\ OrOne(n[2]) = X /\ OrOne(n[3]) = Y /\ OrOne(n[4]) = Z
  BY <1>3, <1>4 DEF OrOne
<1>14. Y * Z \in Nat \ {0} /\ X * Y \in Nat /\ X * Y * Z = X * (Y * Z)
  BY <1>3
<1>15. Run(n, 4) = 1 /\ Run(n, 3) = Z /\ Run(n, 2) = Y * Z /\ Volume(n) = X * (Y * Z)
  <2>1. Run(n, 4) = 1 * 1 * 1 * 1 * 1
    BY DEF Run
  <2>2. Run(n, 3) = 1 * 1 * 1 * 1 * Z
    BY <1>13 DEF Run
  <2>3. Run(n, 2) = 1 * 1 * 1 * Y * Z
    BY <1>13 DEF Run
  <2>4. Volume(n) = 1 * 1 * X * Y * Z
    BY <1>13 DEF Run, Volume
  <2> QED
    BY <1>3, <1>12, <1>14, <2>1, <2>2, <2>3, <2>4
<1> HIDE DEF i
<1>16. Linearize(n, i) = i[2] * (Y * Z) + i[3] * Z + i[4]
  <2>1. n[2] # 0 /\ n[3] # 0 /\ n[4] # 0
    BY <1>3, <1>4
  <2>2. /\ Along(n, i, 0) = 0 /\ Along(n, i, 1) = 0 /\ Along(n, i, 2) = i[2] * (Y * Z)
        /\ Along(n, i, 3) = i[3] * Z /\ Along(n, i, 4) = i[4] * 1
    BY <1>4, <1>15, <2>1 DEF Along
  <2>3. i[4] * 1 = i[4] /\ i[3] * Z \in Int /\ i[2] * (Y * Z) \in Int
    BY <1>3, <1>11, <1>14
  <2> QED
    BY <2>2, <2>3 DEF Linearize
<1>17. i[3] * Z + i[4] \in 0 .. Y * Z - 1
  BY <1>3, <1>11, Inside
<1>18. i[2] * (Y * Z) + (i[3] * Z + i[4]) \in 0 .. X * (Y * Z) - 1
  BY <1>3, <1>11, <1>14, <1>17, Inside
<1>19. Linearize(n, i) \in 0 .. X * (Y * Z) - 1
  <2>1. i[2] * (Y * Z) + i[3] * Z + i[4] = i[2] * (Y * Z) + (i[3] * Z + i[4])
    BY <1>3, <1>11, <1>14
  <2> QED
    BY <1>16, <1>18, <2>1
<1>20. Space3Chunk(c) = Linearize(n, i)
  BY DEF Space3Chunk, WorkList, ChunkOf, SubdomainToSpace, n, i, sd
<1> QED
  BY <1>15, <1>19, <1>20 DEF Chunks, NumSubdomains, n

(* The loop on the host and the one on the device add the same terms.      *)
LEMMA LoopsAgree ==
  ASSUME MixtureInv, phase = "sigt", NEW c \in Chunks("PR")
  PROVE  ByElement(c) = ByZone(c)
<1> DEFINE r == Space3Chunk(c)
           all == element[r]
           table == zoneTable[r]
<1>1. r \in Chunks("R") /\ Filled(r) = NumZones
  BY SpaceChunk DEF Filled
<1>2. mesh \in Meshes /\ NumZones \in Nat \ {0}
  BY MeshType DEF MixtureInv, PhaseInv
<1>3. \A z \in Zones : z + 1 \in 1 .. Filled(r) /\ z + 1 - 1 = z
  BY <1>1, <1>2 DEF Zones
<1>4. /\ all \in Seq(MixElement) /\ Len(all) \in Nat
      /\ Tables(all, table, Mixed(r), Filled(r))
  BY <1>1, FilledBounds, LenProperties
<1>5. ASSUME NEW n \in 1 .. Len(all) PROVE all[n].zone \in Zones
  <2>1. all[n] \in MixElement
    BY <1>4, ElementOfSeq
  <2>2. all[n].zone \in Nat /\ all[n].zone < NumZones
    BY <1>1, <1>4, <2>1 DEF MixElement, Tables
  <2> QED
    BY <1>2, <2>2 DEF Zones
<1>6. ASSUME NEW z \in Zones
      PROVE  /\ table[z + 1] \in Entry
             /\ table[z + 1].start + 1 .. table[z + 1].start + table[z + 1].num
                  = {n \in 1 .. Len(all) : all[n].zone = z}
  <2> DEFINE k == z + 1
  <2>1. k \in 1 .. Filled(r) /\ k - 1 = z
    <3>1. z \in Nat
      BY <1>2 DEF Zones
    <3> QED
      BY <1>3, <3>1
  <2> HIDE DEF k
  <2>2. /\ table[k] \in Entry
        /\ table[k].start + 1 .. table[k].start + table[k].num
             = {n \in 1 .. Len(all) : all[n].zone = k - 1}
    BY <1>1, <2>1, RangeBounds
  <2> QED
    BY <2>1, <2>2 DEF k
<1>7. HasRanges(all, table)
  BY <1>4, <1>5, <1>6 DEF HasRanges
<1>8. ByElement(c) = Added(all)[Len(all)]
  BY DEF ByElement
<1>9. ByZone(c) = [z \in Zones |-> [i \in 1 .. table[z + 1].num |-> Term(all[table[z + 1].start + i])]]
  BY DEF ByZone
<1> HIDE DEF all, table
<1> QED
  BY <1>7, <1>8, <1>9, LoopAdds

(* The collapse.                                                           *)
LEMMA CollapseHolds ==
  ASSUME SampledInv, CollapseSigt \/ Done \/ UNCHANGED vars
  PROVE  RangesHold' /\ SigtInv'
<1>1. PhaseInv /\ SigtInv /\ RangesHold /\ MixtureInv
  BY DEF SampledInv, MixtureInv
<1>2. UNCHANGED <<mesh, phase, zone, mix, element, zoneTable>>
  BY DEF CollapseSigt, Done, vars
<1>3. chunk' = chunk \/ (phase = "sigt" /\ chunk' = chunk + 1)
  BY DEF CollapseSigt, Done, vars
<1>4. RangesHold'
  <2>1. \A c : Filled(c)' = Filled(c)
    BY <1>2, <1>3, SameMesh DEF Filled
  <2> QED
    BY <1>1, <1>2, <2>1 DEF RangesHold
<1>5. \A c : ByZone(c)' = ByZone(c)
  BY <1>2, SameMesh DEF ByZone, Space3Chunk
<1>6. CASE CollapseSigt
  <2> DEFINE terms == IF gpu THEN ByZone(chunk) ELSE ByElement(chunk)
  <2>1. /\ phase = "sigt" /\ chunk < NumSubdomains("PR") /\ chunk' = chunk + 1
        /\ sigt' = [sigt EXCEPT ![chunk] = [g \in DOMAIN sigt[chunk] |-> terms]]
    BY <1>6 DEF CollapseSigt
  <2>2. chunk \in Nat
    BY <1>1 DEF PhaseInv
  <2>3. terms = ByZone(chunk)
    <3>1. CASE chunk \in Chunks("PR")
      BY <1>1, <2>1, <3>1, LoopsAgree
    <3>2. NumSubdomains("PR") \in Int => chunk \in Chunks("PR")
      BY <2>1, <2>2 DEF Chunks
    <3>3. NumSubdomains("PR") \in Int
      BY GroupChunks
    <3> QED
      BY <3>1, <3>2, <3>3
  <2> HIDE DEF terms
  <2>4. DOMAIN sigt' = Chunks("PR")
    BY <1>1, <2>1 DEF SigtInv
  <2>5. ASSUME NEW c \in Chunks("PR"), c < chunk + 1, NEW g \in DOMAIN sigt'[c]
        PROVE  sigt'[c][g] = ByZone(c)
    <3>1. c \in Int
      BY DEF Chunks
    <3>2. CASE c = chunk
      BY <1>1, <2>1, <2>3, <2>5, <3>2 DEF SigtInv
    <3>3. CASE c < chunk
      BY <1>1, <2>1, <2>2, <2>5, <3>1, <3>3 DEF SigtInv
    <3> QED
      BY <2>2, <2>5, <3>1, <3>2, <3>3
  <2>6. chunk + 1 <= NumSubdomains("PR")
    BY <2>1, <2>2, GroupChunks
  <2>7. ASSUME NEW c \in Chunks("PR"), c < chunk' PROVE \A g \in DOMAIN sigt'[c] : sigt'[c][g] = ByZone(c)'
    BY <1>5, <2>1, <2>5, <2>7
  <2>8. SigtInv'
    BY <2>1, <2>4, <2>6, <2>7 DEF SigtInv
  <2> QED
    BY <1>4, <2>8
<1>7. CASE Done \/ UNCHANGED vars
  <2>1. sigt' = sigt /\ chunk' = chunk
    BY <1>7 DEF Done, vars
  <2> QED
    BY <1>1, <1>2, <1>4, <1>5, <2>1 DEF SigtInv
<1> QED
  BY <1>6, <1>7

(* The elements in a zone's range are what was sampled in the zone, and    *)
(* the loops that are done have added up the ranges.                       *)
THEOREM SampledInvariant == Spec => []SampledInv
<1>1. Init => SampledInv
  BY InitInv, HoldStart DEF SampledInv
<1>2. SampledInv /\ [Next]_vars => SampledInv'
  <2> SUFFICES ASSUME SampledInv, [Next]_vars PROVE SampledInv'
    OBVIOUS
  <2>1. MixtureInv
    BY DEF SampledInv
  <2>2. MixtureInv'
    BY <2>1, PaintInv, CountMixedInv, FillZoneInv, FillDoneInv, CollapseInv DEF Next
  <2>3. RangesHold' /\ SigtInv'
    BY EarlyHold, FillHolds, FillDoneHolds, CollapseHolds DEF Next
  <2> QED
    BY <2>2, <2>3 DEF SampledInv
<1> QED
  BY <1>1, <1>2, PTL DEF Spec

(* The sum of a zone has each material sampled in it once, with as many    *)
(* samples, in ascending order: whichever loop added it up, and for every  *)
(* group set.                                                              *)
THEOREM SumsAreSampled == Spec => []SigtOfSamples
<1>1. SampledInv => SigtOfSamples
  <2> SUFFICES ASSUME SampledInv, phase = "sigt", NEW c \in 0 .. chunk - 1,
                      NEW g \in DOMAIN sigt[c], NEW z \in Zones
               PROVE  /\ Range(sigt[c][g][z])
                           = {<<m, mix[Space3Chunk(c)][z][m]>> :
                               m \in {m \in Material : mix[Space3Chunk(c)][z][m] > 0}}
                      /\ \A n, n2 \in DOMAIN sigt[c][g][z] :
                           n < n2 => sigt[c][g][z][n][1] < sigt[c][g][z][n2][1]
    BY DEF SigtOfSamples
  <2> DEFINE r == Space3Chunk(c)
             e == element[r]
             k == z + 1
             a == zoneTable[r][k].start
             b == zoneTable[r][k].num
             f == mix[r][z]
             terms == sigt[c][g][z]
  <2>1. PhaseInv /\ MixtureInv /\ RangesHold /\ SigtInv
    BY DEF SampledInv, MixtureInv
  <2>2. c \in Chunks("PR") /\ c < chunk
    <3>1. chunk \in Nat /\ chunk <= NumSubdomains("PR") /\ NumSubdomains("PR") \in Nat
      BY <2>1, GroupChunks DEF PhaseInv, SigtInv
    <3> QED
      BY <3>1 DEF Chunks
  <2>3. r \in Chunks("R") /\ k \in 1 .. Filled(r) /\ k - 1 = z
    <3>1. NumZones \in Nat
      BY <2>1, MeshType DEF PhaseInv
    <3> QED
      BY <2>2, <3>1, SpaceChunk DEF Filled, Zones
  <2> HIDE DEF r, k
  <2>4. a \in Nat /\ b \in Nat /\ Holds(e, a + 1, a + b, f)
    BY <2>1, <2>3, RangeBounds DEF RangesHold
  <2>5. terms = [n \in 1 .. b |-> Term(e[a + n])]
    <3>1. sigt[c][g] = ByZone(c)
      BY <2>1, <2>2 DEF SigtInv
    <3> QED
      BY <3>1 DEF ByZone, r, k
  <2> HIDE DEF e, a, b, f, terms
  <2>6. DOMAIN terms = 1 .. b /\ \A n \in 1 .. b : terms[n] = <<e[a + n].material, e[a + n].fraction>>
    BY <2>5 DEF Term
  <2>7. \A n \in 1 .. b : a + n \in a + 1 .. a + b
    BY <2>4
  <2>8. \A n \in 1 .. b : /\ e[a + n].material \in Material /\ f[e[a + n].material] > 0
                          /\ terms[n] = <<e[a + n].material, f[e[a + n].material]>>
                          /\ terms[n][1] = e[a + n].material
    BY <2>4, <2>6, <2>7 DEF Holds
  <2>9. ASSUME NEW n \in DOMAIN terms, NEW n2 \in DOMAIN terms, n < n2
        PROVE  terms[n][1] < terms[n2][1]
    <3>1. a + n < a + n2 /\ a + n \in a + 1 .. a + b /\ a + n2 \in a + 1 .. a + b
      BY <2>4, <2>6, <2>7, <2>9
    <3>2. e[a + n].material < e[a + n2].material
      BY <2>4, <3>1 DEF Holds
    <3> QED
      BY <2>6, <2>8, <2>9, <3>2
  <2>10. ASSUME NEW m \in Material, f[m] > 0
         PROVE  \E n \in 1 .. b : terms[n] = <<m, f[m]>>
    <3>1. PICK p \in a + 1 .. a + b : e[p].material = m
      BY <2>4, <2>10 DEF Holds
    <3> DEFINE n == p - a
    <3>2. n \in 1 .. b /\ a + n = p
      BY <2>4, <3>1
    <3> HIDE DEF n
    <3> QED
      BY <2>8, <3>1, <3>2
  <2>11. Range(terms) = {terms[n] : n \in 1 .. b}
    BY <2>6 DEF Range
  <2>12. Range(terms) = {<<m, f[m]>> : m \in {m \in Material : f[m] > 0}}
    <3>1. \A n \in 1 .. b : terms[n] \in {<<m, f[m]>> : m \in {m \in Material : f[m] > 0}}
      BY <2>8
    <3>2. \A t \in {<<m, f[m]>> : m \in {m \in Material : f[m] > 0}} : \E n \in 1 .. b : terms[n] = t
      BY <2>10
    <3> QED
      BY <2>11, <3>1, <3>2
  <2> QED
    BY <2>9, <2>12 DEF terms, f, r
<1> QED
  BY <1>1, SampledInvariant, PTL
=============================================================================
