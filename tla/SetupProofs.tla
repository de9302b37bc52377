---------------------------- MODULE SetupProofs -----------------------------
(***************************************************************************)
(* What the set-up hands to the solver.  For every set of command lines:   *)
(* the direction sets of an accepted input, and the octants of their       *)
(* directions.  For every number of ranks and sets, and all signs: ids and *)
(* coordinates of SweepGrid are in bijection, the graph it builds is as    *)
(* SubdomainGraph assumes, and has no cycle.                               *)
(***************************************************************************)
EXTENDS ProblemSetup, SweepGrid, FiniteSetTheorems, TLAPS

-----------------------------------------------------------------------------
(* Arithmetic.                                                             *)

(* Division with remainder.                                                *)
LEMMA DivMod ==
  ASSUME NEW a \in Int, NEW b \in Nat \ {0}
  PROVE  /\ a \div b \in Int
         /\ a % b \in 0 .. b - 1
         /\ a = b * (a \div b) + (a % b)
OBVIOUS

(* Multiples of b that are not equal are b apart.                          *)
LEMMA Apart ==
  ASSUME NEW p \in Int, NEW q \in Int, NEW b \in Nat \ {0}, p < q
  PROVE  b * p + b <= b * q
<1>1. PICK k \in Nat : q = p + 1 + k
  <2>1. q - p - 1 \in Nat
    OBVIOUS
  <2> QED
    BY <2>1
<1>2. b * q = b * (p + 1) + b * k
  BY <1>1
<1>3. b * (p + 1) = b * p + b /\ b * k >= 0
  BY <1>1
<1> QED
  BY <1>2, <1>3

(* Quotient and remainder are the only pair that adds up.                  *)
LEMMA DivModUnique ==
  ASSUME NEW a \in Int, NEW b \in Nat \ {0}, NEW q \in Int, NEW r \in 0 .. b - 1,
         a = b * q + r
  PROVE  a \div b = q /\ a % b = r
<1>1. /\ a \div b \in Int
      /\ a % b \in 0 .. b - 1
      /\ a = b * (a \div b) + (a % b)
  BY DivMod
<1> DEFINE p == a \div b
<1> HIDE DEF p
<1>2. ~ p < q
  BY <1>1, Apart DEF p
<1>3. ~ q < p
  BY <1>1, Apart DEF p
<1>4. p = q
  BY <1>1, <1>2, <1>3 DEF p
<1> QED
  BY <1>1, <1>4 DEF p

(* A number below the product of two extents has a quotient below the      *)
(* first, and the product of coordinates in range is below it.             *)
LEMMA DivInRange ==
  ASSUME NEW b \in Nat \ {0}, NEW m \in Nat \ {0}
  PROVE  /\ \A a \in 0 .. m * b - 1 : a \div b \in 0 .. m - 1
         /\ \A q \in 0 .. m - 1, r \in 0 .. b - 1 : b * q + r \in 0 .. m * b - 1
<1>1. ASSUME NEW a \in 0 .. m * b - 1
      PROVE  a \div b \in 0 .. m - 1
  <2>0. a \in Int /\ m * b \in Int /\ 0 <= a /\ a < m * b
    OBVIOUS
  <2> DEFINE p == a \div b
  <2>1. p \in Int /\ b * p <= a /\ a < b * p + b
    BY <2>0, DivMod
  <2> HIDE DEF p
  <2>2. ~ p < 0
    <3>1. SUFFICES ASSUME p < 0 PROVE FALSE
      OBVIOUS
    <3>2. b * p + b <= b * 0
      BY <2>1, <3>1, Apart
    <3> QED
      BY <2>0, <2>1, <3>2
  <2>3. p < m
    <3>1. SUFFICES ASSUME ~ p < m PROVE FALSE
      OBVIOUS
    <3>2. b * m <= b * p
      <4>1. CASE p = m
        BY <4>1
      <4>2. CASE m < p
        BY <4>2, <2>1, Apart
      <4> QED
        BY <2>1, <3>1, <4>1, <4>2
    <3>3. b * m = m * b
      OBVIOUS
    <3> QED
      BY <2>0, <2>1, <3>2, <3>3
  <2> QED
    BY <2>1, <2>2, <2>3 DEF p
<1>2. ASSUME NEW q \in 0 .. m - 1, NEW r \in 0 .. b - 1
      PROVE  b * q + r \in 0 .. m * b - 1
  <2>1. b * q + b <= b * m
    BY Apart
  <2>2. b * m = m * b /\ b * q \in Nat
    OBVIOUS
  <2> QED
    BY <2>1, <2>2
<1> QED
  BY <1>1, <1>2

(* In R rows of length A: h rows from row a on, m columns from b on.       *)
IsRectangle(O, R, A, a, h, b, m) ==
  \A i : i \in O <=> /\ i \in 0 .. R * A - 1
                     /\ i \div A \in a .. a + h - 1
                     /\ i % A \in b .. b + m - 1

(* A rectangle of h rows and m columns has h * m elements.                 *)
LEMMA Rectangle ==
  ASSUME NEW A \in Nat \ {0}, NEW a \in Nat, NEW h \in Nat \ {0},
         NEW b \in Nat, NEW m \in Nat \ {0}, b + m <= A,
         NEW R \in Nat \ {0}, a + h <= R,
         NEW O, IsRectangle(O, R, A, a, h, b, m)
  PROVE  IsFiniteSet(O) /\ Cardinality(O) = h * m
<1> DEFINE D == 0 .. h * m - 1
           f == [n \in D |-> A * (a + (n \div m)) + (b + (n % m))]
<1> USE DEF IsRectangle
<1>1. ASSUME NEW n \in D
      PROVE  /\ n \div m \in 0 .. h - 1 /\ n % m \in 0 .. m - 1 /\ n \in Int
             /\ n = m * (n \div m) + (n % m)
             /\ f[n] \div A = a + (n \div m)
             /\ f[n] % A = b + (n % m)
             /\ f[n] \in O
  <2>1. h * m \in Int
    OBVIOUS
  <2>8. n \in 0 .. h * m - 1
    OBVIOUS
  <2>9. n \in Int
    BY <2>1, <2>8
  <2>10. n \div m \in 0 .. h - 1
    BY <2>8, DivInRange
  <2>7. n \div m \in 0 .. h - 1 /\ n \in Int
    BY <2>9, <2>10
  <2>2. n \div m \in 0 .. h - 1 /\ n % m \in 0 .. m - 1 /\ n \in Int
        /\ n = m * (n \div m) + (n % m)
    BY <2>7, DivMod
  <2> DEFINE q == a + (n \div m)
             r == b + (n % m)
  <2>3. q \in a .. a + h - 1 /\ r \in b .. b + m - 1
        /\ q \in 0 .. R - 1 /\ r \in 0 .. A - 1 /\ f[n] = A * q + r
    BY <2>2
  <2> HIDE DEF q, r, f
  <2>4. f[n] \in 0 .. R * A - 1 /\ f[n] \in Int
    <3>1. R * A \in Int
      OBVIOUS
    <3> QED
      BY <2>3, <3>1, DivInRange
  <2>5. f[n] \div A = q /\ f[n] % A = r
    BY <2>3, <2>4, DivModUnique
  <2>6. f[n] \in O
    BY <2>3, <2>4, <2>5
  <2> QED
    BY <2>2, <2>5, <2>6 DEF q, r
<1>2. f \in [D -> O]
  BY <1>1
<1>3. ASSUME NEW x \in D, NEW y \in D, f[x] = f[y]
      PROVE  x = y
  <2>1. x \div m \in Int /\ y \div m \in Int /\ x % m \in Int /\ y % m \in Int
    BY <1>1
  <2>2. a + (x \div m) = a + (y \div m) /\ b + (x % m) = b + (y % m)
    BY <1>1, <1>3
  <2>3. x \div m = y \div m /\ x % m = y % m
    BY <2>1, <2>2
  <2>4. x = m * (x \div m) + (x % m) /\ y = m * (y \div m) + (y % m)
    BY <1>1
  <2> QED
    BY <2>3, <2>4
<1>4. ASSUME NEW i \in O
      PROVE  \E n \in D : f[n] = i
  <2> DEFINE q == (i \div A) - a
             r == (i % A) - b
             n == m * q + r
  <2>1. i \in Int /\ i = A * (i \div A) + (i % A)
    <3>1. R * A \in Int
      OBVIOUS
    <3>2. i \in 0 .. R * A - 1
      OBVIOUS
    <3>3. i \in Int
      BY <3>1, <3>2
    <3> QED
      BY <3>3, DivMod
  <2>2. q \in 0 .. h - 1 /\ r \in 0 .. m - 1 /\ i \div A = a + q /\ i % A = b + r
    <3>1. i \div A \in a .. a + h - 1 /\ i % A \in b .. b + m - 1
      OBVIOUS
    <3> QED
      BY <3>1
  <2> HIDE DEF q, r
  <2>7. n \in 0 .. h * m - 1
    BY <2>2, DivInRange
  <2>8. h * m \in Int
    OBVIOUS
  <2>3. n \in D /\ n \in Int
    <3> HIDE DEF n
    <3> QED
      BY <2>7, <2>8
  <2>4. n \div m = q /\ n % m = r
    <3> HIDE DEF D
    <3>1. n = m * q + r /\ q \in Int
      BY <2>2
    <3> HIDE DEF n
    <3> QED
      BY <2>2, <2>3, <3>1, DivModUnique
  <2>5. f[n] = A * (a + q) + (b + r)
    <3> HIDE DEF n, D
    <3> QED
      BY <2>3, <2>4
  <2>6. f[n] = i
    <3> HIDE DEF n, f
    <3> QED
      BY <2>1, <2>2, <2>5
  <2> QED
    BY <2>3, <2>6
<1>5. ExistsBijection(D, O)
  <2> HIDE DEF f, D
  <2>1. f \in Injection(D, O)
    BY <1>2, <1>3 DEF Injection, IsInjective
  <2>2. f \in Surjection(D, O)
    BY <1>2, <1>4 DEF Surjection
  <2> QED
    BY <2>1, <2>2 DEF ExistsBijection, Bijection
<1>6. IsFiniteSet(D) /\ Cardinality(D) = h * m
  <2>1. h * m \in Nat \ {0}
    OBVIOUS
  <2> DEFINE k == h * m
  <2>3. k \in Nat \ {0}
    BY <2>1
  <2> HIDE DEF k
  <2>4. k - 1 \in Int /\ ~ 0 > k - 1 /\ (k - 1) - 0 + 1 = k
    BY <2>3
  <2>2. IsFiniteSet(0 .. k - 1) /\ Cardinality(0 .. k - 1) = k
    BY <2>4, FS_Interval
  <2> QED
    BY <2>2 DEF k
<1> QED
  BY <1>5, <1>6, FS_Bijection

-----------------------------------------------------------------------------
(* The two quadrature sets.                                                *)

LEMMA SignFacts ==
  /\ \A b \in BOOLEAN : Sign(b) \in {-1, 1} /\ (Sign(b) = 1 <=> b)
  /\ \A f \in [Axis -> {-1, 1}] : f \in Flags
BY DEF Sign, Flags

LEMMA OctantFlagsType ==
  ASSUME NEW o
  PROVE  OctantFlags(o) \in Flags
<1>1. \A a \in Axis : Sign(Bit(o, a) = 1) \in {-1, 0, 1}
  BY SignFacts
<1> QED
  BY <1>1 DEF OctantFlags, Flags

LEMMA FakeSetType ==
  ASSUME NEW v
  PROVE  FakeSet(v) \in [0 .. v.dirs - 1 -> Flags]
<1>1. [a \in Axis |-> 0] \in Flags
  BY DEF Flags
<1> QED
  BY <1>1, OctantFlagsType DEF FakeSet

LEMMA SortedType ==
  ASSUME NEW dir
  PROVE  SortedByOctant(dir) \in [DOMAIN dir -> Flags]
<1> DEFINE Above(o) == Cardinality({i \in DOMAIN dir : Octant(dir[i]) > o})
           At(i) == CHOOSE o \in 0 .. 7 : Above(o) <= i /\ (o = 0 \/ i < Above(o - 1))
<1>1. SortedByOctant(dir) = [i \in DOMAIN dir |-> [a \in Axis |-> Sign(Bit(At(i), a) = 0)]]
  BY DEF SortedByOctant
<1> HIDE DEF At
<1>2. \A i : [a \in Axis |-> Sign(Bit(At(i), a) = 0)] \in Flags
  BY SignFacts DEF Flags
<1> QED
  BY <1>1, <1>2

-----------------------------------------------------------------------------
(* The inductive invariant.                                                *)

LEMMA InitInd == Init => IndInv
BY DEF Init, IndInv, TypeOK, Accepted, Partitioned, Built

LEMMA CheckValuesInd == IndInv /\ CheckValues => IndInv'
<1> SUFFICES ASSUME IndInv, CheckValues PROVE IndInv'
  OBVIOUS
<1>1. phase = "start" /\ phase' = Verdict(input) /\ input' = input /\ direction' = direction
  BY DEF CheckValues
<1>2. Verdict(input) \in {"checked", "rejected", "crashed"}
  BY DEF Verdict
<1>3. TypeOK'
  BY <1>1, <1>2 DEF IndInv, TypeOK
<1>4. Accepted' /\ Partitioned' /\ Built'
  BY <1>1, <1>2 DEF Accepted, Partitioned, Built
<1> QED
  BY <1>3, <1>4 DEF IndInv

LEMMA CreateSubdomainsInd == IndInv /\ CreateSubdomains => IndInv'
<1> SUFFICES ASSUME IndInv, CreateSubdomains PROVE IndInv'
  OBVIOUS
<1>1. /\ phase = "checked" /\ input' = input /\ direction' = direction
      /\ phase' = IF input.gset < 0 \/ input.dset < 0 THEN "crashed" ELSE "partitioned"
  BY DEF CreateSubdomains
<1>2. input.gset \in Int /\ input.dset \in Int
  BY InputAssumption DEF IndInv, TypeOK, InputVariables
<1>3. TypeOK'
  BY <1>1 DEF IndInv, TypeOK
<1>4. Accepted' /\ Built'
  BY <1>1 DEF IndInv, Accepted, Built
<1>5. Partitioned'
  BY <1>1, <1>2 DEF Partitioned
<1> QED
  BY <1>3, <1>4, <1>5 DEF IndInv

LEMMA CreateQuadratureSetInd == IndInv /\ CreateQuadratureSet => IndInv'
<1> SUFFICES ASSUME IndInv, CreateQuadratureSet PROVE IndInv'
  OBVIOUS
<1>1. phase = "partitioned" /\ input' = input /\ input \in Inputs /\ Verdict(input) = "checked"
  BY DEF CreateQuadratureSet, IndInv, TypeOK, Accepted
<1>5. Partitioned'
  BY <1>1 DEF IndInv, Partitioned
<1>2. CASE /\ input.polar <= 0
           /\ phase' = "ready"
           /\ direction' = FakeSet(input)
  <2>1. direction' \in [0 .. input.dirs - 1 -> Flags]
    BY <1>2, FakeSetType
  <2> QED
    BY <1>1, <1>2, <1>5, <2>1 DEF IndInv, TypeOK, Accepted, Built
<1>3. CASE /\ input.polar > 0
           /\ WellFormed(input)
           /\ phase' = "ready"
           /\ \E sgn \in [1 .. 2 -> {-1, 1}] : direction' = SortedByOctant(PolarSet(input, sgn))
  <2>1. PICK sgn \in [1 .. 2 -> {-1, 1}] : direction' = SortedByOctant(PolarSet(input, sgn))
    BY <1>3
  <2>2. DOMAIN PolarSet(input, sgn) = 0 .. input.dirs - 1
    BY DEF PolarSet
  <2>3. direction' \in [0 .. input.dirs - 1 -> Flags]
    BY <2>1, <2>2, SortedType
  <2>4. TypeOK' /\ Accepted'
    BY <1>1, <1>3, <2>3 DEF TypeOK, Accepted
  <2>5. Built'
    BY <1>1, <1>3 DEF Built
  <2> QED
    BY <1>5, <2>4, <2>5 DEF IndInv
<1>4. CASE phase' = "aborted" /\ UNCHANGED direction
  BY <1>1, <1>4, <1>5 DEF IndInv, TypeOK, Accepted, Built
<1> QED
  BY <1>2, <1>3, <1>4 DEF CreateQuadratureSet

(* Every problem that is set up is one of the two quadrature sets of an    *)
(* input that checkValues accepted.                                        *)
THEOREM SetupInvariant == Spec => []IndInv
<1>1. Init => IndInv
  BY InitInd
<1>2. IndInv /\ [Next]_vars => IndInv'
  <2>1. IndInv /\ UNCHANGED vars => IndInv'
    BY DEF IndInv, TypeOK, Accepted, Partitioned, Built, vars
  <2> QED
    BY <2>1, CheckValuesInd, CreateSubdomainsInd, CreateQuadratureSetInd DEF Next, Over
<1> QED
  BY <1>1, <1>2, PTL DEF Spec

-----------------------------------------------------------------------------
(* Direction sets.                                                         *)

(* What checkValues guarantees of counts that are not negative.            *)
LEMMA AcceptedInput ==
  ASSUME input \in Inputs, Verdict(input) = "checked", input.dset >= 0
  PROVE  /\ input.dirs \in Nat \ {0} /\ input.dset \in Nat /\ input.dset >= 8
         /\ SetSize \in Nat \ {0} /\ input.dirs = input.dset * SetSize
         /\ input.polar \in Int /\ input.azim \in Int
         /\ input.polar > 0 => input.dirs = input.polar * input.azim
<1>1. /\ input.dirs \in Int /\ input.dset \in Nat /\ input.polar \in Int /\ input.azim \in Int
      /\ input.polar # 0 => input.dirs = input.polar * input.azim
  BY InputAssumption DEF InputVariables
<1>2. ~ BadDirections(input) /\ ~ BadRest(input) /\ input.dset # 0
  BY DEF Verdict
<1>3. input.dirs >= 8 /\ (input.dset % 8 = 0 \/ input.dset >= 8) /\ input.dirs % input.dset = 0
  BY <1>1, <1>2 DEF BadDirections, BadRest, Divides
<1>4. input.dset >= 8
  BY <1>1, <1>2, <1>3
<1>5. input.dirs = input.dset * SetSize /\ SetSize \in Int
  <2>1. /\ input.dirs \div input.dset \in Int
        /\ input.dirs = input.dset * (input.dirs \div input.dset) + (input.dirs % input.dset)
    BY <1>1, <1>2, DivMod
  <2>2. SetSize = input.dirs \div input.dset
    BY DEF SetSize
  <2> QED
    BY <1>1, <1>3, <2>1, <2>2
<1>6. SetSize > 0
  <2>1. SUFFICES ASSUME SetSize <= 0 PROVE FALSE
    BY <1>5
  <2>2. input.dset * SetSize <= 0
    <3>1. CASE SetSize = 0
      BY <1>1, <3>1
    <3>2. CASE SetSize < 0
      <4>1. input.dset * SetSize + input.dset <= input.dset * 0
        BY <1>1, <1>2, <1>5, <3>2, Apart
      <4> QED
        BY <1>1, <1>4, <1>5, <4>1
    <3> QED
      BY <1>5, <2>1, <3>1, <3>2
  <2> QED
    BY <1>1, <1>3, <1>5, <2>2
<1> QED
  BY <1>1, <1>3, <1>4, <1>5, <1>6

(* The same of the group sets.                                             *)
LEMMA AcceptedGroups ==
  ASSUME input \in Inputs, Verdict(input) = "checked", input.gset >= 0
  PROVE  /\ input.gset >= 1 /\ GroupSetSize >= 1
         /\ GroupSetSize * input.gset = input.groups
<1> DEFINE g == input.gset
           n == input.groups
<1>1. n \in Int /\ g \in Nat
  BY InputAssumption DEF InputVariables
<1>2. g # 0 /\ n >= 1 /\ Divides(g, n)
  BY <1>1 DEF Verdict, BadGroups, BadDirections
<1>3. n % g = 0
  BY <1>1, <1>2 DEF Divides
<1>4. GroupSetSize = n \div g
  BY DEF GroupSetSize
<1> HIDE DEF g, n
<1> DEFINE m == n \div g
<1>5. m \in Int /\ n = g * m
  BY <1>1, <1>2, <1>3, DivMod
<1> HIDE DEF m
<1>6. m >= 1
  <2>1. SUFFICES ASSUME m < 1 PROVE FALSE
    BY <1>5
  <2>2. g * m + g <= g * 1
    BY <1>1, <1>2, <1>5, <2>1, Apart
  <2> QED
    BY <1>1, <1>2, <1>5, <2>2
<1>7. m * g = n
  BY <1>1, <1>5
<1> QED
  BY <1>1, <1>2, <1>4, <1>6, <1>7 DEF m, g, n

(* A problem that is set up has at least one direction set per octant and  *)
(* one group set, and none of them is empty or cut off, for all numbers on *)
(* the command line, the negative ones that checkValues accepts included.  *)
THEOREM SetsSuffice == Spec => []EnoughSets
<1>1. IndInv => EnoughSets
  <2>1. SUFFICES ASSUME IndInv, phase = "ready"
                 PROVE  /\ input.dset >= 8 /\ SetSize >= 1 /\ SetSize * input.dset = input.dirs
                        /\ /\ input.gset >= 1 /\ GroupSetSize >= 1
                           /\ GroupSetSize * input.gset = input.groups
    BY DEF EnoughSets
  <2>2. /\ input \in Inputs /\ Verdict(input) = "checked"
        /\ input.gset >= 0 /\ input.dset >= 0
    BY <2>1 DEF IndInv, TypeOK, Accepted, Partitioned
  <2>3. /\ input.dset \in Nat /\ input.dset >= 8 /\ SetSize \in Nat \ {0}
        /\ input.dirs = input.dset * SetSize
    BY <2>2, AcceptedInput
  <2>4. /\ input.gset >= 1 /\ GroupSetSize >= 1
        /\ GroupSetSize * input.gset = input.groups
    BY <2>2, AcceptedGroups
  <2> QED
    BY <2>3, <2>4
<1> QED
  BY <1>1, SetupInvariant, PTL

(* With 8 * k direction sets, a direction's place in the order of the      *)
(* octants is decided by its set.                                          *)
LEMMA AlignedFacts ==
  ASSUME input \in Inputs, Verdict(input) = "checked", NEW k \in Nat \ {0}, input.dset = 8 * k
  PROVE  /\ PerOctant(input) = k * SetSize
         /\ PerOctant(input) \in Nat \ {0}
         /\ input.dirs = 8 * PerOctant(input)
         /\ \A q \in SetIds : /\ q \div k \in 0 .. 7
                              /\ q * SetSize \in DirectionsOf(q)
                              /\ \A i \in DirectionsOf(q) : /\ i \in 0 .. input.dirs - 1
                                                            /\ i \div PerOctant(input) = q \div k
<1> DEFINE S == SetSize
           P == k * S
<1>1. S \in Nat \ {0} /\ input.dirs = input.dset * S /\ input.dirs \in Nat
  BY AcceptedInput
<1> HIDE DEF S
<1>2. P \in Nat \ {0} /\ input.dirs = 8 * P
  BY <1>1
<1>3. PerOctant(input) = P
  BY <1>2 DEF PerOctant
<1>4. ASSUME NEW q \in SetIds
      PROVE  /\ q \div k \in 0 .. 7
             /\ q * S \in q * S .. q * S + S - 1
             /\ \A i \in q * S .. q * S + S - 1 : i \in 0 .. input.dirs - 1 /\ i \div P = q \div k
  <2> DEFINE a == q \div k
             b == q % k
  <2>1. q \in 0 .. 8 * k - 1 /\ q \in Int
    BY DEF SetIds
  <2>2. a \in 0 .. 7 /\ b \in 0 .. k - 1 /\ q = k * a + b
    <3>1. b \in 0 .. k - 1 /\ q = k * a + b
      BY <2>1, DivMod
    <3>2. a \in 0 .. 8 - 1
      BY <2>1, DivInRange
    <3> QED
      BY <3>1, <3>2
  <2>3. q * S \in Int /\ q * S = S * q
    BY <1>1, <2>1
  <2>4. ASSUME NEW i \in q * S .. q * S + S - 1
        PROVE  i \in 0 .. input.dirs - 1 /\ i \div P = a
    <3> DEFINE j == i - q * S
    <3>1. j \in 0 .. S - 1 /\ i = S * q + j /\ i \in Int
      BY <1>1, <2>3
    <3> HIDE DEF j
    <3> DEFINE r == S * b + j
    <3>2. r \in 0 .. k * S - 1
      BY <1>1, <2>2, <3>1, DivInRange
    <3>3. i = P * a + r
      <4>1. S * q = S * (k * a) + S * b
        BY <1>1, <2>2
      <4>2. S * (k * a) = P * a
        BY <1>1, <2>2
      <4>3. P * a \in Int /\ S * b \in Int /\ j \in Int
        <5>1. \A x, y \in Int : x * y \in Int
          OBVIOUS
        <5>2. P \in Int /\ a \in Int /\ S \in Int /\ b \in Int /\ j \in Int
          <6> HIDE DEF P
          <6> QED
            BY <1>1, <1>2, <2>2, <3>1
        <5> HIDE DEF P, a, b
        <5> QED
          BY <5>1, <5>2
      <4> DEFINE x == P * a
                 y == S * b
      <4>4. i = (x + y) + j
        BY <3>1, <4>1, <4>2
      <4> HIDE DEF x, y
      <4>5. i = x + (y + j)
        BY <4>3, <4>4 DEF x, y
      <4> QED
        BY <4>5 DEF x, y
    <3> HIDE DEF r, a, P
    <3>4. r \in 0 .. P - 1
      BY <3>2 DEF P
    <3>7. a \in Int
      BY <2>2
    <3>5. i \div P = a
      BY <1>2, <3>7, <3>1, <3>3, <3>4, DivModUnique
    <3>6. i \in 0 .. 8 * P - 1
      BY <1>2, <2>2, <3>3, <3>4, DivInRange
    <3> QED
      BY <1>2, <3>5, <3>6
  <2>5. q * S \in q * S .. q * S + S - 1
    <3> DEFINE x == q * S
    <3>1. x \in Int
      BY <2>3
    <3> HIDE DEF x
    <3>2. x \in x .. x + S - 1
      BY <1>1, <3>1
    <3> QED
      BY <3>2 DEF x
  <2> QED
    BY <2>2, <2>4, <2>5
<1> QED
  BY <1>2, <1>3, <1>4 DEF DirectionsOf, S

(* The fake set is in the order of the octants.                            *)
LEMMA FakeOctants ==
  ASSUME NEW v, PerOctant(v) \in Nat \ {0}, v.dirs = 8 * PerOctant(v), NEW i \in 0 .. v.dirs - 1
  PROVE  FakeSet(v)[i] = OctantFlags(i \div PerOctant(v))
<1>1. i < 8 * PerOctant(v)
  OBVIOUS
<1> QED
  BY <1>1 DEF FakeSet

-----------------------------------------------------------------------------
(* The Gauss-Legendre set, with 4 * g polar and 4 * m azimuthal angles: an *)
(* octant is half of the polar angles and a quarter of the azimuthal ones. *)

Quarter(j, m) == IF j < m THEN 0 ELSE IF j < 2 * m THEN 1 ELSE IF j < 3 * m THEN 3 ELSE 2

LEMMA PolarOctant ==
  ASSUME NEW v, NEW sgn, NEW g \in Nat \ {0}, NEW m \in Nat \ {0},
         v.polar = 4 * g, v.azim = 4 * m, NEW i \in 0 .. v.dirs - 1,
         i \div v.azim \in Int, i % v.azim \in 0 .. 4 * m - 1
  PROVE  Octant(PolarSet(v, sgn)[i]) =
           (IF i \div v.azim < 2 * g THEN 4 ELSE 0) + Quarter(i % v.azim, m)
<1> DEFINE p == i \div v.azim
           j == i % v.azim
           f == PolarSet(v, sgn)[i]
<1>1. p \in Int /\ j \in Int /\ 0 <= j /\ j < 4 * m
  OBVIOUS
<1>2. PolarSet(v, sgn)[i] =
        [a \in Axis |->
           CASE a = 0 /\ 4 * j + 2 = v.azim -> sgn[1]
             [] a = 0 /\ 4 * j + 2 = 3 * v.azim -> sgn[2]
             [] a = 0 /\ 4 * j + 2 # v.azim /\ 4 * j + 2 # 3 * v.azim ->
                  Sign(4 * j + 2 < v.azim \/ 4 * j + 2 > 3 * v.azim)
             [] a = 1 -> Sign(2 * j + 1 < v.azim)
             [] a = 2 -> Sign(2 * p >= v.polar)]
  BY DEF PolarSet
<1> HIDE DEF p, j
<1>3. 4 * j + 2 # v.azim /\ 4 * j + 2 # 3 * v.azim
  BY <1>1
<1>8. f[0] = Sign(4 * j + 2 < v.azim \/ 4 * j + 2 > 3 * v.azim)
  BY <1>2, <1>3 DEF Axis
<1>9. f[1] = Sign(2 * j + 1 < v.azim)
  BY <1>2 DEF Axis
<1>10. f[2] = Sign(2 * p >= v.polar)
  BY <1>2 DEF Axis
<1> HIDE DEF f
<1>4. f[0] = -1 <=> m <= j /\ j < 3 * m
  BY <1>1, <1>8 DEF Sign
<1>5. f[1] = -1 <=> 2 * m <= j
  BY <1>1, <1>9 DEF Sign
<1>6. f[2] = -1 <=> p < 2 * g
  BY <1>1, <1>10 DEF Sign
<1>7. Octant(f) = (IF p < 2 * g THEN 4 ELSE 0) + Quarter(j, m)
  BY <1>1, <1>4, <1>5, <1>6 DEF Octant, Quarter
<1> QED
  BY <1>7 DEF p, j, f

InOctant(dir, o) == {i \in DOMAIN dir : Octant(dir[i]) = o}

LEMMA OctantCount ==
  ASSUME NEW v, NEW sgn, NEW g \in Nat \ {0}, NEW m \in Nat \ {0},
         v.polar = 4 * g, v.azim = 4 * m, v.dirs = (4 * g) * (4 * m),
         NEW z \in 0 .. 1, NEW y \in 0 .. 3
  PROVE  /\ IsFiniteSet(InOctant(PolarSet(v, sgn), 4 * z + y))
         /\ Cardinality(InOctant(PolarSet(v, sgn), 4 * z + y)) = 2 * g * m
<1> DEFINE A == 4 * m
           R == 4 * g
           a == IF z = 1 THEN 0 ELSE 2 * g
           b == IF y = 0 THEN 0 ELSE IF y = 1 THEN m ELSE IF y = 2 THEN 3 * m ELSE 2 * m
           O == {i \in 0 .. v.dirs - 1 : Octant(PolarSet(v, sgn)[i]) = 4 * z + y}
           Q == {i \in 0 .. R * A - 1 : i \div A \in a .. a + 2 * g - 1 /\ i % A \in b .. b + m - 1}
<1>1. /\ A \in Nat \ {0} /\ R \in Nat \ {0} /\ 2 * g \in Nat \ {0}
      /\ a \in Nat /\ b \in Nat /\ b + m <= A /\ a + 2 * g <= R
  OBVIOUS
<1>2. ASSUME NEW i \in 0 .. R * A - 1
      PROVE  Octant(PolarSet(v, sgn)[i]) = 4 * z + y
               <=> i \div A \in a .. a + 2 * g - 1 /\ i % A \in b .. b + m - 1
  <2>1. i \div A \in 0 .. R - 1 /\ i % A \in 0 .. A - 1
    <3>1. R * A \in Int
      BY <1>1
    <3>2. i \in Int
      BY <3>1
    <3> HIDE DEF A, R
    <3> QED
      BY <1>1, <3>2, DivMod, DivInRange
  <2>2. Octant(PolarSet(v, sgn)[i]) = (IF i \div A < 2 * g THEN 4 ELSE 0) + Quarter(i % A, m)
    <3>1. i \div A \in Int
      BY <1>1, <2>1
    <3> QED
      BY <2>1, <3>1, PolarOctant
  <2> DEFINE p == i \div A
             j == i % A
  <2>3. p \in 0 .. R - 1 /\ j \in 0 .. A - 1
    BY <2>1
  <2> HIDE DEF p, j
  <2>4. (IF p < 2 * g THEN 4 ELSE 0) + Quarter(j, m) = 4 * z + y
          <=> p \in a .. a + 2 * g - 1 /\ j \in b .. b + m - 1
    BY <2>3 DEF Quarter
  <2> QED
    BY <2>2, <2>4 DEF p, j
<1>3. O = Q
  BY <1>2
<1>5. InOctant(PolarSet(v, sgn), 4 * z + y) = O
  <2>1. DOMAIN PolarSet(v, sgn) = 0 .. v.dirs - 1
    BY DEF PolarSet
  <2> QED
    BY <2>1 DEF InOctant
<1> HIDE DEF A, R, a, b, O, Q
<1>4. IsFiniteSet(Q) /\ Cardinality(Q) = (2 * g) * m
  <2>1. Q = {i \in 0 .. R * A - 1 : i \div A \in a .. a + 2 * g - 1 /\ i % A \in b .. b + m - 1}
    BY DEF Q
  <2> DEFINE h == 2 * g
  <2>2. h \in Nat \ {0} /\ a + h <= R 
    BY <1>1
  <2>4. IsRectangle(Q, R, A, a, h, b, m)
    BY <2>1 DEF IsRectangle
  <2> HIDE DEF h
  <2>3. IsFiniteSet(Q) /\ Cardinality(Q) = h * m
    BY <1>1, <2>2, <2>4, Rectangle
  <2> QED
    BY <2>3 DEF h
<1> QED
  BY <1>3, <1>4, <1>5

(* How many directions have a larger octant than o, if every octant has P. *)
LEMMA AboveCount ==
  ASSUME NEW dir, NEW P \in Nat,
         \A z \in 0 .. 1, y \in 0 .. 3 :
           IsFiniteSet(InOctant(dir, 4 * z + y)) /\ Cardinality(InOctant(dir, 4 * z + y)) = P
  PROVE  \A o \in 0 .. 7 : Cardinality({i \in DOMAIN dir : Octant(dir[i]) > o}) = (7 - o) * P
<1> DEFINE Exactly(o) == InOctant(dir, o)
           Above(o) == {i \in DOMAIN dir : Octant(dir[i]) > o}
<1>1. \A i : Octant(dir[i]) \in 0 .. 7
  BY DEF Octant
<1>2. ASSUME NEW o \in 0 .. 7
      PROVE  IsFiniteSet(Exactly(o)) /\ Cardinality(Exactly(o)) = P
  <2>1. PICK z \in 0 .. 1, y \in 0 .. 3 : o = 4 * z + y
    <3>1. CASE o < 4
      <4>1. 0 \in 0 .. 1 /\ o \in 0 .. 3 /\ o = 4 * 0 + o
        BY <3>1
      <4> QED
        BY <4>1
    <3>2. CASE o >= 4
      <4>1. 1 \in 0 .. 1 /\ o - 4 \in 0 .. 3 /\ o = 4 * 1 + (o - 4)
        BY <3>2
      <4> QED
        BY <4>1
    <3> QED
      BY <3>1, <3>2
  <2> QED
    BY <2>1
<1>3. Above(7) = {}
  BY <1>1
<1>4. ASSUME NEW o \in 1 .. 7, NEW c \in Nat, IsFiniteSet(Above(o)), Cardinality(Above(o)) = c * P
      PROVE  IsFiniteSet(Above(o - 1)) /\ Cardinality(Above(o - 1)) = (c + 1) * P
  <2>1. Above(o - 1) = Above(o) \cup Exactly(o) /\ Above(o) \cap Exactly(o) = {}
    BY <1>1 DEF InOctant
  <2>2. IsFiniteSet(Exactly(o)) /\ Cardinality(Exactly(o)) = P
    BY <1>2
  <2> HIDE DEF Above, Exactly
  <2>3. IsFiniteSet(Above(o) \cup Exactly(o))
        /\ Cardinality(Above(o) \cup Exactly(o)) = c * P + P - Cardinality({})
    BY <1>4, <2>1, <2>2, FS_Union
  <2>4. Cardinality({}) = 0 /\ c * P + P - 0 = (c + 1) * P
    BY FS_EmptySet
  <2> QED
    BY <2>1, <2>3, <2>4
<1> DEFINE Counted(o, c) == IsFiniteSet(Above(o)) /\ Cardinality(Above(o)) = c * P
<1>5. Counted(7, 0)
  BY <1>3, FS_EmptySet
<1> HIDE DEF Above
<1>6. ASSUME NEW o \in 1 .. 7, NEW c \in Nat, Counted(o, c)
      PROVE  Counted(o - 1, c + 1)
  BY <1>4, <1>6
<1> HIDE DEF Counted
<1>7. Counted(6, 1)
  BY <1>5, <1>6
<1>8. Counted(5, 2)
  BY <1>6, <1>7
<1>9. Counted(4, 3)
  BY <1>6, <1>8
<1>10. Counted(3, 4)
  BY <1>6, <1>9
<1>11. Counted(2, 5)
  BY <1>6, <1>10
<1>12. Counted(1, 6)
  BY <1>6, <1>11
<1>13. Counted(0, 7)
  BY <1>6, <1>12
<1>14. \A o \in 0 .. 7 : Counted(o, 7 - o)
  <2>1. ASSUME NEW o \in 0 .. 7
        PROVE  Counted(o, 7 - o)
    <3>1. o = 0 \/ o = 1 \/ o = 2 \/ o = 3 \/ o = 4 \/ o = 5 \/ o = 6 \/ o = 7
      OBVIOUS
    <3>2. 7 - 0 = 7 /\ 7 - 1 = 6 /\ 7 - 2 = 5 /\ 7 - 3 = 4 /\ 7 - 4 = 3 /\ 7 - 5 = 2
          /\ 7 - 6 = 1 /\ 7 - 7 = 0
      OBVIOUS
    <3> QED
      BY <1>5, <1>7, <1>8, <1>9, <1>10, <1>11, <1>12, <1>13, <3>1, <3>2
  <2> QED
    BY <2>1
<1> QED
  BY <1>14 DEF Counted, Above

(* The bits of 7 - x are those x does not have.                            *)
LEMMA Complement ==
  ASSUME NEW x \in 0 .. 7
  PROVE  [a \in Axis |-> Sign(Bit(7 - x, a) = 0)] = OctantFlags(x)
<1>1. ASSUME NEW a \in Axis
      PROVE  Bit(7 - x, a) = 0 <=> Bit(x, a) = 1
  <2>1. a = 0 \/ a = 1 \/ a = 2
    BY DEF Axis
  <2>2. x = 0 \/ x = 1 \/ x = 2 \/ x = 3 \/ x = 4 \/ x = 5 \/ x = 6 \/ x = 7
    OBVIOUS
  <2>3. CASE a = 0
    BY <2>3 DEF Bit
  <2>4. CASE a = 1
    BY <2>2, <2>4 DEF Bit
  <2>5. CASE a = 2
    BY <2>2, <2>5 DEF Bit
  <2> QED
    BY <2>1, <2>3, <2>4, <2>5
<1> QED
  BY <1>1 DEF OctantFlags, Sign

(* Sorting by descending octant undoes the reversal of the bits: the       *)
(* directions are in the order of the fake set.                            *)
LEMMA SortedOctants ==
  ASSUME NEW dir, NEW P \in Nat \ {0}, DOMAIN dir = 0 .. 8 * P - 1, NEW i \in 0 .. 8 * P - 1,
         \A o \in 0 .. 7 : Cardinality({j \in DOMAIN dir : Octant(dir[j]) > o}) = (7 - o) * P
  PROVE  SortedByOctant(dir)[i] = OctantFlags(i \div P)
<1> DEFINE Above(o) == Cardinality({j \in DOMAIN dir : Octant(dir[j]) > o})
           Right(o) == Above(o) <= i /\ (o = 0 \/ i < Above(o - 1))
           At == CHOOSE o \in 0 .. 7 : Right(o)
           x == i \div P
<1>1. \A o \in 0 .. 7 : Above(o) = (7 - o) * P
  OBVIOUS
<1>2. SortedByOctant(dir)[i] = [a \in Axis |-> Sign(Bit(At, a) = 0)]
  BY DEF SortedByOctant
<1>3. i \in Int /\ x \in 0 .. 7 /\ i = P * x + (i % P) /\ i % P \in 0 .. P - 1
  <2>1. i \in Int
    OBVIOUS
  <2> HIDE DEF Above, Right, At
  <2>2. x \in 0 .. 8 - 1
    <3> DEFINE m == 8
    <3>1. m \in Nat \ {0} /\ i \in 0 .. m * P - 1
      OBVIOUS
    <3> HIDE DEF m
    <3>2. x \in 0 .. m - 1
      BY <3>1, DivInRange
    <3> QED
      BY <3>2 DEF m
  <2>3. i = P * x + (i % P) /\ i % P \in 0 .. P - 1
    BY <2>1, DivMod
  <2> QED
    BY <2>1, <2>2, <2>3
<1> HIDE DEF Above, x
<1>4. \A o \in 1 .. 7 : Above(o - 1) = (8 - o) * P
  <2>1. ASSUME NEW o \in 1 .. 7
        PROVE  Above(o - 1) = (8 - o) * P
    <3>1. o - 1 \in 0 .. 7 /\ 7 - (o - 1) = 8 - o
      OBVIOUS
    <3> QED
      BY <1>1, <3>1
  <2> QED
    BY <2>1
<1>5. Right(7 - x)
  <2>1. 7 - x \in 0 .. 7 /\ 7 - (7 - x) = x /\ 8 - (7 - x) = x + 1
    BY <1>3
  <2>2. Above(7 - x) = x * P /\ (7 - x = 0 \/ Above(7 - x - 1) = (x + 1) * P)
    BY <1>1, <1>4, <2>1
  <2>3. x * P = P * x /\ (x + 1) * P = P * x + P
    BY <1>3
  <2> QED
    BY <1>3, <2>2, <2>3
<1>6. At \in 0 .. 7 /\ Right(At)
  <2>1. 7 - x \in 0 .. 7
    BY <1>3
  <2> HIDE DEF Right
  <2> QED
    BY <1>5, <2>1
<1> HIDE DEF At
<1>7. x = 7 - At
  <2> DEFINE q == 7 - At
             r == i - P * q
  <2>1. q \in 0 .. 7 /\ P * q \in Int /\ q * P = P * q /\ (8 - At) * P = P * q + P
    <3>1. 8 - At = q + 1 /\ q \in 0 .. 7
      BY <1>6
    <3> HIDE DEF q
    <3> QED
      BY <3>1
  <2>2. P * q <= i /\ i < P * q + P
    <3>1. P * q <= i
      BY <1>1, <1>6, <2>1
    <3>2. CASE At = 0
      <4>1. q = 7
        BY <3>2
      <4> HIDE DEF q
      <4> QED
        BY <3>1, <4>1
    <3>3. CASE At # 0
      <4>1. At \in 1 .. 7
        BY <1>6, <3>3
      <4> QED
        BY <1>4, <1>6, <2>1, <3>1, <3>3, <4>1
    <3> QED
      BY <3>2, <3>3
  <2>3. r \in 0 .. P - 1 /\ i = P * q + r /\ q \in Int
    <3> DEFINE y == P * q
    <3>1. y \in Int /\ y <= i /\ i < y + P /\ r = i - y /\ q \in Int
      BY <2>1, <2>2
    <3> HIDE DEF y, r, q
    <3>2. r \in 0 .. P - 1 /\ i = y + r
      BY <1>3, <3>1
    <3> QED
      BY <3>1, <3>2 DEF y
  <2> HIDE DEF q, r
  <2>4. i \div P = q
    BY <1>3, <2>3, DivModUnique
  <2> QED
    BY <2>4 DEF q, x
<1>8. At = 7 - x
  BY <1>3, <1>6, <1>7
<1> QED
  BY <1>2, <1>3, <1>8, Complement DEF x

(* With 8 * k direction sets and 4 * m azimuthal angles the directions of  *)
(* either quadrature set are in the order of the octants.                  *)
LEMMA DirectionOctants ==
  ASSUME IndInv, phase = "ready", Aligned, NEW i \in 0 .. input.dirs - 1,
         NEW k \in Nat \ {0}, input.dset = 8 * k
  PROVE  direction[i] = OctantFlags(i \div PerOctant(input))
<1>1. input \in Inputs /\ Verdict(input) = "checked"
  BY DEF IndInv, TypeOK, Accepted
<1>2. PerOctant(input) \in Nat \ {0} /\ input.dirs = 8 * PerOctant(input)
  BY <1>1, AlignedFacts
<1>3. CASE input.polar <= 0 /\ direction = FakeSet(input)
  BY <1>2, <1>3, FakeOctants
<1>4. CASE /\ input.polar > 0
           /\ WellFormed(input)
           /\ \E sgn \in [1 .. 2 -> {-1, 1}] : direction = SortedByOctant(PolarSet(input, sgn))
  <2>1. PICK sgn \in [1 .. 2 -> {-1, 1}] : direction = SortedByOctant(PolarSet(input, sgn))
    BY <1>4
  <2>2. /\ input.polar \in Int /\ input.azim \in Int /\ input.dirs = input.polar * input.azim
        /\ input.polar % 4 = 0 /\ input.azim % 4 = 0 /\ input.dirs > 0
    BY <1>1, <1>2, <1>4, AcceptedInput DEF WellFormed, Aligned
  <2>3. PICK g \in Nat \ {0} : input.polar = 4 * g
    <3>1. (input.polar \div 4) \in Nat \ {0} /\ input.polar = 4 * (input.polar \div 4)
      BY <1>4, <2>2
    <3> QED
      BY <3>1
  <2>4. PICK m \in Nat \ {0} : input.azim = 4 * m
    <3>1. input.azim > 0
      <4>1. SUFFICES ASSUME input.azim <= 0 PROVE FALSE
        BY <2>2
      <4>2. input.polar * input.azim <= 0
        <5>1. CASE input.azim = 0
          BY <2>2, <5>1
        <5>2. CASE input.azim < 0
          <6>1. input.polar * input.azim + input.polar <= input.polar * 0
            BY <1>4, <2>2, <5>2, Apart
          <6> QED
            BY <1>4, <2>2, <6>1
        <5> QED
          BY <2>2, <4>1, <5>1, <5>2
      <4> QED
        BY <2>2, <4>2
    <3>2. (input.azim \div 4) \in Nat \ {0} /\ input.azim = 4 * (input.azim \div 4)
      BY <2>2, <3>1
    <3> QED
      BY <3>2
  <2> DEFINE dir == PolarSet(input, sgn)
             P == PerOctant(input)
  <2>5. P = 2 * g * m
    <3>1. input.dirs = (4 * g) * (4 * m)
      BY <2>2, <2>3, <2>4
    <3>2. (4 * g) * (4 * m) = 8 * (2 * g * m)
      OBVIOUS
    <3> HIDE DEF P
    <3>3. 2 * g * m \in Int
      OBVIOUS
    <3> DEFINE y == 2 * g * m
    <3>4. input.dirs = 8 * y /\ y \in Int
      BY <3>1, <3>2, <3>3
    <3> HIDE DEF y
    <3> QED
      BY <1>2, <3>4 DEF y, P
  <2>6. DOMAIN dir = 0 .. input.dirs - 1
    BY DEF PolarSet
  <2>7. ASSUME NEW z \in 0 .. 1, NEW y \in 0 .. 3
        PROVE  /\ IsFiniteSet(InOctant(dir, 4 * z + y))
               /\ Cardinality(InOctant(dir, 4 * z + y)) = P
    <3>1. input.dirs = (4 * g) * (4 * m)
      BY <2>2, <2>3, <2>4
    <3> QED
      BY <2>3, <2>4, <2>5, <3>1, OctantCount
  <2> HIDE DEF dir
  <2>8. \A o \in 0 .. 7 : Cardinality({j \in DOMAIN dir : Octant(dir[j]) > o}) = (7 - o) * P
    BY <1>2, <2>7, AboveCount
  <2> QED
    BY <1>2, <2>1, <2>6, <2>8, SortedOctants DEF dir
<1> QED
  BY <1>3, <1>4 DEF IndInv, Built

-----------------------------------------------------------------------------
(* The properties.                                                         *)

(* What the properties need of a state in which a problem is set up with   *)
(* a multiple of 8 direction sets.                                         *)
LEMMA AlignedSets ==
  ASSUME IndInv, phase = "ready", Aligned
  PROVE  \E k \in Nat \ {0} :
           /\ input.dset = 8 * k
           /\ \A q \in SetIds : /\ q \div k \in 0 .. 7
                                /\ q * SetSize \in DirectionsOf(q)
                                /\ \A i \in DirectionsOf(q) : direction[i] = OctantFlags(q \div k)
<1>1. input \in Inputs /\ Verdict(input) = "checked" /\ input.dset >= 0
  BY DEF IndInv, TypeOK, Accepted, Partitioned
<1>2. input.dset \in Nat /\ input.dset >= 8 /\ input.dset % 8 = 0
  BY <1>1, AcceptedInput DEF Aligned
<1>3. PICK k \in Nat \ {0} : input.dset = 8 * k
  <2>1. (input.dset \div 8) \in Nat \ {0} /\ input.dset = 8 * (input.dset \div 8)
    BY <1>2
  <2> QED
    BY <2>1
<1>4. ASSUME NEW q \in SetIds
      PROVE  /\ q \div k \in 0 .. 7
             /\ q * SetSize \in DirectionsOf(q)
             /\ \A i \in DirectionsOf(q) : i \in 0 .. input.dirs - 1 /\ i \div PerOctant(input) = q \div k
  BY <1>1, <1>3, AlignedFacts
<1>5. \A i \in 0 .. input.dirs - 1 : direction[i] = OctantFlags(i \div PerOctant(input))
  BY <1>3, DirectionOctants
<1> QED
  BY <1>3, <1>4, <1>5

(* With a multiple of 8 direction sets and, for a Gauss-Legendre set, a    *)
(* multiple of 4 azimuthal angles, the directions of a set have the flags  *)
(* of its first, for every number of directions and of sets.               *)
THEOREM SetsHaveOneOctant == Spec => []OneOctantIfAligned
<1>1. IndInv => OneOctantIfAligned
  <2>1. SUFFICES ASSUME IndInv, phase = "ready", Aligned, NEW q \in SetIds, NEW i \in DirectionsOf(q)
                 PROVE  direction[i] = direction[q * SetSize]
    BY DEF OneOctantIfAligned
  <2> QED
    BY <2>1, AlignedSets
<1> QED
  BY <1>1, SetupInvariant, PTL

(* The flags tell the octants apart, and there are no others.              *)
LEMMA OctantOfFlags ==
  /\ \A x, y \in 0 .. 7 : OctantFlags(x) = OctantFlags(y) => x = y
  /\ \A f \in [Axis -> {-1, 1}] : \E x \in 0 .. 7 : OctantFlags(x) = f
<1>1. ASSUME NEW x \in 0 .. 7
      PROVE  /\ x = Bit(x, 0) + 2 * Bit(x, 1) + 4 * Bit(x, 2)
             /\ Bit(x, 0) \in 0 .. 1 /\ Bit(x, 1) \in 0 .. 1 /\ Bit(x, 2) \in 0 .. 1
  <2>1. x = 0 \/ x = 1 \/ x = 2 \/ x = 3 \/ x = 4 \/ x = 5 \/ x = 6 \/ x = 7
    OBVIOUS
  <2> QED
    BY <2>1 DEF Bit
<1>2. \A x : \A a \in Axis : OctantFlags(x)[a] = 1 <=> Bit(x, a) = 1
  BY DEF OctantFlags, Sign
<1>3. ASSUME NEW x \in 0 .. 7, NEW y \in 0 .. 7, OctantFlags(x) = OctantFlags(y)
      PROVE  x = y
  <2>1. \A a \in Axis : Bit(x, a) = 1 <=> Bit(y, a) = 1
    BY <1>2, <1>3
  <2>2. /\ Bit(x, 0) = 1 <=> Bit(y, 0) = 1
        /\ Bit(x, 1) = 1 <=> Bit(y, 1) = 1
        /\ Bit(x, 2) = 1 <=> Bit(y, 2) = 1
    BY <2>1 DEF Axis
  <2>3. Bit(x, 0) = Bit(y, 0) /\ Bit(x, 1) = Bit(y, 1) /\ Bit(x, 2) = Bit(y, 2)
    BY <1>1, <2>2
  <2> QED
    BY <1>1, <2>3
<1>4. ASSUME NEW f \in [Axis -> {-1, 1}]
      PROVE  \E x \in 0 .. 7 : OctantFlags(x) = f
  <2> DEFINE b(a) == IF f[a] = 1 THEN 1 ELSE 0
             x == b(0) + 2 * b(1) + 4 * b(2)
  <2>1. x \in 0 .. 7
    OBVIOUS
  <2>2. Bit(x, 0) = b(0) /\ Bit(x, 1) = b(1) /\ Bit(x, 2) = b(2)
    BY DEF Bit
  <2>3. ASSUME NEW a \in Axis
        PROVE  OctantFlags(x)[a] = f[a]
    <3>1. Bit(x, a) = b(a)
      BY <2>2 DEF Axis
    <3>2. f[a] \in {-1, 1}
      OBVIOUS
    <3> QED
      BY <3>1, <3>2 DEF OctantFlags, Sign
  <2>4. OctantFlags(x) = [a \in Axis |-> OctantFlags(x)[a]]
    BY DEF OctantFlags
  <2> HIDE DEF x
  <2>5. OctantFlags(x) = f
    BY <2>3, <2>4
  <2> QED
    BY <2>1, <2>5
<1> QED
  BY <1>3, <1>4

(* Every octant gets an eighth of the direction sets.                      *)
THEOREM OctantsGetEqualShares == Spec => []OctantsBalanced
<1>1. IndInv => OctantsBalanced
  <2>1. SUFFICES ASSUME IndInv, phase = "ready", Aligned, NEW f \in [Axis -> {-1, 1}]
                 PROVE  8 * Cardinality({q \in SetIds : direction[q * SetSize] = f}) = input.dset
    BY DEF OctantsBalanced
  <2>2. PICK k \in Nat \ {0} :
          /\ input.dset = 8 * k
          /\ \A q \in SetIds : /\ q \div k \in 0 .. 7
                               /\ direction[q * SetSize] = OctantFlags(q \div k)
    BY <2>1, AlignedSets
  <2>3. PICK x \in 0 .. 7 : OctantFlags(x) = f
    BY OctantOfFlags
  <2>4. {q \in SetIds : direction[q * SetSize] = f} = {q \in SetIds : q \div k = x}
    BY <2>2, <2>3, OctantOfFlags
  <2>5. {q \in SetIds : q \div k = x} = k * x .. k * x + k - 1
    <3>1. SetIds = 0 .. 8 * k - 1
      BY <2>2 DEF SetIds
    <3>2. ASSUME NEW q \in 0 .. 8 * k - 1, q \div k = x
          PROVE  q \in k * x .. k * x + k - 1
      <4>1. q \in Int
        OBVIOUS
      <4>2. q = k * x + (q % k) /\ q % k \in 0 .. k - 1
        BY <3>2, <4>1, DivMod
      <4> QED
        BY <4>1, <4>2
    <3>3. ASSUME NEW q \in k * x .. k * x + k - 1
          PROVE  q \in 0 .. 8 * k - 1 /\ q \div k = x
      <4> DEFINE r == q - k * x
      <4>1. q \in Int /\ r \in 0 .. k - 1 /\ q = k * x + r
        OBVIOUS
      <4> HIDE DEF r
      <4> DEFINE m == 8
      <4>2. m \in Nat \ {0} /\ x \in 0 .. m - 1 /\ x \in Int
        OBVIOUS
      <4> HIDE DEF m
      <4>3. q \in 0 .. m * k - 1
        BY <4>1, <4>2, DivInRange
      <4>4. q \div k = x
        BY <4>1, <4>2, DivModUnique
      <4> QED
        BY <4>3, <4>4 DEF m
    <3> QED
      BY <3>1, <3>2, <3>3
  <2>6. Cardinality(k * x .. k * x + k - 1) = k
    <3> DEFINE a == k * x
    <3>1. a \in Int
      OBVIOUS
    <3> HIDE DEF a
    <3>2. Cardinality(a .. a + k - 1) = IF a > a + k - 1 THEN 0 ELSE (a + k - 1) - a + 1
      BY <3>1, FS_Interval
    <3>3. Cardinality(a .. a + k - 1) = k
      BY <3>1, <3>2
    <3> QED
      BY <3>3 DEF a
  <2> QED
    BY <2>2, <2>4, <2>5, <2>6
<1> QED
  BY <1>1, SetupInvariant, PTL

-----------------------------------------------------------------------------
(* Row-major ids in a box.                                                 *)

Extents == [Dim -> Nat \ {0}]

Box(n) == {x \in [Dim -> Int] : \A d \in Dim : 0 <= x[d] /\ x[d] < n[d]}

LEMMA VolumeFacts ==
  ASSUME NEW n \in Extents
  PROVE  /\ n[0] \in Nat \ {0} /\ n[1] \in Nat \ {0} /\ n[2] \in Nat \ {0}
         /\ n[1] * n[2] \in Nat \ {0}
         /\ Volume(n) \in Nat \ {0}
         /\ Volume(n) = n[0] * (n[1] * n[2])
<1>1. n[0] \in Nat \ {0} /\ n[1] \in Nat \ {0} /\ n[2] \in Nat \ {0}
  BY DEF Extents, Dim
<1>2. ASSUME NEW a \in Nat \ {0}, NEW b \in Nat \ {0}
      PROVE  a * b \in Nat \ {0}
  OBVIOUS
<1>3. n[1] * n[2] \in Nat \ {0}
  BY <1>1, <1>2
<1>4. n[0] * (n[1] * n[2]) \in Nat \ {0}
  BY <1>1, <1>2, <1>3
<1>5. n[0] * n[1] * n[2] = n[0] * (n[1] * n[2])
  BY <1>1
<1> QED
  BY <1>1, <1>3, <1>4, <1>5 DEF Volume

(* A point of the box has an id below the volume, from which Point gets    *)
(* its coordinates back.                                                   *)
LEMMA PointOfLinear ==
  ASSUME NEW n \in Extents, NEW x \in Box(n)
  PROVE  /\ Linear(n, x) \in 0 .. Volume(n) - 1
         /\ Point(n, Linear(n, x)) = x
<1> DEFINE row == n[1] * n[2]
           rest == n[2] * x[1] + x[2]
           id == row * x[0] + rest
<1>1. /\ n[0] \in Nat \ {0} /\ n[1] \in Nat \ {0} /\ n[2] \in Nat \ {0}
      /\ row \in Nat \ {0} /\ Volume(n) = n[0] * row
  BY VolumeFacts
<1>2. /\ x \in [Dim -> Int]
      /\ x[0] \in 0 .. n[0] - 1 /\ x[1] \in 0 .. n[1] - 1 /\ x[2] \in 0 .. n[2] - 1
  BY <1>1 DEF Box, Dim
<1>3. rest \in 0 .. row - 1
  BY <1>1, <1>2, DivInRange
<1>4. Linear(n, x) = id
  <2>1. (x[0] * n[1] + x[1]) * n[2] = x[0] * n[1] * n[2] + x[1] * n[2]
    BY <1>1, <1>2
  <2>2. x[0] * n[1] * n[2] = row * x[0]
    BY <1>1, <1>2
  <2>3. x[1] * n[2] = n[2] * x[1]
    BY <1>1, <1>2
  <2> QED
    BY <1>1, <1>2, <2>1, <2>2, <2>3 DEF Linear
<1> HIDE DEF row
<1>5. id \in 0 .. n[0] * row - 1
  BY <1>1, <1>2, <1>3, DivInRange
<1>6. id \div row = x[0]
  <2> HIDE DEF rest
  <2> QED
    BY <1>1, <1>2, <1>3, <1>5, DivModUnique
<1>7. x[0] % n[0] = x[0] /\ x[1] % n[1] = x[1]
  BY <1>1, <1>2
<1>8. id = n[2] * (n[1] * x[0] + x[1]) + x[2]
  <2>1. n[2] * (n[1] * x[0] + x[1]) = n[2] * (n[1] * x[0]) + n[2] * x[1]
    BY <1>1, <1>2
  <2>2. n[2] * (n[1] * x[0]) = row * x[0]
    BY <1>1, <1>2 DEF row
  <2> QED
    BY <1>1, <1>2, <2>1, <2>2
<1>9. id \div n[2] = n[1] * x[0] + x[1] /\ id % n[2] = x[2]
  <2>1. n[1] * x[0] + x[1] \in Int /\ id \in Int
    BY <1>1, <1>2
  <2> HIDE DEF id
  <2> QED
    BY <1>1, <1>2, <1>8, <2>1, DivModUnique
<1>10. (n[1] * x[0] + x[1]) % n[1] = x[1]
  <2> DEFINE a == n[1] * x[0] + x[1]
  <2>1. a \in Int /\ a = n[1] * x[0] + x[1] /\ x[0] \in Int
    BY <1>1, <1>2
  <2> HIDE DEF a, id, rest
  <2>2. a % n[1] = x[1]
    BY <1>1, <1>2, <2>1, DivModUnique
  <2> QED
    BY <2>2 DEF a
<1>11. Point(n, id) = x
  <2>1. (id \div row) % n[0] = x[0] /\ (id \div n[2]) % n[1] = x[1] /\ id % n[2] = x[2]
    BY <1>6, <1>7, <1>9, <1>10
  <2> HIDE DEF id
  <2> QED
    BY <1>2, <2>1 DEF Point, Dim, row
<1> QED
  BY <1>1, <1>4, <1>5, <1>11

(* An id below the volume is the id of the point Point makes of it.        *)
LEMMA LinearOfPoint ==
  ASSUME NEW n \in Extents, NEW i \in 0 .. Volume(n) - 1
  PROVE  /\ Point(n, i) \in Box(n)
         /\ Linear(n, Point(n, i)) = i
<1> DEFINE row == n[1] * n[2]
           q == i \div row
           r == i % row
           x == [d \in Dim |-> CASE d = 0 -> q [] d = 1 -> r \div n[2] [] d = 2 -> r % n[2]]
<1>1. /\ n[0] \in Nat \ {0} /\ n[1] \in Nat \ {0} /\ n[2] \in Nat \ {0}
      /\ row \in Nat \ {0} /\ Volume(n) = n[0] * row
  BY VolumeFacts
<1>2. i \in 0 .. n[0] * row - 1 /\ i \in Int
  BY <1>1
<1>3. q \in 0 .. n[0] - 1 /\ r \in 0 .. row - 1 /\ i = row * q + r
  <2> HIDE DEF row
  <2> QED
    BY <1>1, <1>2, DivInRange, DivMod
<1>4. r \div n[2] \in 0 .. n[1] - 1
  <2> HIDE DEF r
  <2> QED
    BY <1>1, <1>3, DivInRange
<1>5. r % n[2] \in 0 .. n[2] - 1 /\ r = n[2] * (r \div n[2]) + (r % n[2])
  <2>1. r \in Int
    BY <1>1, <1>3
  <2> HIDE DEF r
  <2> QED
    BY <1>1, <2>1, DivMod
<1>6. x[0] = q /\ x[1] = r \div n[2] /\ x[2] = r % n[2]
  BY DEF Dim
<1>7. x \in Box(n)
  <2>1. x[0] \in 0 .. n[0] - 1 /\ x[1] \in 0 .. n[1] - 1 /\ x[2] \in 0 .. n[2] - 1
    BY <1>3, <1>4, <1>5, <1>6
  <2>2. q \in Int /\ r \div n[2] \in Int /\ r % n[2] \in Int
    BY <1>1, <1>3, <1>4, <1>5
  <2>4. x \in [Dim -> Int]
    <3> HIDE DEF q, r
    <3> QED
      BY <2>2 DEF Dim
  <2> HIDE DEF x
  <2>3. \A d \in Dim : x[d] \in Int /\ 0 <= x[d] /\ x[d] < n[d]
    BY <1>1, <2>1 DEF Dim
  <2> QED
    BY <2>3, <2>4 DEF Box
<1>8. Linear(n, x) = i
  <2> DEFINE b == r \div n[2]
             c == r % n[2]
  <2>0. q \in Int /\ b \in Int /\ c \in Int /\ r = n[2] * b + c
    BY <1>1, <1>3, <1>4, <1>5
  <2> HIDE DEF q, r, x, b, c
  <2>1. Linear(n, x) = (q * n[1] + b) * n[2] + c
    BY <1>6 DEF Linear, b, c
  <2>2. (q * n[1] + b) * n[2] = row * q + n[2] * b
    <3>1. (q * n[1] + b) * n[2] = q * n[1] * n[2] + b * n[2]
      BY <1>1, <2>0
    <3> QED
      BY <1>1, <2>0, <3>1
  <2> HIDE DEF row
  <2> QED
    BY <1>1, <1>3, <2>0, <2>1, <2>2
<1>9. Point(n, i) = x
  <2>1. Point(n, Linear(n, x)) = x
    BY <1>7, PointOfLinear
  <2> QED
    BY <1>8, <2>1
<1> QED
  BY <1>7, <1>8, <1>9

-----------------------------------------------------------------------------
(* Global ids of subdomains.                                               *)

LEMMA GridFacts ==
  /\ GlobalExtents \in Extents
  /\ NumRanks \in Extents
  /\ \A d \in Dim : /\ NumRanks[d] \in Nat \ {0} /\ NumZoneSets[d] \in Nat \ {0}
                    /\ GlobalNumSdom(d) \in Nat \ {0}
                    /\ GlobalNumSdom(d) = NumRanks[d] * NumZoneSets[d]
                    /\ GlobalExtents[d] = GlobalNumSdom(d)
  /\ NumSets \in Nat \ {0}
  /\ \A k \in 0 .. NumSets - 1, d \in Dim : SweepDir[k][d] \in {-1, 1}
<1> USE GridAssumption DEF GridParameters
<1>1. \A a, b \in Nat \ {0} : a * b \in Nat \ {0}
  OBVIOUS
<1>2. \A d \in Dim : NumRanks[d] \in Nat \ {0} /\ NumZoneSets[d] \in Nat \ {0}
  OBVIOUS
<1>3. \A d \in Dim : GlobalNumSdom(d) \in Nat \ {0}
  BY <1>1, <1>2 DEF GlobalNumSdom
<1>4. GlobalExtents \in Extents
  BY <1>3 DEF GlobalExtents, Extents
<1> QED
  BY <1>2, <1>3, <1>4 DEF GlobalExtents, GlobalNumSdom, Extents

(* Coordinates of subdomains are points of the global box.                 *)
LEMMA CoordFacts ==
  /\ \A c \in SdomCoord : /\ c.set \in 0 .. NumSets - 1
                          /\ c.at \in Box(GlobalExtents)
                          /\ c = [set |-> c.set, at |-> c.at]
  /\ \A k \in 0 .. NumSets - 1, x \in Box(GlobalExtents) : [set |-> k, at |-> x] \in SdomCoord
<1>1. \A d \in Dim : GlobalExtents[d] = GlobalNumSdom(d)
  BY GridFacts
<1> QED
  BY <1>1 DEF SdomCoord, Inside, InRange, Box

(* IdToCoord undoes GlobalSdomId, and the other way round.                 *)
LEMMA IdOfCoord ==
  ASSUME NEW c \in SdomCoord
  PROVE  GlobalSdomId(c) \in SdomIds /\ IdToCoord(GlobalSdomId(c)) = c
<1> DEFINE v == Volume(GlobalExtents)
           p == Linear(GlobalExtents, c.at)
           id == v * c.set + p
<1>1. /\ v \in Nat \ {0} /\ NumSets \in Nat \ {0} /\ c.set \in 0 .. NumSets - 1
      /\ c = [set |-> c.set, at |-> c.at]
  BY GridFacts, VolumeFacts, CoordFacts
<1>2. p \in 0 .. v - 1 /\ Point(GlobalExtents, p) = c.at
  BY GridFacts, CoordFacts, PointOfLinear
<1> HIDE DEF v, p
<1>3. id \in 0 .. NumSets * v - 1
  BY <1>1, <1>2, DivInRange
<1>4. id \div v = c.set /\ id % v = p
  <2>1. id \in Int /\ c.set \in Int
    BY <1>1, <1>2
  <2> QED
    BY <1>1, <1>2, <2>1, DivModUnique
<1>5. GlobalSdomId(c) = id
  <2>1. c.set * v = v * c.set
    BY <1>1
  <2> QED
    BY <2>1 DEF GlobalSdomId, v, p
<1> QED
  BY <1>1, <1>2, <1>3, <1>4, <1>5 DEF SdomIds, IdToCoord, v

LEMMA CoordOfId ==
  ASSUME NEW i \in SdomIds
  PROVE  IdToCoord(i) \in SdomCoord /\ GlobalSdomId(IdToCoord(i)) = i
<1> DEFINE v == Volume(GlobalExtents)
           k == i \div v
           x == Point(GlobalExtents, i % v)
<1>1. v \in Nat \ {0} /\ NumSets \in Nat \ {0}
  BY GridFacts, VolumeFacts
<1>2. i \in 0 .. NumSets * v - 1
  BY DEF SdomIds
<1>3. k \in 0 .. NumSets - 1 /\ i % v \in 0 .. v - 1 /\ i = v * k + (i % v)
  <2>1. i \in Int
    BY <1>1, <1>2
  <2> HIDE DEF v
  <2> QED
    BY <1>1, <1>2, <2>1, DivMod, DivInRange
<1>4. x \in Box(GlobalExtents) /\ Linear(GlobalExtents, x) = i % v
  BY <1>3, GridFacts, LinearOfPoint
<1>5. IdToCoord(i) = [set |-> k, at |-> x]
  BY DEF IdToCoord
<1>6. GlobalSdomId([set |-> k, at |-> x]) = k * v + (i % v)
  BY <1>4 DEF GlobalSdomId
<1>7. k * v = v * k
  <2> HIDE DEF k, v
  <2> QED
    BY <1>1, <1>3
<1> QED
  BY <1>3, <1>4, <1>5, <1>6, <1>7, CoordFacts

(* Different subdomains have different coordinates.                        *)
LEMMA SameCoord ==
  ASSUME NEW s \in SdomIds, NEW t \in SdomIds
  PROVE  IdToCoord(s) = IdToCoord(t) <=> s = t
BY CoordOfId

-----------------------------------------------------------------------------
(* Moving along the direction of flight.                                   *)

(* What a move does, and when it stays inside.                             *)
LEMMA MoveFacts ==
  ASSUME NEW c \in SdomCoord, NEW d \in Dim, NEW e \in {-1, 1}
  PROVE  /\ Move(c, d, e).set = c.set
         /\ Move(c, d, e).at \in [Dim -> Int]
         /\ Move(c, d, e).at[d] = c.at[d] + e
         /\ \A a \in Dim : a # d => Move(c, d, e).at[a] = c.at[a]
         /\ Inside(Move(c, d, e)) <=> Move(c, d, e) \in SdomCoord
<1>1. /\ c = [set |-> c.set, at |-> c.at] /\ c.set \in 0 .. NumSets - 1
      /\ c.at \in [Dim -> Int]
  BY CoordFacts DEF Box
<1>2. Move(c, d, e) = [set |-> c.set, at |-> [c.at EXCEPT ![d] = @ + e]]
  BY <1>1 DEF Move
<1>3. [c.at EXCEPT ![d] = @ + e] \in [Dim -> Int]
  BY <1>1
<1> QED
  BY <1>1, <1>2, <1>3 DEF SdomCoord

(* A step back undoes a step.                                              *)
LEMMA MoveBack ==
  ASSUME NEW c \in SdomCoord, NEW b \in SdomCoord, NEW d \in Dim, NEW e \in {-1, 1}
  PROVE  Move(c, d, e) = b <=> Move(b, d, - e) = c
<1>1. ASSUME NEW x \in SdomCoord, NEW y \in SdomCoord, NEW f \in {-1, 1}, Move(x, d, f) = y
      PROVE  Move(y, d, - f) = x
  <2>1. /\ x = [set |-> x.set, at |-> x.at] /\ x.at \in [Dim -> Int]
    BY CoordFacts DEF Box
  <2>2. y = [set |-> x.set, at |-> [x.at EXCEPT ![d] = @ + f]]
    BY <1>1, <2>1 DEF Move
  <2>3. Move(y, d, - f) = [set |-> x.set, at |-> [y.at EXCEPT ![d] = @ - f]]
    BY <2>1, <2>2 DEF Move
  <2>4. [y.at EXCEPT ![d] = @ - f] = x.at
    <3> DEFINE z == [y.at EXCEPT ![d] = @ - f]
    <3>1. y.at \in [Dim -> Int] /\ y.at[d] = x.at[d] + f
          /\ \A a \in Dim : a # d => y.at[a] = x.at[a]
      BY <2>1, <2>2
    <3>2. z \in [Dim -> Int] /\ \A a \in Dim : z[a] = x.at[a]
      BY <2>1, <3>1
    <3> HIDE DEF z
    <3>3. z = x.at
      BY <2>1, <3>2
    <3> QED
      BY <3>3 DEF z
  <2> QED
    BY <2>1, <2>3, <2>4
<1>2. - (- e) = e /\ - e \in {-1, 1}
  OBVIOUS
<1>3. Move(c, d, e) = b => Move(b, d, - e) = c
  BY <1>1
<1>4. Move(b, d, - e) = c => Move(c, d, e) = b
  BY <1>1, <1>2
<1> QED
  BY <1>3, <1>4

(* Neighbours by id.                                                       *)
LEMMA NeighbourFacts ==
  ASSUME NEW c \in SdomCoord, NEW d \in Dim, NEW e \in {-1, 1}, NoSdom \notin SdomIds
  PROVE  /\ IdOf(Move(c, d, e)) \in SdomIds \cup {NoSdom}
         /\ IdOf(Move(c, d, e)) # NoSdom => /\ Move(c, d, e) \in SdomCoord
                                            /\ IdToCoord(IdOf(Move(c, d, e))) = Move(c, d, e)
         /\ \A t \in SdomIds : IdOf(Move(c, d, e)) = t <=> Move(c, d, e) = IdToCoord(t)
<1> DEFINE m == Move(c, d, e)
<1>1. Inside(m) <=> m \in SdomCoord
  BY MoveFacts
<1> HIDE DEF m
<1>2. CASE m \in SdomCoord
  <2>1. IdOf(m) = GlobalSdomId(m) /\ GlobalSdomId(m) \in SdomIds /\ IdToCoord(IdOf(m)) = m
    BY <1>1, <1>2, IdOfCoord DEF IdOf
  <2>2. \A t \in SdomIds : IdOf(m) = t <=> m = IdToCoord(t)
    BY <2>1, SameCoord
  <2> QED
    BY <1>2, <2>1, <2>2 DEF m
<1>3. CASE m \notin SdomCoord
  <2>1. IdOf(m) = NoSdom
    BY <1>1, <1>3 DEF IdOf
  <2>2. \A t \in SdomIds : m # IdToCoord(t)
    BY <1>3, CoordOfId
  <2> QED
    BY <2>1, <2>2 DEF m
<1> QED
  BY <1>2, <1>3

-----------------------------------------------------------------------------
(* Ranks.                                                                  *)

LEMMA RankFacts ==
  ASSUME NEW c \in SdomCoord
  PROVE  RankOf(c) \in Box(NumRanks)
<1>1. ASSUME NEW d \in Dim
      PROVE  c.at[d] \div NumZoneSets[d] \in 0 .. NumRanks[d] - 1
  <2>1. /\ NumRanks[d] \in Nat \ {0} /\ NumZoneSets[d] \in Nat \ {0}
        /\ GlobalExtents[d] = NumRanks[d] * NumZoneSets[d]
        /\ GlobalExtents[d] \in Nat
    BY GridFacts
  <2>2. c.at[d] \in 0 .. NumRanks[d] * NumZoneSets[d] - 1
    BY <2>1, CoordFacts DEF Box
  <2> QED
    BY <2>1, <2>2, DivInRange
<1>2. \A d \in Dim : NumRanks[d] \in Nat
  BY GridFacts
<1> QED
  BY <1>1, <1>2 DEF RankOf, Box

(* The rank of an id is the id of its coordinate's rank, and different     *)
(* ranks have different ids.                                               *)
LEMMA OwnerFacts ==
  ASSUME NEW s \in SdomIds
  PROVE  /\ ownerOf[s] = Linear(NumRanks, RankOf(IdToCoord(s)))
         /\ ownerOf[s] \in RankIds
         /\ Point(NumRanks, ownerOf[s]) = RankOf(IdToCoord(s))
<1>1. RankOf(IdToCoord(s)) \in Box(NumRanks)
  BY CoordOfId, RankFacts
<1>2. ownerOf[s] = Linear(NumRanks, RankOf(IdToCoord(s)))
  BY DEF ownerOf
<1> QED
  BY <1>1, <1>2, GridFacts, PointOfLinear DEF RankIds

(* Every rank has the zone set at the lower corner of its box.             *)
LEMMA RankOwnsOne ==
  ASSUME NEW r \in RankIds
  PROVE  \E s \in SdomIds : ownerOf[s] = r
<1> DEFINE p == Point(NumRanks, r)
           x == [d \in Dim |-> NumZoneSets[d] * p[d]]
           c == [set |-> 0, at |-> x]
<1>1. p \in Box(NumRanks) /\ Linear(NumRanks, p) = r
  BY GridFacts, LinearOfPoint DEF RankIds
<1> HIDE DEF p
<1>2. ASSUME NEW d \in Dim
      PROVE  /\ x[d] \in 0 .. GlobalExtents[d] - 1
             /\ x[d] \div NumZoneSets[d] = p[d]
             /\ x[d] \in Int
  <2>1. /\ NumRanks[d] \in Nat \ {0} /\ NumZoneSets[d] \in Nat \ {0}
        /\ GlobalExtents[d] = NumRanks[d] * NumZoneSets[d]
    BY GridFacts
  <2>2. p[d] \in 0 .. NumRanks[d] - 1 /\ p[d] \in Int
    BY <1>1, <2>1 DEF Box
  <2>3. x[d] = NumZoneSets[d] * p[d] + 0 /\ 0 \in 0 .. NumZoneSets[d] - 1 /\ x[d] \in Int
    BY <2>1, <2>2
  <2> HIDE DEF x
  <2>4. x[d] \in 0 .. NumRanks[d] * NumZoneSets[d] - 1
    BY <2>1, <2>2, <2>3, DivInRange
  <2>5. x[d] \div NumZoneSets[d] = p[d]
    BY <2>1, <2>2, <2>3, DivModUnique
  <2> QED
    BY <2>1, <2>3, <2>4, <2>5
<1>3. x \in Box(GlobalExtents)
  <2>1. x \in [Dim -> Int]
    BY <1>2
  <2>2. \A d \in Dim : GlobalExtents[d] \in Nat
    BY GridFacts
  <2> HIDE DEF x
  <2> QED
    BY <1>2, <2>1, <2>2 DEF Box
<1>4. c \in SdomCoord
  <2>1. 0 \in 0 .. NumSets - 1
    BY GridFacts
  <2> HIDE DEF x
  <2> QED
    BY <1>3, <2>1, CoordFacts
<1>5. RankOf(c) = p
  <2>1. p = [d \in Dim |-> p[d]]
    BY <1>1 DEF Box
  <2>2. \A d \in Dim : c.at[d] = x[d]
    OBVIOUS
  <2> HIDE DEF x, c
  <2> QED
    BY <1>2, <2>1, <2>2 DEF RankOf
<1>6. GlobalSdomId(c) \in SdomIds /\ IdToCoord(GlobalSdomId(c)) = c
  BY <1>4, IdOfCoord
<1>7. ownerOf[GlobalSdomId(c)] = r
  BY <1>1, <1>5, <1>6, OwnerFacts
<1> QED
  BY <1>6, <1>7

-----------------------------------------------------------------------------
(* The graph.                                                              *)

Graph == INSTANCE SubdomainGraph WITH
  Sdom <- SdomIds, Rank <- RankIds,
  owner <- ownerOf, upwind <- upwindOf, downwind <- downwindOf

(* The tables by coordinate.                                               *)
LEMMA TableFacts ==
  ASSUME NEW s \in SdomIds, NEW d \in Dim
  PROVE  LET c == IdToCoord(s)
             e == SweepDir[c.set][d]
         IN  /\ c \in SdomCoord /\ e \in {-1, 1} /\ - e \in {-1, 1}
             /\ upwindOf[s][d] = IdOf(Move(c, d, - e))
             /\ downwindOf[s][d] = IdOf(Move(c, d, e))
<1>1. IdToCoord(s) \in SdomCoord /\ IdToCoord(s).set \in 0 .. NumSets - 1
  BY CoordOfId, CoordFacts
<1>2. SweepDir[IdToCoord(s).set][d] \in {-1, 1}
  BY <1>1, GridFacts
<1>3. - SweepDir[IdToCoord(s).set][d] \in {-1, 1}
  BY <1>2
<1> QED
  BY <1>1, <1>2, <1>3 DEF upwindOf, downwindOf, Upwind, Downwind

(* Every subdomain has an owner, and every rank a subdomain.               *)
LEMMA GridOwnership == Graph!Ownership
<1>1. ownerOf \in [SdomIds -> RankIds]
  BY OwnerFacts DEF ownerOf
<1> QED
  BY <1>1, RankOwnsOne DEF Graph!Ownership

LEMMA GridNeighbours ==
  ASSUME NoSdom \notin SdomIds
  PROVE  Graph!Neighbours
<1>1. ASSUME NEW s \in SdomIds, NEW d \in Dim
      PROVE  /\ upwindOf[s][d] \in SdomIds \cup {NoSdom}
             /\ downwindOf[s][d] \in SdomIds \cup {NoSdom}
  BY TableFacts, NeighbourFacts
<1>2. upwindOf \in [SdomIds -> [Dim -> SdomIds \cup {NoSdom}]]
  <2>1. \A s \in SdomIds : upwindOf[s] \in [Dim -> SdomIds \cup {NoSdom}]
    BY <1>1 DEF upwindOf
  <2> QED
    BY <2>1 DEF upwindOf
<1>3. downwindOf \in [SdomIds -> [Dim -> SdomIds \cup {NoSdom}]]
  <2>1. \A s \in SdomIds : downwindOf[s] \in [Dim -> SdomIds \cup {NoSdom}]
    BY <1>1 DEF downwindOf
  <2> QED
    BY <2>1 DEF downwindOf
<1> QED
  BY <1>2, <1>3 DEF Graph!Neighbours, Graph!Dim, Dim

LEMMA GridMirrored ==
  ASSUME NoSdom \notin SdomIds
  PROVE  Graph!Mirrored
<1>1. ASSUME NEW s \in SdomIds, NEW t \in SdomIds, NEW d \in Dim
      PROVE  downwindOf[s][d] = t <=> upwindOf[t][d] = s
  <2> DEFINE b == IdToCoord(s)
             c == IdToCoord(t)
             e == SweepDir[b.set][d]
             f == SweepDir[c.set][d]
  <2>1. b \in SdomCoord /\ e \in {-1, 1} /\ - e \in {-1, 1} /\ downwindOf[s][d] = IdOf(Move(b, d, e))
    BY TableFacts
  <2>2. c \in SdomCoord /\ f \in {-1, 1} /\ - f \in {-1, 1} /\ upwindOf[t][d] = IdOf(Move(c, d, - f))
    BY TableFacts
  <2> HIDE DEF b, c
  <2>3. downwindOf[s][d] = t <=> Move(b, d, e) = c
    BY <2>1, NeighbourFacts DEF c
  <2>4. upwindOf[t][d] = s <=> Move(c, d, - f) = b
    BY <2>2, NeighbourFacts DEF b
  <2>5. ASSUME NEW x \in SdomCoord, NEW k \in {-1, 1}
        PROVE  Move(x, d, k).set = x.set
    BY MoveFacts
  <2>6. (Move(b, d, e) = c => b.set = c.set) /\ (Move(c, d, - f) = b => b.set = c.set)
    <3> HIDE DEF e, f
    <3> QED
      BY <2>1, <2>2, <2>5
  <2>7. Move(b, d, e) = c <=> Move(c, d, - e) = b
    BY <2>1, <2>2, MoveBack
  <2> QED
    BY <2>3, <2>4, <2>6, <2>7
<1> QED
  BY <1>1 DEF Graph!Mirrored, Graph!Dim, Dim

(* A step away is another subdomain.                                       *)
LEMMA UpwindFacts ==
  ASSUME NoSdom \notin SdomIds, NEW s \in SdomIds, NEW d \in Dim, upwindOf[s][d] # NoSdom
  PROVE  LET b == IdToCoord(s)
             c == IdToCoord(upwindOf[s][d])
             e == SweepDir[b.set][d]
         IN  /\ upwindOf[s][d] \in SdomIds
             /\ c \in SdomCoord /\ c.set = b.set
             /\ c.at[d] = b.at[d] - e
             /\ \A a \in Dim : a # d => c.at[a] = b.at[a]
<1> DEFINE b == IdToCoord(s)
           e == SweepDir[b.set][d]
           m == Move(b, d, - e)
<1>1. b \in SdomCoord /\ e \in {-1, 1} /\ - e \in {-1, 1} /\ upwindOf[s][d] = IdOf(m)
  BY TableFacts
<1>2. m \in SdomCoord /\ IdToCoord(IdOf(m)) = m /\ IdOf(m) \in SdomIds
  BY <1>1, NeighbourFacts
<1>3. /\ m.set = b.set /\ m.at[d] = b.at[d] + (- e)
      /\ \A a \in Dim : a # d => m.at[a] = b.at[a]
  <2> HIDE DEF b
  <2>1. ASSUME NEW k \in {-1, 1}
        PROVE  /\ Move(b, d, k).set = b.set
               /\ Move(b, d, k).at[d] = b.at[d] + k
               /\ \A a \in Dim : a # d => Move(b, d, k).at[a] = b.at[a]
    BY <1>1, MoveFacts
  <2> QED
    BY <1>1, <2>1
<1>4. b.at[d] + (- e) = b.at[d] - e
  BY <1>1, CoordFacts DEF Box
<1> HIDE DEF b, e, m
<1> QED
  BY <1>1, <1>2, <1>3, <1>4 DEF b, e

LEMMA GridIrreflexive ==
  ASSUME NoSdom \notin SdomIds
  PROVE  Graph!Irreflexive
<1>1. ASSUME NEW s \in SdomIds, NEW d \in Dim, upwindOf[s][d] = s
      PROVE  FALSE
  <2>1. IdToCoord(s).at[d] = IdToCoord(s).at[d] - SweepDir[IdToCoord(s).set][d]
    BY <1>1, UpwindFacts
  <2>2. IdToCoord(s).at[d] \in Int /\ SweepDir[IdToCoord(s).set][d] \in {-1, 1}
    BY TableFacts, CoordFacts DEF Box
  <2> QED
    BY <2>1, <2>2
<1> QED
  BY <1>1 DEF Graph!Irreflexive, Graph!Dim, Dim

(* A foreign upwind neighbour in dimension d belongs to a rank that has    *)
(* another place in d and the same in the other dimensions.                *)
LEMMA ForeignRank ==
  ASSUME NoSdom \notin SdomIds, NEW s \in SdomIds, NEW d \in Dim, upwindOf[s][d] # NoSdom,
         ownerOf[upwindOf[s][d]] # ownerOf[s]
  PROVE  LET p == Point(NumRanks, ownerOf[s])
             q == Point(NumRanks, ownerOf[upwindOf[s][d]])
         IN  /\ q[d] # p[d]
             /\ \A a \in Dim : a # d => q[a] = p[a]
<1> DEFINE b == IdToCoord(s)
           c == IdToCoord(upwindOf[s][d])
           p == Point(NumRanks, ownerOf[s])
           q == Point(NumRanks, ownerOf[upwindOf[s][d]])
<1>1. upwindOf[s][d] \in SdomIds /\ \A a \in Dim : a # d => c.at[a] = b.at[a]
  BY UpwindFacts
<1>2. p = RankOf(b) /\ q = RankOf(c)
      /\ ownerOf[s] = Linear(NumRanks, RankOf(b))
      /\ ownerOf[upwindOf[s][d]] = Linear(NumRanks, RankOf(c))
  BY <1>1, OwnerFacts
<1>3. \A a \in Dim : a # d => q[a] = p[a]
  <2> HIDE DEF b, c, p, q
  <2> QED
    BY <1>1, <1>2 DEF RankOf
<1>4. q[d] # p[d]
  <2>1. SUFFICES ASSUME q[d] = p[d] PROVE FALSE
    OBVIOUS
  <2>2. \A a \in Dim : q[a] = p[a]
    BY <1>3, <2>1
  <2>3. p \in [Dim -> Int] /\ q \in [Dim -> Int]
    BY <1>1, <1>2, CoordOfId, RankFacts DEF Box
  <2> HIDE DEF b, c, p, q
  <2>4. p = q
    BY <2>2, <2>3
  <2> QED
    BY <1>2, <2>4
<1> QED
  BY <1>3, <1>4

LEMMA GridDistinctSources ==
  ASSUME NoSdom \notin SdomIds
  PROVE  Graph!DistinctSources
<1>1. ASSUME NEW s \in SdomIds, NEW d \in Dim, NEW e \in Dim, d # e,
             upwindOf[s][d] # NoSdom, ownerOf[upwindOf[s][d]] # ownerOf[s],
             upwindOf[s][e] # NoSdom, ownerOf[upwindOf[s][e]] # ownerOf[s]
      PROVE  ownerOf[upwindOf[s][d]] # ownerOf[upwindOf[s][e]]
  <2>1. Point(NumRanks, ownerOf[upwindOf[s][d]])[d] # Point(NumRanks, ownerOf[s])[d]
    BY <1>1, ForeignRank
  <2>2. Point(NumRanks, ownerOf[upwindOf[s][e]])[d] = Point(NumRanks, ownerOf[s])[d]
    BY <1>1, ForeignRank
  <2> QED
    BY <2>1, <2>2
<1> QED
  BY <1>1 DEF Graph!DistinctSources, Graph!RemoteUpwind, Graph!HasUpwind, Graph!LocalEdge,
              Graph!Dim, Dim

(* What the communication code relies on holds of the graph PartitionSpace *)
(* and the quadrature generator build: the assumption under which the      *)
(* theorems on SweepSolver and BlockJacobi are proved.  That two planes of *)
(* a subdomain never come from one foreign rank is because a foreign       *)
(* neighbour's rank is displaced in the dimension moved along and in no    *)
(* other.                                                                  *)
THEOREM GridIsGraph ==
  ASSUME NoSdom \notin SdomIds
  PROVE  /\ Graph!Ownership
         /\ Graph!Neighbours
         /\ Graph!Mirrored
         /\ Graph!Irreflexive
         /\ Graph!DistinctSources
BY GridOwnership, GridNeighbours, GridMirrored, GridIrreflexive, GridDistinctSources

-----------------------------------------------------------------------------
(* Order of the subdomains.                                                *)

(* Subdomains from the side the directions of s come from, along a.        *)
Height(s, a) ==
  LET c == IdToCoord(s)
  IN  IF SweepDir[c.set][a] = 1 THEN c.at[a] ELSE GlobalNumSdom(a) - 1 - c.at[a]

Depth == [s \in SdomIds |-> Height(s, 0) + Height(s, 1) + Height(s, 2)]

(* An upwind neighbour is one step nearer to the corner the sweep starts   *)
(* from, so that no chain of subdomains waiting for each other closes: the *)
(* graph is acyclic, without which no sweep could end.  (That it does end  *)
(* is Termination, which TLC checks.)                                      *)
THEOREM UpwindDescends ==
  ASSUME NoSdom \notin SdomIds
  PROVE  /\ Depth \in [SdomIds -> Nat]
         /\ \A s \in SdomIds, d \in Dim :
              upwindOf[s][d] # NoSdom => Depth[upwindOf[s][d]] + 1 = Depth[s]
<1>1. ASSUME NEW s \in SdomIds, NEW a \in Dim
      PROVE  Height(s, a) \in Nat
  <2>1. IdToCoord(s).at[a] \in 0 .. GlobalNumSdom(a) - 1 /\ GlobalNumSdom(a) \in Nat
    BY CoordOfId, CoordFacts, GridFacts DEF Box
  <2> QED
    BY <2>1 DEF Height
<1>2. \A s \in SdomIds : Height(s, 0) \in Nat /\ Height(s, 1) \in Nat /\ Height(s, 2) \in Nat
  BY <1>1 DEF Dim
<1>3. Depth \in [SdomIds -> Nat]
  BY <1>2 DEF Depth
<1>4. ASSUME NEW s \in SdomIds, NEW d \in Dim, upwindOf[s][d] # NoSdom
      PROVE  Depth[upwindOf[s][d]] + 1 = Depth[s]
  <2> DEFINE t == upwindOf[s][d]
             b == IdToCoord(s)
             c == IdToCoord(t)
             e == SweepDir[b.set][d]
  <2>1. /\ t \in SdomIds /\ c.set = b.set
        /\ c.at[d] = b.at[d] - e
        /\ \A a \in Dim : a # d => c.at[a] = b.at[a]
    BY <1>4, UpwindFacts
  <2>2. e \in {-1, 1} /\ b.at[d] \in Int /\ GlobalNumSdom(d) \in Int
    BY TableFacts, CoordFacts, GridFacts DEF Box
  <2>3. Height(t, d) + 1 = Height(s, d)
    <3> HIDE DEF b, c
    <3>1. e = 1 \/ e = -1
      BY <2>2
    <3>2. CASE e = 1
      BY <2>1, <2>2, <3>2 DEF Height, b, c
    <3>3. CASE e = -1
      BY <2>1, <2>2, <3>3 DEF Height, b, c
    <3> QED
      BY <3>1, <3>2, <3>3
  <2>4. \A a \in Dim : a # d => Height(t, a) = Height(s, a)
    BY <2>1 DEF Height
  <2>5. Depth[s] = Height(s, 0) + Height(s, 1) + Height(s, 2)
        /\ Depth[t] = Height(t, 0) + Height(t, 1) + Height(t, 2)
    BY <2>1 DEF Depth
  <2>6. /\ Height(s, 0) \in Nat /\ Height(s, 1) \in Nat /\ Height(s, 2) \in Nat
        /\ Height(t, 0) \in Nat /\ Height(t, 1) \in Nat /\ Height(t, 2) \in Nat
    BY <1>2, <2>1
  <2> HIDE DEF t
  <2>7. d = 0 \/ d = 1 \/ d = 2
    BY DEF Dim
  <2> QED
    BY <2>3, <2>4, <2>5, <2>6, <2>7 DEF t, Dim
<1> QED
  BY <1>3, <1>4

-----------------------------------------------------------------------------
(* From the directions to the graph.                                       *)

(* The signs of a subdomain set are those of its direction set, which the  *)
(* ids of (group set, direction set) pairs count through first.            *)
SignsOfSets(groupSets) ==
  [n \in 0 .. groupSets * input.dset - 1 |-> direction[(n % input.dset) * SetSize]]

SignsFitGrid ==
  phase = "ready" /\ Aligned =>
    \A groupSets \in Nat \ {0} :
      /\ groupSets * input.dset \in Nat \ {0}
      /\ SignsOfSets(groupSets)
           \in [0 .. groupSets * input.dset - 1 -> [Dim -> {-1, 1}]]

(* A problem that is set up with aligned direction sets has the signs      *)
(* SweepGrid assumes, none of them 0: for it the graph is as GridIsGraph   *)
(* says.                                                                   *)
THEOREM SignsMakeAGrid == Spec => []SignsFitGrid
<1>1. IndInv => SignsFitGrid
  <2>1. SUFFICES ASSUME IndInv, phase = "ready", Aligned, NEW P \in Nat \ {0}
                 PROVE  /\ P * input.dset \in Nat \ {0}
                        /\ SignsOfSets(P) \in [0 .. P * input.dset - 1 -> [Dim -> {-1, 1}]]
    BY DEF SignsFitGrid
  <2>2. PICK k \in Nat \ {0} :
          /\ input.dset = 8 * k
          /\ \A q \in SetIds : direction[q * SetSize] = OctantFlags(q \div k)
    BY <2>1, AlignedSets
  <2> DEFINE D == input.dset
  <2>3. D \in Nat \ {0} /\ SetIds = 0 .. D - 1
    BY <2>2 DEF SetIds
  <2>4. \A o : OctantFlags(o) \in [Dim -> {-1, 1}]
    BY DEF OctantFlags, Sign, Axis, Dim
  <2>5. SignsOfSets(P) = [n \in 0 .. P * D - 1 |-> direction[(n % D) * SetSize]]
    BY DEF SignsOfSets
  <2> HIDE DEF D
  <2> DEFINE V == P * D
  <2>6. V \in Nat \ {0}
    BY <2>3
  <2> HIDE DEF V
  <2>7. \A n \in 0 .. V - 1 : n \in Int /\ n % D \in SetIds
    BY <2>3, <2>6, DivMod
  <2>8. \A n \in 0 .. V - 1 : direction[(n % D) * SetSize] \in [Dim -> {-1, 1}]
    BY <2>2, <2>4, <2>7
  <2>9. SignsOfSets(P) \in [0 .. V - 1 -> [Dim -> {-1, 1}]]
    BY <2>5, <2>8 DEF V
  <2> QED
    BY <2>6, <2>9 DEF V, D
<1> QED
  BY <1>1, SetupInvariant, PTL

=============================================================================
