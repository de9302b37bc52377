-------------------------- MODULE PartitionProofs ---------------------------
(***************************************************************************)
(* The tables of the decomposition, for every layout of ranks and local    *)
(* subdomains, every size of the problem and every order of the            *)
(* collective calls.                                                       *)
(*                                                                         *)
(* Then the device pool, another component on the same layouts of chunks:  *)
(* the bytes of a field are sums over chunks, and rest on the same lemmas. *)
(***************************************************************************)
EXTENDS Partition, DevicePool, FiniteSetTheorems, SequenceTheorems, TLAPS

-----------------------------------------------------------------------------
(* A set of numbers with 0 and the successor of each of its numbers has    *)
(* all of them.                                                            *)
LEMMA Induction ==
  ASSUME NEW T, 0 \in T, \A n \in Nat : n \in T => n + 1 \in T
  PROVE  Nat \subseteq T
<1> SUFFICES ASSUME Nat \ T # {} PROVE FALSE
  OBVIOUS
<1> DEFINE R == OpToRel(<, Nat)
           U == Nat \ T
<1>1. IsWellFoundedOn(R, Nat) /\ U \subseteq Nat /\ U # {}
  BY NatLessThanWellFounded
<1>2. \E x \in U : \A y \in U : ~ (<<y, x>> \in R)
  <2> HIDE DEF R, U
  <2> QED
    BY <1>1, WFMin
<1>3. PICK x \in Nat \ T : \A y \in Nat \ T : ~ (y < x)
  BY <1>2 DEF OpToRel
<1>4. x # 0
  BY <1>3
<1>5. x - 1 \in Nat /\ x - 1 \in T
  BY <1>3, <1>4
<1> QED
  BY <1>5

(* A set without one of its elements.                                      *)
LEMMA OneLess ==
  ASSUME NEW T, IsFiniteSet(T), NEW n \in Nat, Cardinality(T) = n + 1, NEW x \in T
  PROVE  Cardinality(T \ {x}) = n
<1>1. Cardinality(T \ {x}) = Cardinality(T) - 1
  BY FS_RemoveElement
<1> QED
  BY <1>1

(* A family of subsets of a finite set with the empty one, and that is     *)
(* closed under adding an element, has the whole set.                      *)
LEMMA SetInduction ==
  ASSUME NEW S, IsFiniteSet(S), NEW F, {} \in F,
         \A T \in SUBSET S, x \in S : T \in F => T \cup {x} \in F
  PROVE  S \in F
<1> DEFINE C == {n \in Nat : \A T \in SUBSET S : Cardinality(T) = n => T \in F}
<1>1. \A T \in SUBSET S : IsFiniteSet(T) /\ Cardinality(T) \in Nat
  BY FS_Subset, FS_CardinalityType
<1>2. 0 \in C
  BY <1>1, FS_EmptySet
<1>3. ASSUME NEW n \in Nat, n \in C
      PROVE  n + 1 \in C
  <2> SUFFICES ASSUME NEW T \in SUBSET S, Cardinality(T) = n + 1
               PROVE  T \in F
    OBVIOUS
  <2>1. PICK x : x \in T
    BY <1>1, FS_EmptySet
  <2>2. Cardinality(T \ {x}) = n
    BY <1>1, <2>1, FS_RemoveElement
  <2>3. T \ {x} \in F
    BY <1>3, <2>2
  <2>4. (T \ {x}) \cup {x} = T
    BY <2>1
  <2> QED
    BY <2>1, <2>3, <2>4
<1>4. Nat \subseteq C
  <2> HIDE DEF C
  <2> QED
    BY <1>2, <1>3, Induction
<1>5. Cardinality(S) \in C /\ S \in SUBSET S
  BY <1>1, <1>4
<1> QED
  BY <1>5

-----------------------------------------------------------------------------
(* The recursion that defines a sum has a solution on the subsets of a     *)
(* finite set.                                                             *)

(* Folding a sum: CHOOSE takes one element, the rest follows.              *)
FirstAndRest(f, g, s) ==
  IF s = {} THEN 0 ELSE LET x == CHOOSE x \in s : TRUE IN f[x] + g[s \ {x}]

(* The recursive function that a sum is defined with.                      *)
Solves(f, g, S) == g = [s \in SUBSET S |-> FirstAndRest(f, g, s)]

(* SumFunctionOnSet, unfolded.                                             *)
LEMMA SumIs ==
  ASSUME NEW f, NEW S
  PROVE  SumFunctionOnSet(f, S) = (CHOOSE g : Solves(f, g, S))[S]
BY DEF SumFunctionOnSet, FoldFunctionOnSet, MapThenFoldSet, Solves, FirstAndRest

(* The recursive function exists: build it one cardinality at a time.      *)
LEMMA SolutionExists ==
  ASSUME NEW f, NEW S, IsFiniteSet(S)
  PROVE  \E g : Solves(f, g, S)
<1> DEFINE Upto(n) == {s \in SUBSET S : Cardinality(s) <= n}
           C == {n \in Nat : \E g : \A s \in Upto(n) : g[s] = FirstAndRest(f, g, s)}
<1>1. \A T \in SUBSET S : IsFiniteSet(T) /\ Cardinality(T) \in Nat
  BY FS_Subset, FS_CardinalityType
<1>2. ASSUME NEW s \in SUBSET S, s # {}
      PROVE  LET x == CHOOSE x \in s : TRUE
             IN  x \in s /\ s \ {x} \in SUBSET S /\ Cardinality(s \ {x}) = Cardinality(s) - 1
  BY <1>1, <1>2, FS_RemoveElement
<1>3. 0 \in C
  <2> DEFINE g == [s \in SUBSET S |-> 0]
  <2>1. \A s \in Upto(0) : s = {}
    BY <1>1, FS_EmptySet
  <2>2. \A s \in Upto(0) : g[s] = FirstAndRest(f, g, s)
    BY <2>1 DEF FirstAndRest
  <2> HIDE DEF g
  <2> QED
    BY <2>2
<1>4. ASSUME NEW n \in Nat, n \in C
      PROVE  n + 1 \in C
  <2>1. PICK g : \A s \in Upto(n) : g[s] = FirstAndRest(f, g, s)
    BY <1>4
  <2> DEFINE h == [s \in SUBSET S |-> FirstAndRest(f, g, s)]
  <2>2. \A s \in Upto(n) : h[s] = g[s]
    BY <2>1
  <2>3. ASSUME NEW s \in Upto(n + 1)
        PROVE  h[s] = FirstAndRest(f, h, s)
    <3>1. CASE s = {}
      BY <3>1 DEF FirstAndRest
    <3>2. CASE s # {}
      <4> DEFINE x == CHOOSE x \in s : TRUE
      <4>1. s \ {x} \in Upto(n)
        BY <1>1, <1>2, <3>2
      <4> HIDE DEF x
      <4>2. h[s \ {x}] = g[s \ {x}]
        BY <2>2, <4>1
      <4> HIDE DEF h, Upto
      <4>3. FirstAndRest(f, h, s) = FirstAndRest(f, g, s)
        BY <3>2, <4>2 DEF FirstAndRest, x
      <4> QED
        BY <4>3 DEF h, Upto
    <3> QED
      BY <3>1, <3>2
  <2> HIDE DEF h
  <2> QED
    BY <2>3
<1>5. Nat \subseteq C
  <2> HIDE DEF C
  <2> QED
    BY <1>3, <1>4, Induction
<1>6. PICK g : \A s \in Upto(Cardinality(S)) : g[s] = FirstAndRest(f, g, s)
  <2>1. Cardinality(S) \in C
    BY <1>1, <1>5
  <2> QED
    BY <2>1
<1>7. \A s \in SUBSET S : g[s] = FirstAndRest(f, g, s)
  BY <1>6, FS_Subset
<1> DEFINE h == [s \in SUBSET S |-> g[s]]
<1>8. ASSUME NEW s \in SUBSET S
      PROVE  g[s] = FirstAndRest(f, h, s)
  <2> DEFINE x == CHOOSE x \in s : TRUE
  <2>1. h[s \ {x}] = g[s \ {x}]
    OBVIOUS
  <2> HIDE DEF h
  <2>2. FirstAndRest(f, h, s) = FirstAndRest(f, g, s)
    BY <2>1 DEF FirstAndRest
  <2> QED
    BY <1>7, <2>2
<1>9. h = [s \in SUBSET S |-> FirstAndRest(f, h, s)]
  <2> HIDE DEF h
  <2>1. h = [s \in SUBSET S |-> g[s]]
    BY DEF h
  <2>2. \A s \in SUBSET S : g[s] = FirstAndRest(f, h, s)
    BY <1>8
  <2> QED
    BY <2>1, <2>2
<1> HIDE DEF h
<1> QED
  BY <1>9 DEF Solves

(* And only one, whatever set it is part of.                               *)
LEMMA SolutionUnique ==
  ASSUME NEW f, NEW S, IsFiniteSet(S), NEW A, NEW g, Solves(f, g, A), NEW B, NEW h, Solves(f, h, B),
         S \subseteq A, S \subseteq B
  PROVE  g[S] = h[S]
<1> DEFINE C == {n \in Nat : \A s \in SUBSET S : Cardinality(s) = n => g[s] = h[s]}
<1>1. \A T \in SUBSET S : IsFiniteSet(T) /\ Cardinality(T) \in Nat
  BY FS_Subset, FS_CardinalityType
<1>2. \A s \in SUBSET S : g[s] = FirstAndRest(f, g, s) /\ h[s] = FirstAndRest(f, h, s)
  BY DEF Solves
<1>3. 0 \in C
  BY <1>1, <1>2, FS_EmptySet DEF FirstAndRest
<1>4. ASSUME NEW n \in Nat, n \in C
      PROVE  n + 1 \in C
  <2> SUFFICES ASSUME NEW s \in SUBSET S, Cardinality(s) = n + 1
               PROVE  g[s] = h[s]
    OBVIOUS
  <2> DEFINE x == CHOOSE x \in s : TRUE
  <2>1. s # {}
    BY FS_EmptySet
  <2>2. x \in s
    BY <2>1
  <2>3. Cardinality(s \ {x}) = n /\ s \ {x} \in SUBSET S
    <3>1. IsFiniteSet(s)
      BY <1>1
    <3> HIDE DEF C, x
    <3> QED
      BY <2>2, <3>1, OneLess
  <2>4. g[s \ {x}] = h[s \ {x}]
    BY <1>4, <2>3
  <2>5. FirstAndRest(f, g, s) = FirstAndRest(f, h, s)
    BY <2>4 DEF FirstAndRest
  <2> QED
    BY <1>2, <2>5
<1>5. Nat \subseteq C
  <2> HIDE DEF C
  <2> QED
    BY <1>3, <1>4, Induction
<1>6. Cardinality(S) \in C
  BY <1>1, <1>5
<1> QED
  BY <1>6

-----------------------------------------------------------------------------
(* Sums of functions.                                                      *)

(* So a sum is what its recursion says.                                    *)
LEMMA SumUnfold ==
  ASSUME NEW f, NEW S, IsFiniteSet(S)
  PROVE  SumFunctionOnSet(f, S) =
           IF S = {} THEN 0
           ELSE LET x == CHOOSE x \in S : TRUE IN f[x] + SumFunctionOnSet(f, S \ {x})
<1> DEFINE g == CHOOSE g : Solves(f, g, S)
           x == CHOOSE x \in S : TRUE
           T == S \ {x}
           h == CHOOSE h : Solves(f, h, T)
<1>1. Solves(f, g, S)
  BY SolutionExists
<1>2. IsFiniteSet(T)
  BY FS_RemoveElement
<1>3. Solves(f, h, T)
  BY <1>2, SolutionExists
<1>4. SumFunctionOnSet(f, S) = g[S]
  BY SumIs
<1>5. SumFunctionOnSet(f, T) = h[T]
  BY SumIs
<1> HIDE DEF g, h
<1>6. T \subseteq S /\ T \subseteq T
  OBVIOUS
<1> HIDE DEF T
<1>7. g[T] = h[T]
  BY <1>1, <1>2, <1>3, <1>6, SolutionUnique
<1>8. g[S] = FirstAndRest(f, g, S)
  BY <1>1 DEF Solves
<1> QED
  BY <1>4, <1>5, <1>7, <1>8 DEF FirstAndRest, T

(* An empty sum.                                                           *)
LEMMA SumEmpty == \A f : SumFunctionOnSet(f, {}) = 0
BY SumUnfold, FS_EmptySet

(* A sum of integers is an integer.                                        *)
LEMMA SumInt ==
  ASSUME NEW S, IsFiniteSet(S), NEW f, \A y \in S : f[y] \in Int
  PROVE  SumFunctionOnSet(f, S) \in Int
<1> DEFINE C == {n \in Nat : \A T \in SUBSET S :
                               Cardinality(T) = n => SumFunctionOnSet(f, T) \in Int}
<1>1. \A T \in SUBSET S : IsFiniteSet(T) /\ Cardinality(T) \in Nat
  BY FS_Subset, FS_CardinalityType
<1>2. 0 \in C
  BY <1>1, FS_EmptySet, SumEmpty
<1>3. ASSUME NEW n \in Nat, n \in C
      PROVE  n + 1 \in C
  <2> SUFFICES ASSUME NEW T \in SUBSET S, Cardinality(T) = n + 1
               PROVE  SumFunctionOnSet(f, T) \in Int
    OBVIOUS
  <2> DEFINE x == CHOOSE x \in T : TRUE
  <2>1. IsFiniteSet(T) /\ T # {}
    BY <1>1, FS_EmptySet
  <2>2. x \in T /\ f[x] \in Int
    BY <2>1
  <2>3. SumFunctionOnSet(f, T) = f[x] + SumFunctionOnSet(f, T \ {x})
    BY <2>1, SumUnfold
  <2> HIDE DEF x
  <2>4. Cardinality(T \ {x}) = n
    <3> HIDE DEF C
    <3> QED
      BY <2>1, <2>2, OneLess
  <2>5. SumFunctionOnSet(f, T \ {x}) \in Int
    BY <1>3, <2>4
  <2> QED
    BY <2>2, <2>3, <2>5
<1>4. Nat \subseteq C
  <2> HIDE DEF C
  <2> QED
    BY <1>2, <1>3, Induction
<1>5. Cardinality(S) \in C
  BY <1>1, <1>4
<1> QED
  BY <1>5

(* Terms leave a sum in any order.                                         *)
LEMMA SumRemove ==
  ASSUME NEW S, IsFiniteSet(S), NEW f, \A y \in S : f[y] \in Int, NEW x \in S
  PROVE  SumFunctionOnSet(f, S) = f[x] + SumFunctionOnSet(f, S \ {x})
<1> DEFINE Sum(T) == SumFunctionOnSet(f, T)
           C == {n \in Nat : \A T \in SUBSET S : \A y \in T :
                               Cardinality(T) = n => Sum(T) = f[y] + Sum(T \ {y})}
<1>1. \A T \in SUBSET S : IsFiniteSet(T) /\ Cardinality(T) \in Nat
  BY FS_Subset, FS_CardinalityType
<1>2. \A T \in SUBSET S : Sum(T) \in Int
  BY <1>1, SumInt
<1>3. 0 \in C
  BY <1>1, FS_EmptySet
<1>4. ASSUME NEW n \in Nat, n \in C
      PROVE  n + 1 \in C
  <2> SUFFICES ASSUME NEW T \in SUBSET S, Cardinality(T) = n + 1, NEW y \in T
               PROVE  Sum(T) = f[y] + Sum(T \ {y})
    OBVIOUS
  <2> DEFINE z == CHOOSE z \in T : TRUE
  <2>1. IsFiniteSet(T) /\ T # {}
    BY <1>1
  <2>2. z \in T /\ z \in S /\ y \in S
    BY <2>1
  <2>3. Sum(T) = f[z] + Sum(T \ {z})
    BY <2>1, SumUnfold
  <2> HIDE DEF z
  <2>4. Cardinality(T \ {y}) = n /\ Cardinality(T \ {z}) = n
    <3> HIDE DEF C
    <3> QED
      BY <2>1, <2>2, OneLess
  <2> HIDE DEF Sum
  <2>5. CASE y = z
    BY <2>3, <2>5
  <2>6. CASE y # z
    <3>1. Sum(T \ {z}) = f[y] + Sum((T \ {z}) \ {y})
      BY <1>4, <2>4, <2>6
    <3>2. Sum(T \ {y}) = f[z] + Sum((T \ {y}) \ {z})
      BY <1>4, <2>2, <2>4, <2>6
    <3>3. Sum((T \ {z}) \ {y}) = Sum((T \ {y}) \ {z})
      <4>1. (T \ {z}) \ {y} = (T \ {y}) \ {z}
        OBVIOUS
      <4> QED
        BY <4>1
    <3>4. Sum((T \ {y}) \ {z}) \in Int /\ f[y] \in Int /\ f[z] \in Int
      BY <1>2, <2>2
    <3> QED
      BY <2>3, <3>1, <3>2, <3>3, <3>4
  <2> QED
    BY <2>5, <2>6
<1>5. Nat \subseteq C
  <2> HIDE DEF C
  <2> QED
    BY <1>3, <1>4, Induction
<1>6. Cardinality(S) \in C
  BY <1>1, <1>5
<1> QED
  BY <1>6

(* One more element adds its term, whichever one CHOOSE takes first.       *)
LEMMA SumAdd ==
  ASSUME NEW S, IsFiniteSet(S), NEW x, x \notin S, NEW f, \A y \in S \cup {x} : f[y] \in Int
  PROVE  SumFunctionOnSet(f, S \cup {x}) = f[x] + SumFunctionOnSet(f, S)
<1> DEFINE T == S \cup {x}
<1>1. IsFiniteSet(T) /\ x \in T /\ \A y \in T : f[y] \in Int
  BY FS_AddElement
<1>2. T \ {x} = S
  OBVIOUS
<1> HIDE DEF T
<1>3. SumFunctionOnSet(f, T) = f[x] + SumFunctionOnSet(f, T \ {x})
  BY <1>1, SumRemove
<1> QED
  BY <1>2, <1>3 DEF T

(* Functions with the same values have the same sum.                       *)
LEMMA SumSame ==
  ASSUME NEW S, IsFiniteSet(S), NEW f, NEW g, \A x \in S : f[x] = g[x] /\ f[x] \in Int
  PROVE  SumFunctionOnSet(f, S) = SumFunctionOnSet(g, S)
<1> DEFINE F == {T \in SUBSET S : SumFunctionOnSet(f, T) = SumFunctionOnSet(g, T)}
<1>1. {} \in F
  BY SumEmpty
<1>2. ASSUME NEW T \in SUBSET S, NEW x \in S, T \in F
      PROVE  T \cup {x} \in F
  <2>1. CASE x \in T
    <3>1. T \cup {x} = T
      BY <2>1
    <3> QED
      BY <1>2, <3>1
  <2>2. CASE x \notin T
    <3>1. IsFiniteSet(T)
      BY FS_Subset
    <3>2. SumFunctionOnSet(f, T \cup {x}) = f[x] + SumFunctionOnSet(f, T)
      BY <2>2, <3>1, SumAdd
    <3>3. SumFunctionOnSet(g, T \cup {x}) = g[x] + SumFunctionOnSet(g, T)
      BY <2>2, <3>1, SumAdd
    <3> QED
      BY <1>2, <3>2, <3>3
  <2> QED
    BY <2>1, <2>2
<1>3. S \in F
  <2> HIDE DEF F
  <2> QED
    BY <1>1, <1>2, SetInduction
<1> QED
  BY <1>3

(* A sum over two sets.                                                    *)
LEMMA SumUnion ==
  ASSUME NEW S, IsFiniteSet(S), NEW A, A \subseteq S, NEW f, \A x \in S : f[x] \in Int
  PROVE  SumFunctionOnSet(f, S) = SumFunctionOnSet(f, A) + SumFunctionOnSet(f, S \ A)
<1> DEFINE Sum(T) == SumFunctionOnSet(f, T)
           F == {T \in SUBSET (S \ A) : Sum(A \cup T) = Sum(A) + Sum(T)}
<1>1. \A T \in SUBSET S : IsFiniteSet(T)
  BY FS_Subset
<1>2. \A T \in SUBSET S : Sum(T) \in Int
  BY <1>1, SumInt
<1>3. {} \in F
  BY <1>2, SumEmpty
<1>4. ASSUME NEW T \in SUBSET (S \ A), NEW x \in S \ A, T \in F
      PROVE  T \cup {x} \in F
  <2>1. CASE x \in T
    <3>1. T \cup {x} = T
      BY <2>1
    <3> QED
      BY <1>4, <3>1
  <2>2. CASE x \notin T
    <3>1. IsFiniteSet(T) /\ IsFiniteSet(A \cup T)
      BY <1>1
    <3>2. Sum(T \cup {x}) = f[x] + Sum(T)
      BY <2>2, <3>1, SumAdd
    <3>3. Sum((A \cup T) \cup {x}) = f[x] + Sum(A \cup T)
      BY <2>2, <3>1, SumAdd
    <3>4. Sum((A \cup T) \cup {x}) = Sum(A \cup (T \cup {x}))
      <4>1. (A \cup T) \cup {x} = A \cup (T \cup {x})
        OBVIOUS
      <4> QED
        BY <4>1
    <3>5. Sum(T) \in Int /\ Sum(A) \in Int /\ f[x] \in Int
      BY <1>2
    <3>6. Sum(A \cup T) = Sum(A) + Sum(T)
      BY <1>4
    <3> HIDE DEF Sum
    <3>7. Sum(A \cup (T \cup {x})) = Sum(A) + Sum(T \cup {x})
      BY <3>2, <3>3, <3>4, <3>5, <3>6
    <3> QED
      BY <3>7
  <2> QED
    BY <2>1, <2>2
<1>5. S \ A \in F
  <2> HIDE DEF F
  <2> QED
    BY <1>1, <1>3, <1>4, SetInduction
<1>6. A \cup (S \ A) = S
  OBVIOUS
<1> QED
  BY <1>5, <1>6

(* A sum of natural numbers is one, and not below that of a part.          *)
LEMMA SumNat ==
  ASSUME NEW S, IsFiniteSet(S), NEW f, \A x \in S : f[x] \in Nat
  PROVE  SumFunctionOnSet(f, S) \in Nat
<1> DEFINE F == {T \in SUBSET S : SumFunctionOnSet(f, T) \in Nat}
<1>1. {} \in F
  BY SumEmpty
<1>2. ASSUME NEW T \in SUBSET S, NEW x \in S, T \in F
      PROVE  T \cup {x} \in F
  <2>1. CASE x \in T
    <3>1. T \cup {x} = T
      BY <2>1
    <3> QED
      BY <1>2, <3>1
  <2>2. CASE x \notin T
    <3>1. IsFiniteSet(T) /\ \A y \in S : f[y] \in Int
      BY FS_Subset
    <3>2. SumFunctionOnSet(f, T \cup {x}) = f[x] + SumFunctionOnSet(f, T)
      BY <2>2, <3>1, SumAdd
    <3> QED
      BY <1>2, <3>2
  <2> QED
    BY <2>1, <2>2
<1>3. S \in F
  <2> HIDE DEF F
  <2> QED
    BY <1>1, <1>2, SetInduction
<1> QED
  BY <1>3

(* A sum of equal terms.                                                   *)
LEMMA SumConstant ==
  ASSUME NEW S, IsFiniteSet(S), NEW f, NEW c \in Int, \A x \in S : f[x] = c
  PROVE  SumFunctionOnSet(f, S) = Cardinality(S) * c
<1> DEFINE F == {T \in SUBSET S : SumFunctionOnSet(f, T) = Cardinality(T) * c}
<1>1. {} \in F
  BY SumEmpty, FS_EmptySet
<1>2. ASSUME NEW T \in SUBSET S, NEW x \in S, T \in F
      PROVE  T \cup {x} \in F
  <2>1. CASE x \in T
    <3>1. T \cup {x} = T
      BY <2>1
    <3> QED
      BY <1>2, <3>1
  <2>2. CASE x \notin T
    <3>1. IsFiniteSet(T)
      BY FS_Subset
    <3>2. SumFunctionOnSet(f, T \cup {x}) = f[x] + SumFunctionOnSet(f, T)
      BY <2>2, <3>1, SumAdd
    <3>3. Cardinality(T) \in Nat /\ Cardinality(T \cup {x}) = Cardinality(T) + 1
      BY <2>2, <3>1, FS_CardinalityType, FS_AddElement
    <3>4. \A n \in Nat : (n + 1) * c = c + n * c
      OBVIOUS
    <3> QED
      BY <1>2, <3>2, <3>3, <3>4
  <2> QED
    BY <2>1, <2>2
<1>3. S \in F
  <2> HIDE DEF F
  <2> QED
    BY <1>1, <1>2, SetInduction
<1> QED
  BY <1>3

(* Sums of sums, and of multiples.                                         *)
LEMMA SumPlus ==
  ASSUME NEW S, IsFiniteSet(S), NEW f, NEW g, NEW h,
         \A x \in S : f[x] \in Int /\ g[x] \in Int /\ h[x] = f[x] + g[x]
  PROVE  SumFunctionOnSet(h, S) = SumFunctionOnSet(f, S) + SumFunctionOnSet(g, S)
<1> DEFINE F == {T \in SUBSET S : SumFunctionOnSet(h, T) =
                                    SumFunctionOnSet(f, T) + SumFunctionOnSet(g, T)}
<1>1. {} \in F
  BY SumEmpty
<1>2. ASSUME NEW T \in SUBSET S, NEW x \in S, T \in F
      PROVE  T \cup {x} \in F
  <2>1. CASE x \in T
    <3>1. T \cup {x} = T
      BY <2>1
    <3> QED
      BY <1>2, <3>1
  <2>2. CASE x \notin T
    <3>1. IsFiniteSet(T)
      BY FS_Subset
    <3>2. /\ SumFunctionOnSet(f, T \cup {x}) = f[x] + SumFunctionOnSet(f, T)
          /\ SumFunctionOnSet(f, T) \in Int
      BY <2>2, <3>1, SumAdd, SumInt
    <3>3. /\ SumFunctionOnSet(g, T \cup {x}) = g[x] + SumFunctionOnSet(g, T)
          /\ SumFunctionOnSet(g, T) \in Int
      BY <2>2, <3>1, SumAdd, SumInt
    <3>4. \A y \in S : h[y] \in Int
      OBVIOUS
    <3>5. SumFunctionOnSet(h, T \cup {x}) = h[x] + SumFunctionOnSet(h, T)
      BY <2>2, <3>1, <3>4, SumAdd
    <3> QED
      BY <1>2, <3>2, <3>3, <3>5
  <2> QED
    BY <2>1, <2>2
<1>3. S \in F
  <2> HIDE DEF F
  <2> QED
    BY <1>1, <1>2, SetInduction
<1> QED
  BY <1>3

-----------------------------------------------------------------------------
(* Consecutive ranges: with t[p] elements for each p, dealt out in the     *)
(* order of the keys.                                                      *)
Smaller(M, key, p) == {q \in M : key[q] < key[p]}

(* A part of a sum of naturals is no larger.                               *)
LEMMA SumSubset ==
  ASSUME NEW S, IsFiniteSet(S), NEW A, A \subseteq S, NEW f, \A x \in S : f[x] \in Nat
  PROVE  /\ SumFunctionOnSet(f, A) \in Nat /\ SumFunctionOnSet(f, S) \in Nat
         /\ SumFunctionOnSet(f, A) <= SumFunctionOnSet(f, S)
<1>1. IsFiniteSet(A) /\ IsFiniteSet(S \ A)
  BY FS_Subset
<1>2. \A x \in S : f[x] \in Int
  OBVIOUS
<1>3. SumFunctionOnSet(f, S) = SumFunctionOnSet(f, A) + SumFunctionOnSet(f, S \ A)
  BY <1>2, SumUnion
<1>4. (\A x \in A : f[x] \in Nat) /\ (\A x \in S \ A : f[x] \in Nat)
  OBVIOUS
<1>5. SumFunctionOnSet(f, A) \in Nat /\ SumFunctionOnSet(f, S \ A) \in Nat
  BY <1>1, <1>4, SumNat
<1> QED
  BY <1>3, <1>5

(* Ranges of the lengths t, one after the other in the order of the keys:  *)
(* none reaches into the next, and together they reach the sum without a   *)
(* gap.                                                                    *)
LEMMA Tiling ==
  ASSUME NEW M, IsFiniteSet(M), NEW key, NEW t,
         \A p \in M : key[p] \in Nat /\ t[p] \in Nat,
         \A p, q \in M : key[p] = key[q] => p = q
  PROVE  /\ \A p \in M :
              /\ SumFunctionOnSet(t, Smaller(M, key, p)) \in Nat
              /\ SumFunctionOnSet(t, Smaller(M, key, p)) + t[p] <= SumFunctionOnSet(t, M)
         /\ \A p, q \in M : key[p] < key[q] =>
              SumFunctionOnSet(t, Smaller(M, key, p)) + t[p]
                <= SumFunctionOnSet(t, Smaller(M, key, q))
         /\ \A x \in Nat : x < SumFunctionOnSet(t, M) =>
              \E p \in M : /\ SumFunctionOnSet(t, Smaller(M, key, p)) <= x
                           /\ x < SumFunctionOnSet(t, Smaller(M, key, p)) + t[p]
<1> DEFINE Sum(A) == SumFunctionOnSet(t, A)
           Lo(p) == Sum(Smaller(M, key, p))
           First(n) == {q \in M : key[q] < n}
<1>1. \A p \in M : Smaller(M, key, p) \subseteq M /\ p \notin Smaller(M, key, p)
  BY DEF Smaller
<1>2. ASSUME NEW p \in M
      PROVE  Lo(p) \in Nat /\ Sum(Smaller(M, key, p) \cup {p}) = Lo(p) + t[p]
  <2> DEFINE B == Smaller(M, key, p)
  <2>1. IsFiniteSet(B) /\ p \notin B /\ \A y \in B \cup {p} : t[y] \in Nat
    BY <1>1, FS_Subset
  <2> HIDE DEF B
  <2>2. \A y \in B \cup {p} : t[y] \in Int
    BY <2>1
  <2>3. SumFunctionOnSet(t, B \cup {p}) = t[p] + SumFunctionOnSet(t, B)
    BY <2>1, <2>2, SumAdd
  <2>4. SumFunctionOnSet(t, B) \in Nat /\ t[p] \in Nat
    BY <2>1, SumNat
  <2> QED
    BY <2>3, <2>4 DEF B
<1>3. ASSUME NEW p \in M
      PROVE  Lo(p) + t[p] <= Sum(M)
  <2> DEFINE U == Smaller(M, key, p) \cup {p}
  <2>1. U \subseteq M
    BY <1>1
  <2> HIDE DEF U
  <2>2. SumFunctionOnSet(t, U) <= SumFunctionOnSet(t, M)
    BY <2>1, SumSubset
  <2> QED
    BY <1>2, <2>2 DEF U
<1>4. ASSUME NEW p \in M, NEW q \in M, key[p] < key[q]
      PROVE  Lo(p) + t[p] <= Lo(q)
  <2> DEFINE U == Smaller(M, key, p) \cup {p}
             B == Smaller(M, key, q)
  <2>1. U \subseteq B
    BY <1>4 DEF Smaller
  <2>2. IsFiniteSet(B) /\ \A x \in B : t[x] \in Nat
    BY <1>1, FS_Subset
  <2> HIDE DEF U, B
  <2>3. SumFunctionOnSet(t, U) <= SumFunctionOnSet(t, B)
    BY <2>1, <2>2, SumSubset
  <2> QED
    BY <1>2, <2>3 DEF U, B
<1> DEFINE Held(x) == \E p \in M : Lo(p) <= x /\ x < Lo(p) + t[p]
           C == {n \in Nat : \A x \in Nat : x < Sum(First(n)) => Held(x)}
<1>5. 0 \in C
  <2>1. First(0) = {}
    OBVIOUS
  <2>2. Sum(First(0)) = 0
    BY <2>1, SumEmpty
  <2> HIDE DEF Sum, Held, First
  <2> QED
    BY <2>2
<1>6. ASSUME NEW n \in Nat, n \in C
      PROVE  n + 1 \in C
  <2>1. CASE \E p \in M : key[p] = n
    <3>1. PICK p \in M : key[p] = n
      BY <2>1
    <3>2. First(n) = Smaller(M, key, p)
      BY <3>1 DEF Smaller
    <3>3. First(n + 1) = Smaller(M, key, p) \cup {p}
      <4>1. \A q \in M : key[q] < n + 1 <=> key[q] < n \/ key[q] = n
        OBVIOUS
      <4> QED
        BY <3>1, <4>1 DEF Smaller
    <3>4. Sum(First(n)) = Lo(p) /\ Sum(First(n + 1)) = Lo(p) + t[p]
      BY <1>2, <3>2, <3>3
    <3>5. ASSUME NEW x \in Nat, x < Sum(First(n + 1))
          PROVE  Held(x)
      <4>1. CASE x < Lo(p)
        <5> HIDE DEF Held, Sum
        <5> QED
          BY <1>6, <3>4, <4>1
      <4>2. CASE ~ x < Lo(p)
        <5>1. Lo(p) <= x /\ x < Lo(p) + t[p]
          <6>1. Lo(p) \in Nat
            BY <1>2
          <6> HIDE DEF Lo, Sum, First, Held
          <6> QED
            BY <3>4, <3>5, <4>2, <6>1
        <5> QED
          BY <5>1
      <4> QED
        BY <4>1, <4>2
    <3> HIDE DEF Held, Sum
    <3> QED
      BY <3>5
  <2>2. CASE ~ \E p \in M : key[p] = n
    <3>1. \A q \in M : key[q] < n + 1 <=> key[q] < n
      BY <2>2
    <3>2. First(n + 1) = First(n)
      BY <3>1
    <3> HIDE DEF First, Held, Sum
    <3> QED
      BY <1>6, <3>2
  <2> QED
    BY <2>1, <2>2
<1> HIDE DEF C
<1>7. Nat \subseteq C
  BY <1>5, <1>6, Induction
<1>8. PICK n \in Nat : First(n) = M
  <2> DEFINE n == SumFunctionOnSet(key, M) + 1
  <2>1. ASSUME NEW q \in M
        PROVE  key[q] < n
    <3>1. SumFunctionOnSet(key, M) = key[q] + SumFunctionOnSet(key, M \ {q})
      <4>1. \A y \in M : key[y] \in Int
        OBVIOUS
      <4> QED
        BY <4>1, SumRemove
    <3>2. SumFunctionOnSet(key, M \ {q}) \in Nat
      <4>1. IsFiniteSet(M \ {q}) /\ \A y \in M \ {q} : key[y] \in Nat
        BY FS_Subset
      <4> QED
        BY <4>1, SumNat
    <3> QED
      BY <3>1, <3>2
  <2>2. SumFunctionOnSet(key, M) \in Nat
    BY SumNat
  <2>3. First(n) = M
    BY <2>1
  <2> QED
    BY <2>2, <2>3
<1>9. \A x \in Nat : x < Sum(M) => Held(x)
  <2>1. n \in C
    BY <1>7
  <2> QED
    BY <1>8, <2>1 DEF C
<1> QED
  BY <1>2, <1>3, <1>4, <1>9

-----------------------------------------------------------------------------
(* Division.                                                               *)

(* Quotient and remainder.                                                 *)
LEMMA DivMod ==
  ASSUME NEW a \in Int, NEW b \in Nat \ {0}
  PROVE  /\ a \div b \in Int
         /\ a % b \in 0 .. b - 1
         /\ a = b * (a \div b) + (a % b)
OBVIOUS

(* Multiples of b that are not equal are b apart.                          *)
LEMMA Apart ==
  ASSUME NEW p \in Int, NEW q \in Int, NEW b \in Nat \ {0}, p < q
  PROVE  b * p + b <= b * q
<1>1. PICK k \in Nat : q = p + 1 + k
  <2>1. q - p - 1 \in Nat
    OBVIOUS
  <2> QED
    BY <2>1
<1>2. b * q = b * (p + 1) + b * k
  BY <1>1
<1>3. b * (p + 1) = b * p + b /\ b * k >= 0
  BY <1>1
<1> QED
  BY <1>2, <1>3

(* Quotient and remainder are the only pair that adds up.                  *)
LEMMA DivModUnique ==
  ASSUME NEW a \in Int, NEW b \in Nat \ {0}, NEW q \in Int, NEW r \in 0 .. b - 1,
         a = b * q + r
  PROVE  a \div b = q /\ a % b = r
<1>1. /\ a \div b \in Int
      /\ a % b \in 0 .. b - 1
      /\ a = b * (a \div b) + (a % b)
  BY DivMod
<1> DEFINE p == a \div b
<1> HIDE DEF p
<1>2. ~ p < q
  BY <1>1, Apart DEF p
<1>3. ~ q < p
  BY <1>1, Apart DEF p
<1>4. p = q
  BY <1>1, <1>2, <1>3 DEF p
<1> QED
  BY <1>1, <1>4 DEF p

(* A number below the product of two extents has a quotient below the      *)
(* first, and the product of coordinates in range is below it.             *)
LEMMA DivInRange ==
  ASSUME NEW b \in Nat \ {0}, NEW m \in Nat \ {0}
  PROVE  /\ \A a \in 0 .. m * b - 1 : a \div b \in 0 .. m - 1
         /\ \A q \in 0 .. m - 1, r \in 0 .. b - 1 : b * q + r \in 0 .. m * b - 1
<1>1. ASSUME NEW a \in 0 .. m * b - 1
      PROVE  a \div b \in 0 .. m - 1
  <2>0. a \in Int /\ m * b \in Int /\ 0 <= a /\ a < m * b
    OBVIOUS
  <2> DEFINE p == a \div b
  <2>1. p \in Int /\ b * p <= a /\ a < b * p + b
    BY <2>0, DivMod
  <2> HIDE DEF p
  <2>2. ~ p < 0
    <3>1. SUFFICES ASSUME p < 0 PROVE FALSE
      OBVIOUS
    <3>2. b * p + b <= b * 0
      BY <2>1, <3>1, Apart
    <3> QED
      BY <2>0, <2>1, <3>2
  <2>3. p < m
    <3>1. SUFFICES ASSUME ~ p < m PROVE FALSE
      OBVIOUS
    <3>2. b * m <= b * p
      <4>1. CASE p = m
        BY <4>1
      <4>2. CASE m < p
        BY <4>2, <2>1, Apart
      <4> QED
        BY <2>1, <3>1, <4>1, <4>2
    <3>3. b * m = m * b
      OBVIOUS
    <3> QED
      BY <2>0, <2>1, <3>2, <3>3
  <2> QED
    BY <2>1, <2>2, <2>3 DEF p
<1>2. ASSUME NEW q \in 0 .. m - 1, NEW r \in 0 .. b - 1
      PROVE  b * q + r \in 0 .. m * b - 1
  <2>1. b * q + b <= b * m
    BY Apart
  <2>2. b * m = m * b /\ b * q \in Nat
    OBVIOUS
  <2> QED
    BY <2>1, <2>2
<1> QED
  BY <1>1, <1>2

(* A number whose digits are q, i in base M and t in base R.               *)
HasDigits(R, M, q, i, t, L) == L = (M * R) * q + (R * i + t)

(* A digit of a number in a mixed radix, from the number.                  *)
LEMMA DigitOf ==
  ASSUME NEW R \in Nat \ {0}, NEW M \in Nat \ {0}, NEW q \in Nat, NEW i \in 0 .. M - 1,
         NEW t \in 0 .. R - 1, NEW L, HasDigits(R, M, q, i, t, L)
  PROVE  /\ M * q + i \in Nat
         /\ L = R * (M * q + i) + t
         /\ (L \div R) % M = i
<1>1. (M * R) * q = R * (M * q) /\ M * q \in Nat /\ R * i \in Nat /\ i \in Nat /\ t \in Nat
  OBVIOUS
<1> DEFINE p == M * q + i
<1>2. R * p = R * (M * q) + R * i
  BY <1>1
<1>3. p \in Int /\ p \in Nat /\ M * q + i \in Nat
  BY <1>1
<1>4. p % M = i
  <2>1. q \in Int /\ p = M * q + i
    OBVIOUS
  <2> HIDE DEF p
  <2> QED
    BY <1>3, <2>1, DivModUnique
<1> HIDE DEF p
<1>5. L = R * p + t /\ L \in Int
  BY <1>1, <1>2, <1>3 DEF HasDigits
<1>6. L \div R = p
  BY <1>3, <1>5, DivModUnique
<1> QED
  BY <1>3, <1>4, <1>5, <1>6 DEF p

(* The number from its digits.                                             *)
LEMMA DigitsOf ==
  ASSUME NEW R \in Nat \ {0}, NEW M \in Nat \ {0}, NEW L \in Nat
  PROVE  /\ (L \div R) % M \in 0 .. M - 1
         /\ L % (M * R) = R * ((L \div R) % M) + (L % R)
<1> DEFINE q == L \div R
           t == L % R
           i == q % M
           p == q \div M
<1>1. q \in Int /\ t \in 0 .. R - 1 /\ L = R * q + t
  BY DivMod
<1>2. p \in Int /\ i \in 0 .. M - 1 /\ q = M * p + i
  BY <1>1, DivMod
<1> HIDE DEF p, i, q, t
<1>3. R * q = R * (M * p) + R * i
  BY <1>2
<1>4. R * (M * p) = (M * R) * p
  BY <1>2
<1>5. R * i + t \in 0 .. M * R - 1
  BY <1>1, <1>2, DivInRange
<1>6. M * R \in Nat \ {0}
  OBVIOUS
<1> DEFINE W == M * R
           x == R * i + t
<1> HIDE DEF W, x
<1>7. L = W * p + x
  BY <1>1, <1>2, <1>3, <1>4 DEF W, x
<1>8. x \in 0 .. W - 1 /\ W \in Nat \ {0}
  BY <1>5, <1>6 DEF W, x
<1>9. L % W = x
  BY <1>2, <1>7, <1>8, DivModUnique
<1> QED
  BY <1>2, <1>9 DEF W, x, i, q, t

-----------------------------------------------------------------------------
(* Layouts.                                                                *)

(* Layouts of the five axes; an axis of size zero does not count.          *)
Layouts == [Axis5 -> Nat]

(* Indices within a layout; those of left out dimensions do not matter.    *)
Indices(n) == {x \in [Axis5 -> Nat] : \A a \in Axis5 : n[a] # 0 => x[a] < n[a]}

(* The stride of an axis, from the innermost one out.                      *)
LEMMA RunFacts ==
  ASSUME NEW n \in Layouts
  PROVE  /\ \A a \in Axis5 : OrOne(n[a]) \in Nat \ {0} /\ Run(n, a) \in Nat \ {0}
         /\ Run(n, 4) = 1
         /\ Run(n, 3) = OrOne(n[4]) * Run(n, 4)
         /\ Run(n, 2) = OrOne(n[3]) * Run(n, 3)
         /\ Run(n, 1) = OrOne(n[2]) * Run(n, 2)
         /\ Run(n, 0) = OrOne(n[1]) * Run(n, 1)
         /\ Volume(n) = OrOne(n[0]) * Run(n, 0)
<1> DEFINE m(a) == OrOne(n[a])
<1>1. \A a \in Axis5 : m(a) \in Nat \ {0}
  BY DEF OrOne, Layouts
<1>2. m(0) \in Nat \ {0} /\ m(1) \in Nat \ {0} /\ m(2) \in Nat \ {0}
      /\ m(3) \in Nat \ {0} /\ m(4) \in Nat \ {0}
  BY <1>1 DEF Axis5
<1>3. \A x, y \in Nat \ {0} : x * y \in Nat \ {0}
  OBVIOUS
<1>4. \A x, y, z \in Nat : x * (y * z) = (x * y) * z
  OBVIOUS
<1>5. /\ Run(n, 4) = 1 /\ Run(n, 3) = m(4) /\ Run(n, 2) = m(3) * m(4)
      /\ Run(n, 1) = m(2) * m(3) * m(4) /\ Run(n, 0) = m(1) * m(2) * m(3) * m(4)
      /\ Volume(n) = m(0) * m(1) * m(2) * m(3) * m(4)
  <2> HIDE DEF m
  <2>1. \A x \in Nat : x * 1 = x /\ 1 * x = x
    OBVIOUS
  <2>2. /\ m(0) * m(1) \in Nat /\ m(1) * m(2) \in Nat /\ m(2) * m(3) \in Nat /\ m(3) * m(4) \in Nat
        /\ m(0) * m(1) * m(2) \in Nat /\ m(1) * m(2) * m(3) \in Nat
        /\ m(2) * m(3) * m(4) \in Nat
        /\ m(0) * m(1) * m(2) * m(3) \in Nat /\ m(1) * m(2) * m(3) * m(4) \in Nat
    BY <1>2, <1>3
  <2>3. Run(n, 4) = 1
    BY DEF Run
  <2>4. Run(n, 3) = m(4)
    BY <1>2, <2>1 DEF Run, m
  <2>5. Run(n, 2) = m(3) * m(4)
    BY <1>2, <2>1, <2>2 DEF Run, m
  <2>6. Run(n, 1) = m(2) * m(3) * m(4)
    BY <1>2, <2>1, <2>2 DEF Run, m
  <2>7. Run(n, 0) = m(1) * m(2) * m(3) * m(4)
    BY <1>2, <2>1, <2>2 DEF Run, m
  <2>8. Volume(n) = m(0) * m(1) * m(2) * m(3) * m(4)
    BY <1>2, <2>1, <2>2 DEF Run, Volume, m
  <2> QED
    BY <2>3, <2>4, <2>5, <2>6, <2>7, <2>8
<1> HIDE DEF m
<1>6. /\ m(2) * m(3) * m(4) = m(2) * (m(3) * m(4))
      /\ m(1) * m(2) * m(3) * m(4) = m(1) * (m(2) * m(3) * m(4))
      /\ m(0) * m(1) * m(2) * m(3) * m(4) = m(0) * (m(1) * m(2) * m(3) * m(4))
  BY <1>2
<1>7. /\ m(3) * m(4) \in Nat \ {0} /\ m(2) * m(3) * m(4) \in Nat \ {0}
      /\ m(1) * m(2) * m(3) * m(4) \in Nat \ {0}
  BY <1>2, <1>3
<1>8. \A a \in Axis5 : Run(n, a) \in Nat \ {0}
  <2>1. \A a \in Axis5 : a = 0 \/ a = 1 \/ a = 2 \/ a = 3 \/ a = 4
    BY DEF Axis5
  <2> QED
    BY <1>2, <1>5, <1>7, <2>1
<1>9. m(4) * 1 = m(4)
  BY <1>2
<1> QED
  BY <1>1, <1>5, <1>6, <1>8, <1>9 DEF m

(* Indices, and the number they stand for.                                 *)
LEMMA IndicesOfLinear ==
  ASSUME NEW n \in Layouts, NEW x \in Indices(n)
  PROVE  /\ Linearize(n, x) \in 0 .. Volume(n) - 1
         /\ \A a \in Axis5 : ToIndices(n, Linearize(n, x))[a] = IF n[a] = 0 THEN 0 ELSE x[a]
<1> DEFINE m(a) == OrOne(n[a])
           R(a) == Run(n, a)
           i(a) == IF n[a] = 0 THEN 0 ELSE x[a]
           t4 == R(4) * i(4) + 0
           t3 == R(3) * i(3) + t4
           t2 == R(2) * i(2) + t3
           t1 == R(1) * i(1) + t2
           t0 == R(0) * i(0) + t1
           L == Linearize(n, x)
           q0 == m(0) * 0 + i(0)
           q1 == m(1) * q0 + i(1)
           q2 == m(2) * q1 + i(2)
           q3 == m(3) * q2 + i(3)
           q4 == m(4) * q3 + i(4)
<1>1. \A a \in Axis5 : m(a) \in Nat \ {0} /\ R(a) \in Nat \ {0}
  BY RunFacts
<1>2. /\ R(4) = 1 /\ R(3) = m(4) * R(4) /\ R(2) = m(3) * R(3) /\ R(1) = m(2) * R(2)
      /\ R(0) = m(1) * R(1) /\ Volume(n) = m(0) * R(0)
  BY RunFacts
<1>3. \A a \in Axis5 : i(a) \in 0 .. m(a) - 1
  BY DEF Indices, Layouts, OrOne
<1>4. \A a \in Axis5 : Along(n, x, a) = R(a) * i(a) /\ R(a) * i(a) \in Nat
  <2> TAKE a \in Axis5
  <2>1. R(a) \in Nat /\ x[a] \in Nat /\ n[a] \in Nat
    BY <1>1 DEF Indices, Layouts
  <2>2. R(a) * 0 = 0 /\ R(a) * x[a] = x[a] * R(a) /\ R(a) * x[a] \in Nat
    BY <2>1
  <2> QED
    BY <2>2 DEF Along
<1>5. 0 \in Axis5 /\ 1 \in Axis5 /\ 2 \in Axis5 /\ 3 \in Axis5 /\ 4 \in Axis5
  BY DEF Axis5
<1> HIDE DEF m, R, i
<1>6. L = t0
  <2> DEFINE A(a) == R(a) * i(a)
  <2>1. Linearize(n, x) = A(0) + A(1) + A(2) + A(3) + A(4)
    BY <1>4, <1>5 DEF Linearize
  <2>2. t0 = A(0) + (A(1) + (A(2) + (A(3) + (A(4) + 0))))
    OBVIOUS
  <2>3. A(0) \in Nat /\ A(1) \in Nat /\ A(2) \in Nat /\ A(3) \in Nat /\ A(4) \in Nat
    BY <1>4, <1>5
  <2> HIDE DEF A, t0
  <2> QED
    BY <2>1, <2>2, <2>3
<1> HIDE DEF L
<1>7. /\ t4 \in 0 .. R(3) - 1 /\ t3 \in 0 .. R(2) - 1 /\ t2 \in 0 .. R(1) - 1
      /\ t1 \in 0 .. R(0) - 1 /\ t0 \in 0 .. Volume(n) - 1
  <2>1. ASSUME NEW a \in Axis5, NEW t \in 0 .. R(a) - 1
        PROVE  R(a) * i(a) + t \in 0 .. m(a) * R(a) - 1
    BY <1>1, <1>3, DivInRange
  <2>2. 0 \in 0 .. R(4) - 1
    BY <1>2
  <2> HIDE DEF t4, t3, t2, t1, t0
  <2>3. t4 \in 0 .. R(3) - 1
    BY <1>2, <1>5, <2>1, <2>2 DEF t4
  <2>4. t3 \in 0 .. R(2) - 1
    BY <1>2, <1>5, <2>1, <2>3 DEF t3
  <2>5. t2 \in 0 .. R(1) - 1
    BY <1>2, <1>5, <2>1, <2>4 DEF t2
  <2>6. t1 \in 0 .. R(0) - 1
    BY <1>2, <1>5, <2>1, <2>5 DEF t1
  <2>7. t0 \in 0 .. Volume(n) - 1
    BY <1>2, <1>5, <2>1, <2>6 DEF t0
  <2> QED
    BY <2>3, <2>4, <2>5, <2>6, <2>7
<1>8. ASSUME NEW a \in Axis5, NEW q \in Nat, NEW t \in 0 .. R(a) - 1, NEW W,
             W = m(a) * R(a), L = W * q + (R(a) * i(a) + t)
      PROVE  /\ m(a) * q + i(a) \in Nat
             /\ L = R(a) * (m(a) * q + i(a)) + t
             /\ (L \div R(a)) % m(a) = i(a)
  <2> DEFINE mm == m(a)
             rr == R(a)
             ii == i(a)
  <2>1. mm \in Nat \ {0} /\ rr \in Nat \ {0} /\ ii \in 0 .. mm - 1 /\ t \in 0 .. rr - 1
    BY <1>1, <1>3, <1>8
  <2>2. L = (mm * rr) * q + (rr * ii + t)
    BY <1>8
  <2> HIDE DEF mm, rr, ii
  <2>3. HasDigits(rr, mm, q, ii, t, L)
    BY <1>8, <2>1, <2>2 DEF HasDigits
  <2>4. mm * q + ii \in Nat /\ L = rr * (mm * q + ii) + t /\ (L \div rr) % mm = ii
    BY <1>8, <2>1, <2>3, DigitOf
  <2> QED
    BY <2>4 DEF mm, rr, ii
<1> HIDE DEF t4, t3, t2, t1, t0
<1>9. L = Volume(n) * 0 + t0
  BY <1>1, <1>2, <1>5, <1>6, <1>7
<1>10. q0 \in Nat /\ L = R(0) * q0 + t1 /\ (L \div R(0)) % m(0) = i(0)
  BY <1>2, <1>5, <1>7, <1>8, <1>9 DEF t0
<1> HIDE DEF q0
<1>11. q1 \in Nat /\ L = R(1) * q1 + t2 /\ (L \div R(1)) % m(1) = i(1)
  BY <1>2, <1>5, <1>7, <1>8, <1>10 DEF t1
<1> HIDE DEF q1
<1>12. q2 \in Nat /\ L = R(2) * q2 + t3 /\ (L \div R(2)) % m(2) = i(2)
  BY <1>2, <1>5, <1>7, <1>8, <1>11 DEF t2
<1> HIDE DEF q2
<1>13. q3 \in Nat /\ L = R(3) * q3 + t4 /\ (L \div R(3)) % m(3) = i(3)
  BY <1>2, <1>5, <1>7, <1>8, <1>12 DEF t3
<1> HIDE DEF q3
<1>14. (L \div R(4)) % m(4) = i(4)
  BY <1>2, <1>5, <1>8, <1>13 DEF t4
<1>15. \A a \in Axis5 : (L \div R(a)) % m(a) = i(a)
  <2>1. \A a \in Axis5 : a = 0 \/ a = 1 \/ a = 2 \/ a = 3 \/ a = 4
    BY DEF Axis5
  <2> QED
    BY <1>10, <1>11, <1>12, <1>13, <1>14, <2>1
<1>16. ASSUME NEW a \in Axis5
       PROVE  ToIndices(n, L)[a] = i(a)
  <2>1. CASE n[a] = 0
    <3>1. L \in Int /\ L \div 1 \in Int
      BY <1>6, <1>7
    <3>2. (L \div 1) % 1 = 0
      BY <3>1
    <3> QED
      BY <2>1, <3>2 DEF ToIndices, OrOne, i
  <2>2. CASE n[a] # 0
    BY <1>15, <2>2 DEF ToIndices, R, m
  <2> QED
    BY <2>1, <2>2
<1> QED
  BY <1>6, <1>7, <1>16 DEF L, i

(* A number, and the indices it stands for.                                *)
LEMMA LinearOfIndices ==
  ASSUME NEW n \in Layouts, NEW id \in 0 .. Volume(n) - 1
  PROVE  /\ ToIndices(n, id) \in Indices(n)
         /\ Linearize(n, ToIndices(n, id)) = id
<1> DEFINE m(a) == OrOne(n[a])
           R(a) == Run(n, a)
           i(a) == (id \div R(a)) % m(a)
           x == ToIndices(n, id)
<1>1. \A a \in Axis5 : m(a) \in Nat \ {0} /\ R(a) \in Nat \ {0} /\ n[a] \in Nat
  BY RunFacts DEF Layouts
<1>2. /\ R(4) = 1 /\ R(3) = m(4) * R(4) /\ R(2) = m(3) * R(3) /\ R(1) = m(2) * R(2)
      /\ R(0) = m(1) * R(1) /\ Volume(n) = m(0) * R(0)
  BY RunFacts
<1>3. id \in Nat /\ Volume(n) \in Nat \ {0} /\ id < Volume(n)
  <2>1. 0 \in Axis5
    BY DEF Axis5
  <2>2. m(0) * R(0) \in Nat
    BY <1>1, <2>1
  <2> QED
    BY <1>2, <2>2
<1>4. \A a \in Axis5 : i(a) \in 0 .. m(a) - 1
                       /\ id % (m(a) * R(a)) = R(a) * i(a) + (id % R(a))
  BY <1>1, <1>3, DigitsOf
<1>5. \A a \in Axis5 : n[a] # 0 => m(a) = n[a]
  BY DEF OrOne
<1>6. \A a \in Axis5 : n[a] = 0 => m(a) = 1
  BY DEF OrOne
<1>7. \A a \in Axis5 : x[a] = IF n[a] = 0 THEN 0 ELSE i(a)
  <2> TAKE a \in Axis5
  <2>1. CASE n[a] = 0
    <3>1. id \div 1 \in Int
      BY <1>3
    <3>2. (id \div 1) % 1 = 0
      BY <3>1
    <3> QED
      BY <2>1, <3>2 DEF ToIndices, OrOne
  <2>2. CASE n[a] # 0
    BY <2>2 DEF ToIndices
  <2> QED
    BY <2>1, <2>2
<1>8. DOMAIN x = Axis5 /\ x = [a \in Axis5 |-> x[a]]
  BY DEF ToIndices
<1> HIDE DEF m, R, i, x
<1>9. \A a \in Axis5 : x[a] \in Nat /\ (n[a] # 0 => x[a] < n[a]) /\ x[a] = i(a)
  <2> TAKE a \in Axis5
  <2>1. i(a) \in 0 .. m(a) - 1 /\ m(a) \in Nat /\ n[a] \in Nat
    BY <1>1, <1>4
  <2>2. CASE n[a] = 0
    BY <1>6, <1>7, <2>1, <2>2
  <2>3. CASE n[a] # 0
    BY <1>5, <1>7, <2>1, <2>3
  <2> QED
    BY <2>2, <2>3
<1>10. x \in Indices(n)
  BY <1>8, <1>9 DEF Indices
<1>11. \A a \in Axis5 : Along(n, x, a) = R(a) * i(a) /\ R(a) * i(a) \in Nat
  <2> TAKE a \in Axis5
  <2>1. R(a) \in Nat /\ x[a] \in Nat
    BY <1>1, <1>9
  <2>2. R(a) * 0 = 0 /\ R(a) * x[a] = x[a] * R(a) /\ R(a) * x[a] \in Nat
    BY <2>1
  <2>3. Along(n, x, a) = R(a) * x[a]
    BY <1>7, <2>2 DEF Along, R
  <2> QED
    BY <1>9, <2>2, <2>3
<1>12. 0 \in Axis5 /\ 1 \in Axis5 /\ 2 \in Axis5 /\ 3 \in Axis5 /\ 4 \in Axis5
  BY DEF Axis5
<1>13. id % Volume(n) = id
  BY <1>3
<1>14. id % R(4) = 0
  BY <1>2, <1>3
<1> DEFINE A(a) == R(a) * i(a)
           r(a) == id % R(a)
<1>15. /\ A(0) \in Nat /\ A(1) \in Nat /\ A(2) \in Nat /\ A(3) \in Nat /\ A(4) \in Nat
       /\ Linearize(n, x) = A(0) + A(1) + A(2) + A(3) + A(4)
  BY <1>11, <1>12 DEF Linearize
<1>16. /\ id = A(0) + r(0) /\ r(0) = A(1) + r(1) /\ r(1) = A(2) + r(2)
       /\ r(2) = A(3) + r(3) /\ r(3) = A(4) + 0
  BY <1>2, <1>4, <1>12, <1>13, <1>14
<1> HIDE DEF A, r
<1>17. Linearize(n, x) = id
  BY <1>3, <1>15, <1>16
<1> QED
  BY <1>10, <1>17 DEF x

-----------------------------------------------------------------------------
(* The spaces of PartitionSpace.                                           *)

(* The layout of a space has the axes of that space.                       *)
LEMMA SpaceLayout ==
  ASSUME NEW space \in Space
  PROVE  /\ LocalLayout(space) \in Layouts
         /\ \A a \in Axis5 : /\ LocalLayout(space)[a] # 0 <=> a \in AxesOf[space]
                             /\ LocalLayout(space)[a] # 0 =>
                                  LocalLayout(space)[a] = LocalLayout("PQR")[a]
<1>1. "PQR" \in Space /\ AxesOf["PQR"] = Axis5
  BY DEF Space, AxesOf
<1>2. \A a \in Axis5 : NumLocal[a] \in Nat \ {0}
  BY LocalAssumption
<1> QED
  BY <1>1, <1>2 DEF LocalLayout, Layouts

(* A subdomain's coordinates are within the layout of every space.         *)
LEMMA CoordFacts ==
  ASSUME NEW space \in Space, NEW s \in LocalSdom
  PROVE  /\ SdomIdToCoord(s) \in Indices(LocalLayout(space))
         /\ Linearize(LocalLayout("PQR"), SdomIdToCoord(s)) = s
<1>1. "PQR" \in Space
  BY DEF Space, AxesOf
<1>2. /\ SdomIdToCoord(s) \in Indices(LocalLayout("PQR"))
      /\ Linearize(LocalLayout("PQR"), SdomIdToCoord(s)) = s
  BY <1>1, SpaceLayout, LinearOfIndices DEF LocalSdom, NumSubdomains, SdomIdToCoord
<1>3. SdomIdToCoord(s) \in Indices(LocalLayout(space))
  BY <1>2, SpaceLayout DEF Indices
<1> QED
  BY <1>2, <1>3

(* In a layout of one dimension, indices are their number.                 *)
LEMMA OneDimension ==
  ASSUME NEW n \in Layouts, NEW x \in [Axis5 -> Nat], NEW b \in Axis5,
         n[b] # 0, \A a \in Axis5 : a # b => n[a] = 0
  PROVE  Linearize(n, x) = x[b] /\ Volume(n) = n[b]
<1>1. /\ 0 \in Axis5 /\ 1 \in Axis5 /\ 2 \in Axis5 /\ 3 \in Axis5 /\ 4 \in Axis5
      /\ \A a \in Axis5 : a = 0 \/ a = 1 \/ a = 2 \/ a = 3 \/ a = 4
  BY DEF Axis5
<1>2. n[b] \in Nat \ {0} /\ x[b] \in Nat
  BY DEF Layouts
<1>3. Run(n, b) = 1
  BY <1>1 DEF Run, OrOne
<1>4. Along(n, x, b) = x[b]
  BY <1>2, <1>3 DEF Along
<1>5. \A a \in Axis5 : a # b => Along(n, x, a) = 0
  BY DEF Along
<1>6. Linearize(n, x) = x[b]
  BY <1>1, <1>2, <1>4, <1>5 DEF Linearize
<1> DEFINE o(a) == OrOne(n[a])
<1>7. /\ \A a \in Axis5 : a # b => o(a) = 1
      /\ o(b) = n[b]
  BY DEF OrOne
<1>8. Volume(n) = o(0) * o(1) * o(2) * o(3) * o(4)
  BY <1>1 DEF Volume, Run
<1> HIDE DEF o
<1>9. o(0) * o(1) * o(2) * o(3) * o(4) = n[b]
  <2>1. CASE b = 0
    BY <1>1, <1>2, <1>7, <2>1
  <2>2. CASE b = 1
    BY <1>1, <1>2, <1>7, <2>2
  <2>3. CASE b = 2
    BY <1>1, <1>2, <1>7, <2>3
  <2>4. CASE b = 3
    BY <1>1, <1>2, <1>7, <2>4
  <2>5. CASE b = 4
    BY <1>1, <1>2, <1>7, <2>5
  <2> QED
    BY <1>1, <2>1, <2>2, <2>3, <2>4, <2>5
<1> QED
  BY <1>6, <1>8, <1>9

-----------------------------------------------------------------------------
(* The calls of the program.                                               *)

(* The calls, one by one.                                                  *)
LEMMA Calls ==
  /\ Program[1] = Reduce("P")
  /\ Program[2] = Prefix("P")
  /\ Program[3] = Reduce("Q")
  /\ Program[4] = Prefix("Q")
  /\ Program[5] = Reduce("RX")
  /\ Program[6] = Prefix("RX")
  /\ Program[7] = Reduce("RY")
  /\ Program[8] = Prefix("RY")
  /\ Program[9] = Reduce("RZ")
  /\ Program[10] = Prefix("RZ")
  /\ Program[11] = Reduce("R")
  /\ Program[12] = Prefix("R")
  /\ Program[13] = Reduce("PR")
  /\ Program[14] = Prefix("PR")
  /\ Program[15] = Reduce("PQR")
  /\ Program[16] = Prefix("PQR")
  /\ Program[17] = Reduce("NULL")
  /\ Program[18] = Prefix("NULL")
  /\ Program[19] = Reduce("SdomId")
  /\ Program[20] = Prefix("SdomId")
  /\ Program[21] = [op |-> "owner", of |-> "PQR"]
  /\ Program[22] = [op |-> "local", of |-> "PQR"]
  /\ Program[23] = Reduce("Group")
  /\ Program[24] = Prefix("Group")
  /\ Program[25] = Reduce("Direction")
  /\ Program[26] = Prefix("Direction")
  /\ Program[27] = Reduce("ZoneI")
  /\ Program[28] = Prefix("ZoneI")
  /\ Program[29] = Reduce("ZoneJ")
  /\ Program[30] = Prefix("ZoneJ")
  /\ Program[31] = Reduce("ZoneK")
  /\ Program[32] = Prefix("ZoneK")
  /\ Program[33] = Reduce("MixElem")
  /\ Program[34] = Prefix("MixElem")
  /\ DOMAIN Program = 1 .. 34
  /\ Len(Program) = 34
BY DEF Program

(* What a call says of itself.                                             *)
LEMMA CallFields ==
  /\ \A x : /\ Reduce(x).op = "reduce" /\ Reduce(x).of = x
            /\ Prefix(x).op = "scan" /\ Prefix(x).of = x
  /\ [op |-> "owner", of |-> "PQR"].op = "owner"
  /\ [op |-> "local", of |-> "PQR"].op = "local"
BY DEF Reduce, Prefix

(* A call counts a space, the subdomains or a set, and each scan follows   *)
(* the reduction of the same counter; the tables come after the spaces.    *)
LEMMA CallKinds ==
  ASSUME NEW n \in 1 .. 34
  PROVE  \/ \E x \in Space : Program[n] = Reduce(x)
         \/ \E x \in Space : Program[n] = Prefix(x) /\ n > 1 /\ Program[n - 1] = Reduce(x)
         \/ Program[n] = Reduce("SdomId")
         \/ Program[n] = Prefix("SdomId") /\ n > 1 /\ Program[n - 1] = Reduce("SdomId")
         \/ Program[n] = [op |-> "owner", of |-> "PQR"] /\ n > 20
         \/ Program[n] = [op |-> "local", of |-> "PQR"] /\ n > 21
         \/ \E x \in DOMAIN SetSpace : Program[n] = Reduce(x) /\ n > 20
         \/ \E x \in DOMAIN SetSpace : Program[n] = Prefix(x) /\ n > 21 /\ Program[n - 1] = Reduce(x)
<1>1. {"P", "Q", "RX", "RY", "RZ", "R", "PR", "PQR", "NULL"} = Space
  BY DEF Space, AxesOf
<1>2. {"Group", "Direction", "ZoneI", "ZoneJ", "ZoneK", "MixElem"} = DOMAIN SetSpace
  BY DEF SetSpace
<1>3. CASE n < 12
  BY <1>1, <1>3, Calls
<1>4. CASE 12 <= n /\ n < 23
  BY <1>1, <1>4, Calls
<1>5. CASE 23 <= n
  BY <1>2, <1>5, Calls
<1> QED
  BY <1>3, <1>4, <1>5

(* All calls of the spaces come before the tables and the sets.            *)
LEMMA SpacesFirst ==
  /\ \A x \in Space : \E n \in 1 .. 20 : Program[n] = Reduce(x)
  /\ \A x \in Space : \E n \in 1 .. 20 : Program[n] = Prefix(x)
  /\ \E n \in 1 .. 20 : Program[n] = Reduce("SdomId")
<1>1. {"P", "Q", "RX", "RY", "RZ", "R", "PR", "PQR", "NULL"} = Space
  BY DEF Space, AxesOf
<1>2. \A x \in Space : \E n \in 1 .. 20 : Program[n] = Reduce(x)
  BY <1>1, Calls
<1>3. \A x \in Space : \E n \in 1 .. 20 : Program[n] = Prefix(x)
  BY <1>1, Calls
<1> QED
  BY <1>2, <1>3, Calls

(* Where a rank is behind a call, it has returned from it.                 *)
LEMMA Behind ==
  /\ \A set \in DOMAIN SetSpace :
       \E n \in 22 .. 34 : After("scan", set) = n + 1 /\ Program[n] = Prefix(set)
                           /\ Program[n - 1] = Reduce(set)
  /\ \E n \in 22 .. 34 : After("local", "PQR") = n + 1
                         /\ Program[n] = [op |-> "local", of |-> "PQR"]
<1>1. ASSUME NEW op \in {"scan", "local"}, NEW x,
             \E n \in 1 .. 34 : Program[n] = [op |-> op, of |-> x]
      PROVE  \E n \in 1 .. 34 : After(op, x) = n + 1 /\ Program[n] = [op |-> op, of |-> x]
  BY <1>1, Calls DEF After
<1>2. ASSUME NEW set \in DOMAIN SetSpace
      PROVE  \E n \in 22 .. 34 : After("scan", set) = n + 1 /\ Program[n] = Prefix(set)
                                 /\ Program[n - 1] = Reduce(set)
  <2>1. {"Group", "Direction", "ZoneI", "ZoneJ", "ZoneK", "MixElem"} = DOMAIN SetSpace
    BY DEF SetSpace
  <2>2. \E n \in 1 .. 34 : Program[n] = Prefix(set)
    BY <2>1, Calls
  <2>3. PICK n \in 1 .. 34 : After("scan", set) = n + 1 /\ Program[n] = Prefix(set)
    BY <1>1, <2>2 DEF Prefix
  <2>4. set \notin Space /\ set # "SdomId"
    BY <2>1 DEF Space, AxesOf
  <2>5. n > 21 /\ Program[n - 1] = Reduce(set)
    <3>1. \A x : (Program[n] = Prefix(x) => x = set) /\ Program[n] # Reduce(x)
      BY <2>3, CallFields
    <3>2. Program[n] # [op |-> "owner", of |-> "PQR"] /\ Program[n] # [op |-> "local", of |-> "PQR"]
      BY <2>3, CallFields
    <3> QED
      BY <2>4, <3>1, <3>2, CallKinds
  <2> QED
    BY <2>3, <2>5
<1>3. \E n \in 22 .. 34 : After("local", "PQR") = n + 1
                          /\ Program[n] = [op |-> "local", of |-> "PQR"]
  <2>1. PICK n \in 1 .. 34 : After("local", "PQR") = n + 1
                             /\ Program[n] = [op |-> "local", of |-> "PQR"]
    BY <1>1, Calls
  <2>2. n > 21
    BY <2>1, CallKinds, CallFields
  <2> QED
    BY <2>1, <2>2
<1> QED
  BY <1>2, <1>3

-----------------------------------------------------------------------------
(* Communicators.                                                          *)

(* A rank is a place in the layout of the ranks.                           *)
LEMMA RankFacts ==
  ASSUME NEW r \in Rank
  PROVE  /\ NumProcs \in Layouts
         /\ CoordOf(r) \in Indices(NumProcs)
         /\ Linearize(NumProcs, CoordOf(r)) = r
         /\ \A a \in Axis5 : /\ NumProcs[a] \in Nat \ {0}
                             /\ CoordOf(r)[a] \in 0 .. NumProcs[a] - 1
<1>1. NumProcs \in Layouts /\ \A a \in Axis5 : NumProcs[a] \in Nat \ {0}
  BY PartitionAssumption DEF Layouts
<1>2. CoordOf(r) \in Indices(NumProcs) /\ Linearize(NumProcs, CoordOf(r)) = r
  BY <1>1, LinearOfIndices DEF Rank, CoordOf
<1> QED
  BY <1>1, <1>2 DEF Indices

(* There are as many ranks as places.                                      *)
LEMMA RankType ==
  /\ IsFiniteSet(Rank) /\ Rank \subseteq Nat
  /\ Volume(NumProcs) \in Nat \ {0} /\ Cardinality(Rank) = Volume(NumProcs)
<1>1. NumProcs \in Layouts
  BY PartitionAssumption DEF Layouts
<1>2. Volume(NumProcs) \in Nat \ {0}
  <2>1. OrOne(NumProcs[0]) \in Nat \ {0} /\ Run(NumProcs, 0) \in Nat \ {0}
    BY <1>1, RunFacts DEF Axis5
  <2>2. \A x, y \in Nat \ {0} : x * y \in Nat \ {0}
    OBVIOUS
  <2> QED
    BY <1>1, <2>1, <2>2, RunFacts
<1>3. IsFiniteSet(Rank) /\ Cardinality(Rank) = Volume(NumProcs)
  BY <1>2, FS_Interval DEF Rank
<1> QED
  BY <1>2, <1>3 DEF Rank

(* Ranks keep the same number exactly if they agree in the kept axes.      *)
LEMMA KeepFacts ==
  ASSUME NEW axes
  PROVE  /\ \A r \in Rank : Keep(axes, r) \in Nat
         /\ \A q, r \in Rank : Keep(axes, q) = Keep(axes, r)
              <=> \A a \in Axis5 : a \in axes => CoordOf(q)[a] = CoordOf(r)[a]
<1> DEFINE x(r) == [a \in Axis5 |-> IF a \in axes THEN CoordOf(r)[a] ELSE 0]
<1>1. ASSUME NEW r \in Rank
      PROVE  /\ x(r) \in Indices(NumProcs)
             /\ Keep(axes, r) \in Nat
             /\ \A a \in Axis5 : ToIndices(NumProcs, Keep(axes, r))[a] = x(r)[a]
  <2>1. NumProcs \in Layouts /\ \A a \in Axis5 : NumProcs[a] \in Nat \ {0}
    BY RankFacts
  <2>2. x(r) \in Indices(NumProcs)
    BY <2>1, RankFacts DEF Indices
  <2>3. Keep(axes, r) = Linearize(NumProcs, x(r))
    BY DEF Keep
  <2> HIDE DEF x
  <2>4. /\ Linearize(NumProcs, x(r)) \in 0 .. Volume(NumProcs) - 1
        /\ \A a \in Axis5 : ToIndices(NumProcs, Linearize(NumProcs, x(r)))[a]
                              = IF NumProcs[a] = 0 THEN 0 ELSE x(r)[a]
    BY <2>1, <2>2, IndicesOfLinear
  <2> QED
    BY <2>1, <2>2, <2>3, <2>4
<1>2. ASSUME NEW q \in Rank, NEW r \in Rank, Keep(axes, q) = Keep(axes, r), NEW a \in Axis5,
             a \in axes
      PROVE  CoordOf(q)[a] = CoordOf(r)[a]
  <2>1. x(q)[a] = x(r)[a]
    BY <1>1, <1>2
  <2> QED
    BY <1>2, <2>1
<1>3. ASSUME NEW q \in Rank, NEW r \in Rank,
             \A a \in Axis5 : a \in axes => CoordOf(q)[a] = CoordOf(r)[a]
      PROVE  Keep(axes, q) = Keep(axes, r)
  <2>1. x(q) = x(r)
    BY <1>3
  <2> HIDE DEF x
  <2>2. Keep(axes, q) = Linearize(NumProcs, x(q)) /\ Keep(axes, r) = Linearize(NumProcs, x(r))
    BY DEF Keep, x
  <2> QED
    BY <2>1, <2>2
<1> QED
  BY <1>1, <1>2, <1>3

(* The ranks that split puts together.                                     *)
LEMMA MembersAre ==
  \A space \in Space, r \in Rank :
    Members(space, r) = {q \in Rank : Color(space, q) = Color(space, r)}
BY DEF Members, Communicators

(* A communicator has its rank, and is the same for all its ranks; they    *)
(* have different keys.                                                    *)
LEMMA MembersFacts ==
  ASSUME NEW space \in Space, NEW r \in Rank
  PROVE  /\ r \in Members(space, r)
         /\ Members(space, r) \subseteq Rank
         /\ IsFiniteSet(Members(space, r))
         /\ \A q \in Members(space, r) : Members(space, q) = Members(space, r)
         /\ \A q \in Rank : Key(space, q) \in Nat
         /\ \A p, q \in Members(space, r) : Key(space, p) = Key(space, q) => p = q
<1>1. r \in Members(space, r) /\ Members(space, r) \subseteq Rank
      /\ \A q \in Members(space, r) : Members(space, q) = Members(space, r)
  <2> DEFINE Same(q) == {p \in Rank : Color(space, p) = Color(space, q)}
  <2>1. \A q \in Rank : Members(space, q) = Same(q)
    BY MembersAre
  <2>2. r \in Same(r) /\ Same(r) \subseteq Rank /\ \A q \in Same(r) : Same(q) = Same(r)
    OBVIOUS
  <2> HIDE DEF Same
  <2> QED
    BY <2>1, <2>2
<1>2. IsFiniteSet(Members(space, r))
  BY <1>1, RankType, FS_Subset
<1>3. \A q \in Rank : Key(space, q) \in Nat
  BY KeepFacts, RankType DEF Key
<1>4. ASSUME NEW p \in Members(space, r), NEW q \in Members(space, r),
             Key(space, p) = Key(space, q)
      PROVE  p = q
  <2>1. CASE space = "NULL"
    BY <1>4, <2>1 DEF Key
  <2>2. CASE space # "NULL"
    <3>1. p \in Rank /\ q \in Rank /\ Color(space, p) = Color(space, q)
      BY MembersAre
    <3>2. Keep(AxesOf[space], p) = Keep(AxesOf[space], q)
      BY <1>4, <2>2 DEF Key
    <3>3. Keep(Axis5 \ AxesOf[space], p) = Keep(Axis5 \ AxesOf[space], q)
      BY <2>2, <3>1 DEF Color
    <3>4. \A a \in Axis5 : a \in AxesOf[space] => CoordOf(p)[a] = CoordOf(q)[a]
      BY <3>1, <3>2, KeepFacts
    <3>5. \A a \in Axis5 : a \in Axis5 \ AxesOf[space] => CoordOf(p)[a] = CoordOf(q)[a]
      BY <3>1, <3>3, KeepFacts
    <3>6. \A a \in Axis5 : CoordOf(p)[a] = CoordOf(q)[a]
      BY <3>4, <3>5
    <3>7. CoordOf(p) = [a \in Axis5 |-> CoordOf(p)[a]] /\ CoordOf(q) = [a \in Axis5 |-> CoordOf(q)[a]]
      BY DEF CoordOf, ToIndices
    <3>8. CoordOf(p) = CoordOf(q)
      BY <3>6, <3>7
    <3> QED
      BY <3>1, <3>8, RankFacts
  <2> QED
    BY <2>1, <2>2
<1> QED
  BY <1>1, <1>2, <1>3, <1>4

(* All ranks are in the communicator of all dimensions.                    *)
LEMMA AllMembers == \A r \in Rank : Members("PQR", r) = Rank
<1>1. AxesOf["PQR"] = Axis5
  BY DEF AxesOf
<1>2. \A q, r \in Rank : Color("PQR", q) = Color("PQR", r)
  BY <1>1, KeepFacts DEF Color
<1>3. "PQR" \in Space
  BY DEF Space, AxesOf
<1> QED
  BY <1>2, <1>3, MembersAre

(* The members of a communicator that come before r.                       *)
Before(space, r) == {q \in Members(space, r) : Key(space, q) < Key(space, r)}

(* Along one dimension, there is one rank at each coordinate.              *)
LEMMA AlongOne ==
  ASSUME NEW space \in Space, NEW b \in Axis5, AxesOf[space] = {b}, NEW r \in Rank
  PROVE  /\ Cardinality(Members(space, r)) = NumProcs[b]
         /\ Cardinality(Before(space, r)) = CoordOf(r)[b]
<1> DEFINE M == Members(space, r)
           at(i) == [a \in Axis5 |-> IF a = b THEN i ELSE CoordOf(r)[a]]
           f(i) == Linearize(NumProcs, at(i))
           Upto(k) == {q \in M : CoordOf(q)[b] < k}
<1>1. space # "NULL"
  BY DEF AxesOf
<1>2. \A q \in Rank : q \in M <=> \A a \in Axis5 : a # b => CoordOf(q)[a] = CoordOf(r)[a]
  <2>1. M = {q \in Rank : Color(space, q) = Color(space, r)}
    BY MembersAre
  <2> HIDE DEF M
  <2> QED
    BY <1>1, <2>1, KeepFacts DEF Color
<1>3. NumProcs \in Layouts /\ NumProcs[b] \in Nat \ {0} /\ CoordOf(r)[b] \in 0 .. NumProcs[b] - 1
      /\ \A a \in Axis5 : NumProcs[a] # 0
  BY RankFacts
<1>4. ASSUME NEW i \in 0 .. NumProcs[b] - 1
      PROVE  f(i) \in M /\ CoordOf(f(i))[b] = i
  <2>1. at(i) \in Indices(NumProcs)
    BY RankFacts DEF Indices
  <2> HIDE DEF at
  <2>2. f(i) \in Rank /\ \A a \in Axis5 : CoordOf(f(i))[a] = at(i)[a]
    BY <1>3, <2>1, IndicesOfLinear DEF Rank, CoordOf
  <2>3. \A a \in Axis5 : at(i)[a] = IF a = b THEN i ELSE CoordOf(r)[a]
    BY DEF at
  <2> HIDE DEF f, M
  <2> QED
    BY <1>2, <2>2, <2>3
<1>5. ASSUME NEW q \in M
      PROVE  /\ CoordOf(q)[b] \in 0 .. NumProcs[b] - 1
             /\ q = f(CoordOf(q)[b])
  <2>1. q \in Rank /\ M \subseteq Rank
    BY MembersAre
  <2>2. \A a \in Axis5 : CoordOf(q)[a] = at(CoordOf(q)[b])[a]
    BY <1>2, <2>1
  <2>3. CoordOf(q) = [a \in Axis5 |-> CoordOf(q)[a]]
    BY DEF CoordOf, ToIndices
  <2>4. CoordOf(q) = at(CoordOf(q)[b])
    BY <2>2, <2>3
  <2> HIDE DEF at
  <2>5. Linearize(NumProcs, CoordOf(q)) = q /\ CoordOf(q)[b] \in 0 .. NumProcs[b] - 1
    BY <2>1, RankFacts
  <2>6. Linearize(NumProcs, CoordOf(q)) = f(CoordOf(q)[b])
    BY <2>4
  <2> QED
    BY <2>5, <2>6
<1> HIDE DEF f
<1>6. ASSUME NEW k \in 0 .. NumProcs[b]
      PROVE  Cardinality(Upto(k)) = k
  <2> DEFINE g == [i \in 0 .. k - 1 |-> f(i)]
             I == 0 .. k - 1
  <2>1. \A i \in I : i \in 0 .. NumProcs[b] - 1
    BY <1>3
  <2>2. g \in [I -> Upto(k)]
    BY <1>4, <2>1
  <2>3. \A i, j \in I : g[i] = g[j] => i = j
    BY <1>4, <2>1
  <2>4. \A q \in Upto(k) : \E i \in I : g[i] = q
    <3> TAKE q \in Upto(k)
    <3>1. q \in M /\ CoordOf(q)[b] < k
      OBVIOUS
    <3>2. CoordOf(q)[b] \in I /\ q = f(CoordOf(q)[b])
      BY <1>5, <3>1
    <3> QED
      BY <3>2
  <2> HIDE DEF g, I, Upto
  <2>5. g \in Bijection(I, Upto(k))
    BY <2>2, <2>3, <2>4 DEF Bijection, Injection, Surjection, IsInjective
  <2>6. ExistsBijection(I, Upto(k))
    BY <2>5 DEF ExistsBijection
  <2>7. IsFiniteSet(I) /\ Cardinality(I) = k
    BY FS_Interval DEF I
  <2> QED
    BY <2>6, <2>7, FS_Bijection
<1>7. M = Upto(NumProcs[b])
  <2>1. \A q \in M : CoordOf(q)[b] < NumProcs[b]
    BY <1>3, <1>5
  <2> QED
    BY <2>1
<1>8. Before(space, r) = Upto(CoordOf(r)[b])
  <2>1. ASSUME NEW q \in Rank
        PROVE  Key(space, q) = CoordOf(q)[b] * Run(NumProcs, b)
    <3> DEFINE x == [a \in Axis5 |-> IF a \in {b} THEN CoordOf(q)[a] ELSE 0]
    <3>1. Key(space, q) = Linearize(NumProcs, x)
      BY <1>1 DEF Key, Keep
    <3>2. \A a \in Axis5 : Run(NumProcs, a) \in Nat /\ NumProcs[a] # 0
      BY <1>3, RunFacts
    <3>3. \A a \in Axis5 : x[a] = IF a = b THEN CoordOf(q)[b] ELSE 0
      OBVIOUS
    <3>4. CoordOf(q)[b] * Run(NumProcs, b) \in Nat
      <4>1. CoordOf(q)[b] \in Nat
        BY RankFacts
      <4> QED
        BY <3>2, <4>1
    <3> HIDE DEF x
    <3>5. Along(NumProcs, x, b) = CoordOf(q)[b] * Run(NumProcs, b)
      BY <3>2, <3>3 DEF Along
    <3>6. \A a \in Axis5 : a # b => Along(NumProcs, x, a) = 0
      BY <3>2, <3>3 DEF Along
    <3>7. /\ 0 \in Axis5 /\ 1 \in Axis5 /\ 2 \in Axis5 /\ 3 \in Axis5 /\ 4 \in Axis5
          /\ \A a \in Axis5 : a = 0 \/ a = 1 \/ a = 2 \/ a = 3 \/ a = 4
      BY DEF Axis5
    <3> QED
      BY <3>1, <3>4, <3>5, <3>6, <3>7 DEF Linearize
  <2>2. Run(NumProcs, b) \in Nat \ {0}
    BY <1>3, RunFacts
  <2>3. \A x, y \in Nat, k \in Nat \ {0} : x * k < y * k <=> x < y
    <3>1. ASSUME NEW x \in Nat, NEW y \in Nat, NEW k \in Nat \ {0}, x < y
          PROVE  x * k < y * k
      <4>1. k * x + k <= k * y
        BY <3>1, Apart
      <4> QED
        BY <4>1
    <3>2. ASSUME NEW x \in Nat, NEW y \in Nat, NEW k \in Nat \ {0}, x * k < y * k
          PROVE  x < y
      <4>1. x = y \/ x < y \/ y < x
        OBVIOUS
      <4>2. ~ y < x
        BY <3>1, <3>2
      <4> QED
        BY <3>2, <4>1, <4>2
    <3> QED
      BY <3>1, <3>2
  <2>4. \A q \in M : q \in Rank /\ CoordOf(q)[b] \in Nat
    BY RankFacts, MembersAre
  <2>5. r \in Rank /\ CoordOf(r)[b] \in Nat
    BY RankFacts
  <2>6. \A q \in M : Key(space, q) < Key(space, r) <=> CoordOf(q)[b] < CoordOf(r)[b]
    BY <2>1, <2>2, <2>3, <2>4, <2>5
  <2> QED
    BY <2>6 DEF Before
<1> HIDE DEF M, Upto
<1>9. Cardinality(M) = NumProcs[b]
  <2>1. NumProcs[b] \in 0 .. NumProcs[b]
    BY <1>3
  <2> QED
    BY <1>6, <1>7, <2>1
<1>10. Cardinality(Before(space, r)) = CoordOf(r)[b]
  <2>1. CoordOf(r)[b] \in 0 .. NumProcs[b]
    BY <1>3
  <2> QED
    BY <1>6, <1>8, <2>1
<1> QED
  BY <1>9, <1>10 DEF M

-----------------------------------------------------------------------------
(* What the calls should return.                                           *)

(* How many chunks of a space the ranks of a communicator have.            *)
SpaceTotal(r, space) == Cardinality(Members(space, r)) * NumSubdomains(space)

(* How many elements a chunk of a set should have.                         *)
SizeOf(pr, q, set, c) ==
  IF set = "MixElem" THEN NumMixed[q][c] ELSE pr[set] \div SpaceTotal(q, SetSpace[set])

(* What rank q contributes to a call for x.                                *)
TotalOf(pr, q, x) ==
  IF x \in DOMAIN SetSpace
    THEN SumFunction([c \in Chunks(SetSpace[x]) |-> SizeOf(pr, q, x, c)])
    ELSE NumSubdomains(SpaceOf(x))

(* What the reduction for x should return.                                 *)
GlobalOf(pr, r, x) == SumFunction([q \in Members(SpaceOf(x), r) |-> TotalOf(pr, q, x)])

(* What the scan for x should return, less the rank's own share.           *)
LowerOf(pr, r, x) == SumFunction([q \in Before(SpaceOf(x), r) |-> TotalOf(pr, q, x)])

(* The box of all subdomains, and the place of a rank's own ones in it.    *)
Extents == [a \in Axis5 |-> NumProcs[a] * NumLocal[a]]

(* Where subdomain s of rank q is among the subdomains of all ranks.       *)
PlaceOf(q, s) == [a \in Axis5 |-> SdomIdToCoord(s)[a] + CoordOf(q)[a] * NumLocal[a]]

(* Its global id.                                                          *)
IdAt(q, s) == Linearize(Extents, PlaceOf(q, s))

(* The sets that have to divide by their ranks and chunks.                 *)
ZoneSets == {"ZoneI", "ZoneJ", "ZoneK"}

(* One entry for every subdomain there is.                                 *)
TableSize == Cardinality(Rank) * NumSubdomains("PQR")

(* A table has an entry for every global id, and no other.                 *)
IsTable(table) == table = [id \in 0 .. TableSize - 1 |-> table[id]]

(* What rank r has once call n of the program is behind it.                *)
Returned(r, n) ==
  LET x == Program[n].of
  IN  /\ Program[n].op = "reduce" =>
           /\ global[r][x] = GlobalOf(problem, r, x)
           /\ x \in ZoneSets =>
                (problem[x] \div SpaceTotal(r, SetSpace[x])) * SpaceTotal(r, SetSpace[x]) = problem[x]
      /\ Program[n].op = "scan" => lower[r][x] = LowerOf(problem, r, x)
      /\ Program[n].op = "owner" =>
           /\ IsTable(owner[r])
           /\ \A q \in Rank, s \in LocalSdom : owner[r][IdAt(q, s)] = q
      /\ Program[n].op = "local" =>
           /\ IsTable(localId[r])
           /\ \A q \in Rank, s \in LocalSdom : localId[r][IdAt(q, s)] = s

(* What a rank has returned with is what all ranks together make it, no    *)
(* matter which of them are how far.                                       *)
PartitionInv ==
  /\ problem \in Problems
  /\ pc \in [Rank -> 0 .. 35]
  /\ global \in [Rank -> [Counted -> Int]]
  /\ lower \in [Rank -> [Counted -> Int]]
  /\ DOMAIN owner = Rank /\ DOMAIN localId = Rank
  /\ \A r \in Rank, n \in 1 .. 34 : n < pc[r] => Returned(r, n)
  /\ \A r, q \in Rank : pc[r] > 21 => pc[q] > 20

-----------------------------------------------------------------------------
(* Spaces, sets and the subdomain ids are different counters.              *)
LEMMA SetSpaceFacts ==
  /\ DOMAIN SetSpace = {"Group", "Direction", "ZoneI", "ZoneJ", "ZoneK", "MixElem"}
  /\ \A set \in DOMAIN SetSpace : SetSpace[set] \in Space /\ set \in Counted /\ set \notin Space
                                  /\ SpaceOf(set) = SetSpace[set] /\ set # "SdomId"
  /\ \A x \in Counted : SpaceOf(x) \in Space
  /\ \A x \in Space : x \in Counted /\ SpaceOf(x) = x /\ x \notin DOMAIN SetSpace
  /\ "SdomId" \in Counted /\ SpaceOf("SdomId") = "PQR" /\ "SdomId" \notin DOMAIN SetSpace
<1>1. DOMAIN SetSpace = {"Group", "Direction", "ZoneI", "ZoneJ", "ZoneK", "MixElem"}
  BY DEF SetSpace
<1>2. {"P", "Q", "RX", "RY", "RZ", "R", "PR", "PQR", "NULL"} = Space
  BY DEF Space, AxesOf
<1>3. /\ SetSpace["Group"] = "P" /\ SetSpace["Direction"] = "Q" /\ SetSpace["ZoneI"] = "RX"
      /\ SetSpace["ZoneJ"] = "RY" /\ SetSpace["ZoneK"] = "RZ" /\ SetSpace["MixElem"] = "R"
  BY DEF SetSpace
<1>4. \A set \in DOMAIN SetSpace : SetSpace[set] \in Space /\ set \in Counted /\ set \notin Space
                                   /\ set # "SdomId"
  BY <1>1, <1>2, <1>3 DEF Counted
<1>5. \A set \in DOMAIN SetSpace : SpaceOf(set) = SetSpace[set]
  BY <1>4 DEF SpaceOf
<1>6. "SdomId" \notin Space /\ "SdomId" \notin DOMAIN SetSpace /\ "PQR" \in Space
  BY <1>1, <1>2
<1>7. \A x \in Space : x \in Counted /\ SpaceOf(x) = x /\ x \notin DOMAIN SetSpace
  BY <1>4 DEF SpaceOf, Counted
<1>8. "SdomId" \in Counted /\ SpaceOf("SdomId") = "PQR"
  BY <1>6 DEF Counted, SpaceOf
<1>9. \A x \in Counted : SpaceOf(x) \in Space
  BY <1>4, <1>5, <1>7, <1>8, <1>6 DEF Counted
<1> QED
  BY <1>1, <1>4, <1>5, <1>6, <1>7, <1>8, <1>9

(* The chunks of a space.                                                  *)
LEMMA ChunksType ==
  ASSUME NEW space \in Space
  PROVE  /\ NumSubdomains(space) \in Nat \ {0}
         /\ IsFiniteSet(Chunks(space)) /\ Chunks(space) \subseteq Nat
         /\ Cardinality(Chunks(space)) = NumSubdomains(space)
<1>1. LocalLayout(space) \in Layouts
  BY SpaceLayout
<1>2. NumSubdomains(space) \in Nat \ {0}
  <2> DEFINE n == LocalLayout(space)
  <2> HIDE DEF n
  <2>0. n \in Layouts
    BY <1>1 DEF n
  <2>1. OrOne(n[0]) \in Nat \ {0} /\ Run(n, 0) \in Nat \ {0} /\ Volume(n) = OrOne(n[0]) * Run(n, 0)
    BY <2>0, RunFacts DEF Axis5
  <2>2. \A x, y \in Nat \ {0} : x * y \in Nat \ {0}
    OBVIOUS
  <2>3. Volume(n) \in Nat \ {0}
    BY <2>1, <2>2
  <2> QED
    BY <2>3 DEF NumSubdomains, n
<1>3. IsFiniteSet(Chunks(space)) /\ Cardinality(Chunks(space)) = NumSubdomains(space)
  BY <1>2, FS_Interval DEF Chunks
<1> QED
  BY <1>2, <1>3 DEF Chunks

(* A communicator has chunks.                                              *)
LEMMA SpaceTotalType ==
  ASSUME NEW space \in Space, NEW r \in Rank
  PROVE  SpaceTotal(r, space) \in Nat \ {0}
<1>1. Cardinality(Members(space, r)) \in Nat \ {0}
  BY MembersFacts, FS_CardinalityType, FS_EmptySet
<1>2. NumSubdomains(space) \in Nat \ {0}
  BY ChunksType
<1>3. \A x, y \in Nat \ {0} : x * y \in Nat \ {0}
  OBVIOUS
<1> QED
  BY <1>1, <1>2, <1>3 DEF SpaceTotal

(* Sizes are natural numbers.                                              *)
LEMMA SizeType ==
  ASSUME NEW pr \in Problems, NEW q \in Rank, NEW set \in DOMAIN SetSpace,
         NEW c \in Chunks(SetSpace[set])
  PROVE  SizeOf(pr, q, set, c) \in Nat
<1>1. CASE set = "MixElem"
  <2>1. SetSpace[set] = "R"
    BY <1>1 DEF SetSpace
  <2>2. NumMixed[q][c] \in Nat
    BY <2>1, PartitionAssumption
  <2> QED
    BY <1>1, <2>2 DEF SizeOf
<1>2. CASE set # "MixElem"
  <2>1. pr[set] \in Nat
    BY <1>2, SetSpaceFacts, PartitionAssumption
  <2>2. SpaceTotal(q, SetSpace[set]) \in Nat \ {0}
    BY SpaceTotalType, SetSpaceFacts
  <2>3. \A x \in Nat, y \in Nat \ {0} : x \div y \in Nat
    OBVIOUS
  <2> QED
    BY <1>2, <2>1, <2>2, <2>3 DEF SizeOf
<1> QED
  BY <1>1, <1>2

(* So is what a rank contributes.                                          *)
LEMMA TotalType ==
  ASSUME NEW pr \in Problems, NEW q \in Rank, NEW x \in Counted
  PROVE  TotalOf(pr, q, x) \in Nat
<1>1. CASE x \in DOMAIN SetSpace
  <2> DEFINE S == Chunks(SetSpace[x])
             g == [c \in S |-> SizeOf(pr, q, x, c)]
  <2>1. IsFiniteSet(S)
    BY <1>1, SetSpaceFacts, ChunksType
  <2>2. \A c \in S : g[c] \in Nat
    BY <1>1, SizeType
  <2>3. DOMAIN g = S
    OBVIOUS
  <2> HIDE DEF g
  <2>4. SumFunctionOnSet(g, S) \in Nat
    BY <2>1, <2>2, SumNat
  <2>5. SumFunction(g) \in Nat
    BY <2>3, <2>4 DEF SumFunction
  <2> QED
    BY <1>1, <2>5 DEF TotalOf, g
<1>2. CASE x \notin DOMAIN SetSpace
  BY <1>2, SetSpaceFacts, ChunksType DEF TotalOf
<1> QED
  BY <1>1, <1>2

(* So is what a call returns.                                              *)
LEMMA GlobalType ==
  ASSUME NEW pr \in Problems, NEW r \in Rank, NEW x \in Counted
  PROVE  GlobalOf(pr, r, x) \in Nat /\ LowerOf(pr, r, x) \in Nat
<1> DEFINE M == Members(SpaceOf(x), r)
           B == Before(SpaceOf(x), r)
           g == [q \in M |-> TotalOf(pr, q, x)]
           h == [q \in B |-> TotalOf(pr, q, x)]
<1>1. SpaceOf(x) \in Space
  BY SetSpaceFacts
<1>2. IsFiniteSet(M) /\ M \subseteq Rank /\ B \subseteq M
  BY <1>1, MembersFacts DEF Before
<1>3. IsFiniteSet(B)
  BY <1>2, FS_Subset
<1>4. (\A q \in M : g[q] \in Nat) /\ (\A q \in B : h[q] \in Nat)
  BY <1>2, TotalType
<1>5. DOMAIN g = M /\ DOMAIN h = B
  OBVIOUS
<1> HIDE DEF g, h
<1>6. SumFunctionOnSet(g, M) \in Nat /\ SumFunctionOnSet(h, B) \in Nat
  BY <1>2, <1>3, <1>4, SumNat
<1>7. SumFunction(g) \in Nat /\ SumFunction(h) \in Nat
  BY <1>5, <1>6 DEF SumFunction
<1> QED
  BY <1>7 DEF GlobalOf, LowerOf, g, h

(* Subdomains are the same number on every rank.                           *)
LEMMA CountsOfSpaces ==
  ASSUME NEW pr \in Problems, NEW r \in Rank, NEW x \in Counted, x \notin DOMAIN SetSpace
  PROVE  /\ GlobalOf(pr, r, x) = SpaceTotal(r, SpaceOf(x))
         /\ LowerOf(pr, r, x) = Cardinality(Before(SpaceOf(x), r)) * NumSubdomains(SpaceOf(x))
<1> DEFINE M == Members(SpaceOf(x), r)
           B == Before(SpaceOf(x), r)
           N == NumSubdomains(SpaceOf(x))
           g == [q \in M |-> TotalOf(pr, q, x)]
           h == [q \in B |-> TotalOf(pr, q, x)]
<1>1. SpaceOf(x) \in Space
  BY SetSpaceFacts
<1>2. IsFiniteSet(M) /\ B \subseteq M /\ N \in Int
  BY <1>1, MembersFacts, ChunksType DEF Before
<1>3. IsFiniteSet(B)
  BY <1>2, FS_Subset
<1>4. (\A q \in M : g[q] = N) /\ (\A q \in B : h[q] = N)
  BY DEF TotalOf
<1>5. DOMAIN g = M /\ DOMAIN h = B
  OBVIOUS
<1> HIDE DEF g, h
<1>6. SumFunctionOnSet(g, M) = Cardinality(M) * N /\ SumFunctionOnSet(h, B) = Cardinality(B) * N
  BY <1>2, <1>3, <1>4, SumConstant
<1>7. SumFunction(g) = Cardinality(M) * N /\ SumFunction(h) = Cardinality(B) * N
  BY <1>5, <1>6 DEF SumFunction
<1> QED
  BY <1>7 DEF GlobalOf, LowerOf, SpaceTotal, g, h

-----------------------------------------------------------------------------
(* The box of all subdomains.                                              *)

(* The subdomains of one rank make a box.                                  *)
LEMMA LocalBox ==
  /\ LocalLayout("PQR") = NumLocal /\ NumLocal \in Layouts
  /\ NumSubdomains("PQR") = Volume(NumLocal)
  /\ \A a \in Axis5 : NumLocal[a] \in Nat \ {0}
<1>1. \A a \in Axis5 : NumLocal[a] \in Nat \ {0}
  BY LocalAssumption
<1>2. AxesOf["PQR"] = Axis5
  BY DEF AxesOf
<1>3. LocalLayout("PQR") = [a \in Axis5 |-> NumLocal[a]]
  BY <1>2 DEF LocalLayout
<1>4. NumLocal = [a \in Axis5 |-> NumLocal[a]]
  BY LocalAssumption
<1>5. NumLocal \in Layouts
  BY LocalAssumption DEF Layouts
<1> QED
  BY <1>1, <1>3, <1>4, <1>5 DEF NumSubdomains

(* So do those of all ranks.                                               *)
LEMMA BoxFacts ==
  /\ Extents \in Layouts
  /\ \A a \in Axis5 : Extents[a] = NumProcs[a] * NumLocal[a] /\ Extents[a] \in Nat \ {0}
<1>1. \A x, y \in Nat \ {0} : x * y \in Nat \ {0}
  OBVIOUS
<1>2. \A a \in Axis5 : NumProcs[a] \in Nat \ {0} /\ NumLocal[a] \in Nat \ {0}
  BY PartitionAssumption, LocalBox
<1>3. \A a \in Axis5 : Extents[a] = NumProcs[a] * NumLocal[a]
  BY DEF Extents
<1>4. \A a \in Axis5 : Extents[a] \in Nat \ {0}
  BY <1>1, <1>2, <1>3
<1> QED
  BY <1>3, <1>4 DEF Layouts, Extents

(* It has as many places as there are subdomains on all ranks.             *)
LEMMA BoxVolume == Volume(Extents) = TableSize /\ TableSize \in Nat \ {0}
<1> DEFINE p(a) == NumProcs[a]
           l(a) == NumLocal[a]
           P(a) == Run(NumProcs, a)
           L(a) == Run(NumLocal, a)
           G(a) == Run(Extents, a)
<1>1. NumProcs \in Layouts /\ NumLocal \in Layouts /\ Extents \in Layouts
  BY LocalBox, BoxFacts, PartitionAssumption DEF Layouts
<1>2. \A a \in Axis5 : OrOne(NumProcs[a]) = p(a) /\ OrOne(NumLocal[a]) = l(a)
                       /\ OrOne(Extents[a]) = p(a) * l(a)
  BY LocalBox, BoxFacts, PartitionAssumption DEF OrOne
<1>3. /\ 0 \in Axis5 /\ 1 \in Axis5 /\ 2 \in Axis5 /\ 3 \in Axis5 /\ 4 \in Axis5
  BY DEF Axis5
<1>4. \A a \in Axis5 : p(a) \in Nat /\ l(a) \in Nat /\ P(a) \in Nat /\ L(a) \in Nat
  BY <1>1, RunFacts, LocalBox, PartitionAssumption
<1>5. /\ P(4) = 1 /\ P(3) = p(4) * P(4) /\ P(2) = p(3) * P(3) /\ P(1) = p(2) * P(2)
      /\ P(0) = p(1) * P(1) /\ Volume(NumProcs) = p(0) * P(0)
  BY <1>1, <1>2, <1>3, RunFacts
<1>6. /\ L(4) = 1 /\ L(3) = l(4) * L(4) /\ L(2) = l(3) * L(3) /\ L(1) = l(2) * L(2)
      /\ L(0) = l(1) * L(1) /\ Volume(NumLocal) = l(0) * L(0)
  BY <1>1, <1>2, <1>3, RunFacts
<1>7. /\ G(4) = 1 /\ G(3) = (p(4) * l(4)) * G(4) /\ G(2) = (p(3) * l(3)) * G(3)
      /\ G(1) = (p(2) * l(2)) * G(2) /\ G(0) = (p(1) * l(1)) * G(1)
      /\ Volume(Extents) = (p(0) * l(0)) * G(0)
  BY <1>1, <1>2, <1>3, RunFacts
<1> HIDE DEF p, l, P, L, G
<1>8. \A w, x, y, z \in Nat : (w * x) * (y * z) = (w * y) * (x * z)
  <2> TAKE w, x, y, z \in Nat
  <2>1. (w * x) * (y * z) = w * (x * (y * z))
    OBVIOUS
  <2>2. x * (y * z) = y * (x * z)
    OBVIOUS
  <2>3. w * (y * (x * z)) = (w * y) * (x * z)
    OBVIOUS
  <2> QED
    BY <2>1, <2>2, <2>3
<1>9. G(4) = P(4) * L(4)
  BY <1>5, <1>6, <1>7
<1>10. G(3) = P(3) * L(3)
  BY <1>3, <1>4, <1>5, <1>6, <1>7, <1>8, <1>9
<1>11. G(2) = P(2) * L(2)
  BY <1>3, <1>4, <1>5, <1>6, <1>7, <1>8, <1>10
<1>12. G(1) = P(1) * L(1)
  BY <1>3, <1>4, <1>5, <1>6, <1>7, <1>8, <1>11
<1>13. G(0) = P(0) * L(0)
  BY <1>3, <1>4, <1>5, <1>6, <1>7, <1>8, <1>12
<1>14. Volume(Extents) = Volume(NumProcs) * Volume(NumLocal)
  BY <1>3, <1>4, <1>5, <1>6, <1>7, <1>8, <1>13
<1>15. TableSize = Volume(NumProcs) * Volume(NumLocal)
  BY RankType, LocalBox DEF TableSize
<1>16. Volume(NumProcs) \in Nat \ {0} /\ Volume(NumLocal) \in Nat \ {0}
  <2>1. "PQR" \in Space
    BY DEF Space, AxesOf
  <2> QED
    BY <2>1, RankType, LocalBox, ChunksType
<1>17. \A x, y \in Nat \ {0} : x * y \in Nat \ {0}
  OBVIOUS
<1> QED
  BY <1>14, <1>15, <1>16, <1>17

(* A local id is a place in the box of its rank.                           *)
LEMMA LocalCoord ==
  ASSUME NEW s \in LocalSdom
  PROVE  /\ SdomIdToCoord(s) \in Indices(NumLocal)
         /\ Linearize(NumLocal, SdomIdToCoord(s)) = s
         /\ \A a \in Axis5 : SdomIdToCoord(s)[a] \in 0 .. NumLocal[a] - 1
<1>1. "PQR" \in Space
  BY DEF Space, AxesOf
<1>2. /\ SdomIdToCoord(s) \in Indices(NumLocal)
      /\ Linearize(NumLocal, SdomIdToCoord(s)) = s
  BY <1>1, CoordFacts, LocalBox
<1> QED
  BY <1>2, LocalBox DEF Indices

(* A subdomain has a place in the large box, from which its rank and its   *)
(* place there can be read.                                                *)
LEMMA PlaceFacts ==
  ASSUME NEW q \in Rank, NEW s \in LocalSdom
  PROVE  /\ PlaceOf(q, s) \in Indices(Extents)
         /\ IdAt(q, s) \in 0 .. TableSize - 1
         /\ ToIndices(Extents, IdAt(q, s)) = PlaceOf(q, s)
         /\ \A a \in Axis5 : /\ PlaceOf(q, s)[a] \in 0 .. Extents[a] - 1
                             /\ PlaceOf(q, s)[a] \div NumLocal[a] = CoordOf(q)[a]
                             /\ PlaceOf(q, s)[a] % NumLocal[a] = SdomIdToCoord(s)[a]
<1>1. ASSUME NEW a \in Axis5
      PROVE  /\ PlaceOf(q, s)[a] \in 0 .. Extents[a] - 1
             /\ PlaceOf(q, s)[a] \div NumLocal[a] = CoordOf(q)[a]
             /\ PlaceOf(q, s)[a] % NumLocal[a] = SdomIdToCoord(s)[a]
  <2> DEFINE c == CoordOf(q)[a]
             x == SdomIdToCoord(s)[a]
             l == NumLocal[a]
             p == NumProcs[a]
  <2>1. c \in 0 .. p - 1 /\ x \in 0 .. l - 1 /\ l \in Nat \ {0} /\ p \in Nat \ {0}
    BY RankFacts, LocalCoord, LocalBox
  <2>2. PlaceOf(q, s)[a] = x + c * l /\ Extents[a] = p * l
    BY BoxFacts DEF PlaceOf
  <2> HIDE DEF c, x, l, p
  <2>3. x + c * l = l * c + x /\ l * c \in Nat /\ x + c * l \in Int /\ c \in Int
    BY <2>1
  <2>4. l * c + x \in 0 .. p * l - 1
    BY <2>1, DivInRange
  <2> DEFINE y == x + c * l
  <2> HIDE DEF y
  <2>5. y = l * c + x /\ y \in Int
    BY <2>3 DEF y
  <2>6. y \div l = c /\ y % l = x
    BY <2>1, <2>3, <2>5, DivModUnique
  <2> QED
    BY <2>2, <2>3, <2>4, <2>6 DEF c, x, l, p, y
<1>2. PlaceOf(q, s) \in Indices(Extents)
  <2>1. PlaceOf(q, s) = [a \in Axis5 |-> PlaceOf(q, s)[a]]
    BY DEF PlaceOf
  <2>2. \A a \in Axis5 : PlaceOf(q, s)[a] \in Nat /\ PlaceOf(q, s)[a] < Extents[a]
    BY <1>1, BoxFacts
  <2> QED
    BY <2>1, <2>2 DEF Indices
<1>3. /\ IdAt(q, s) \in 0 .. TableSize - 1
      /\ \A a \in Axis5 : ToIndices(Extents, IdAt(q, s))[a] = PlaceOf(q, s)[a]
  BY <1>2, BoxFacts, BoxVolume, IndicesOfLinear DEF IdAt
<1>4. ToIndices(Extents, IdAt(q, s)) = PlaceOf(q, s)
  <2>1. PlaceOf(q, s) = [a \in Axis5 |-> PlaceOf(q, s)[a]]
    BY DEF PlaceOf
  <2>2. ToIndices(Extents, IdAt(q, s)) = [a \in Axis5 |-> ToIndices(Extents, IdAt(q, s))[a]]
    BY DEF ToIndices
  <2> QED
    BY <1>3, <2>1, <2>2
<1> QED
  BY <1>1, <1>2, <1>3, <1>4

(* Different subdomains have different ids.                                *)
LEMMA IdsDiffer ==
  ASSUME NEW p \in Rank, NEW q \in Rank, NEW s \in LocalSdom, NEW t \in LocalSdom,
         IdAt(p, s) = IdAt(q, t)
  PROVE  p = q /\ s = t
<1>1. PlaceOf(p, s) = PlaceOf(q, t)
  BY PlaceFacts
<1>2. \A a \in Axis5 : CoordOf(p)[a] = CoordOf(q)[a] /\ SdomIdToCoord(s)[a] = SdomIdToCoord(t)[a]
  BY <1>1, PlaceFacts
<1>3. /\ CoordOf(p) = [a \in Axis5 |-> CoordOf(p)[a]]
      /\ CoordOf(q) = [a \in Axis5 |-> CoordOf(q)[a]]
      /\ SdomIdToCoord(s) = [a \in Axis5 |-> SdomIdToCoord(s)[a]]
      /\ SdomIdToCoord(t) = [a \in Axis5 |-> SdomIdToCoord(t)[a]]
  BY DEF CoordOf, SdomIdToCoord, ToIndices
<1>4. CoordOf(p) = CoordOf(q) /\ SdomIdToCoord(s) = SdomIdToCoord(t)
  BY <1>2, <1>3
<1> QED
  BY <1>4, RankFacts, LocalCoord

(* Every id is that of a subdomain.                                        *)
LEMMA IdsCover ==
  ASSUME NEW id \in 0 .. TableSize - 1
  PROVE  \E q \in Rank, s \in LocalSdom : IdAt(q, s) = id
<1> DEFINE g == ToIndices(Extents, id)
           c == [a \in Axis5 |-> g[a] \div NumLocal[a]]
           x == [a \in Axis5 |-> g[a] % NumLocal[a]]
           q == Linearize(NumProcs, c)
           s == Linearize(NumLocal, x)
<1>1. g \in Indices(Extents) /\ Linearize(Extents, g) = id
  BY BoxFacts, BoxVolume, LinearOfIndices
<1> HIDE DEF g
<1>2. ASSUME NEW a \in Axis5
      PROVE  /\ c[a] \in 0 .. NumProcs[a] - 1 /\ x[a] \in 0 .. NumLocal[a] - 1
             /\ g[a] = x[a] + c[a] * NumLocal[a]
             /\ NumProcs[a] \in Nat \ {0} /\ NumLocal[a] \in Nat \ {0}
  <2> DEFINE i == g[a]
             l == NumLocal[a]
             p == NumProcs[a]
  <2>1. l \in Nat \ {0} /\ p \in Nat \ {0} /\ Extents[a] = p * l /\ Extents[a] # 0
    BY LocalBox, PartitionAssumption, BoxFacts
  <2>2. i \in Nat /\ i < Extents[a]
    BY <1>1, <2>1 DEF Indices
  <2>3. c[a] = i \div l /\ x[a] = i % l
    OBVIOUS
  <2> HIDE DEF i, l, p, c, x
  <2>4. p * l \in Int /\ i \in 0 .. p * l - 1
    BY <2>1, <2>2
  <2>5. i \div l \in 0 .. p - 1
    BY <2>1, <2>4, DivInRange
  <2>6. i % l \in 0 .. l - 1 /\ i = l * (i \div l) + (i % l)
    BY <2>1, <2>2, DivMod
  <2> DEFINE d == i \div l
             m == i % l
  <2> HIDE DEF d, m
  <2>7. d \in Int /\ m \in Int /\ i = l * d + m
    BY <2>5, <2>6 DEF d, m
  <2>8. l * d + m = m + d * l
    BY <2>1, <2>7
  <2> QED
    BY <2>1, <2>3, <2>5, <2>6, <2>7, <2>8 DEF i, l, p, d, m
<1>3. c \in Indices(NumProcs) /\ x \in Indices(NumLocal)
  <2>1. \A a \in Axis5 : c[a] \in Nat /\ c[a] < NumProcs[a]
    BY <1>2
  <2>2. \A a \in Axis5 : x[a] \in Nat /\ x[a] < NumLocal[a]
    BY <1>2
  <2>3. c = [a \in Axis5 |-> c[a]] /\ x = [a \in Axis5 |-> x[a]]
    OBVIOUS
  <2> HIDE DEF c, x
  <2> QED
    BY <2>1, <2>2, <2>3 DEF Indices
<1>4. c = [a \in Axis5 |-> c[a]] /\ x = [a \in Axis5 |-> x[a]]
  OBVIOUS
<1> HIDE DEF c, x
<1>5. NumProcs \in Layouts /\ NumLocal \in Layouts
  BY LocalBox, PartitionAssumption DEF Layouts
<1>6. q \in Rank /\ CoordOf(q) = c
  <2>1. q \in Rank /\ \A a \in Axis5 : ToIndices(NumProcs, q)[a] = c[a]
    BY <1>2, <1>3, <1>5, IndicesOfLinear DEF Rank
  <2>2. CoordOf(q) = [a \in Axis5 |-> ToIndices(NumProcs, q)[a]]
    BY DEF CoordOf, ToIndices
  <2> HIDE DEF q
  <2> QED
    BY <1>4, <2>1, <2>2
<1>7. s \in LocalSdom /\ SdomIdToCoord(s) = x
  <2>1. s \in LocalSdom /\ \A a \in Axis5 : ToIndices(NumLocal, s)[a] = x[a]
    BY <1>2, <1>3, <1>5, IndicesOfLinear, LocalBox DEF LocalSdom
  <2>2. SdomIdToCoord(s) = [a \in Axis5 |-> ToIndices(NumLocal, s)[a]]
    BY LocalBox DEF SdomIdToCoord, ToIndices
  <2> HIDE DEF s
  <2> QED
    BY <1>4, <2>1, <2>2
<1> HIDE DEF q, s
<1>8. PlaceOf(q, s) = g
  <2>1. \A a \in Axis5 : PlaceOf(q, s)[a] = g[a]
    BY <1>2, <1>6, <1>7 DEF PlaceOf
  <2>2. PlaceOf(q, s) = [a \in Axis5 |-> PlaceOf(q, s)[a]] /\ g = [a \in Axis5 |-> g[a]]
    BY <1>1 DEF PlaceOf, Indices
  <2> QED
    BY <2>1, <2>2
<1>9. IdAt(q, s) = id
  BY <1>1, <1>8 DEF IdAt
<1> QED
  BY <1>6, <1>7, <1>9

-----------------------------------------------------------------------------
(* What ranks that have returned see.                                      *)

(* Each axis has a space of its own.                                       *)
LEMMA BaseSpaces ==
  ASSUME NEW a \in Axis5
  PROVE  BaseSpace[a] \in Space /\ AxesOf[BaseSpace[a]] = {a}
<1>1. a = 0 \/ a = 1 \/ a = 2 \/ a = 3 \/ a = 4
  BY DEF Axis5
<1>2. BaseSpace[a] = <<"P", "Q", "RX", "RY", "RZ">>[a + 1]
  BY DEF BaseSpace
<1>3. CASE a = 0
  BY <1>2, <1>3 DEF Space, AxesOf
<1>4. CASE a = 1
  BY <1>2, <1>4 DEF Space, AxesOf
<1>5. CASE a = 2
  BY <1>2, <1>5 DEF Space, AxesOf
<1>6. CASE a = 3
  BY <1>2, <1>6 DEF Space, AxesOf
<1>7. CASE a = 4
  BY <1>2, <1>7 DEF Space, AxesOf
<1> QED
  BY <1>1, <1>3, <1>4, <1>5, <1>6, <1>7

(* Along one dimension.                                                    *)
LEMMA OneDimensional ==
  ASSUME NEW space \in Space, NEW b \in Axis5, AxesOf[space] = {b}
  PROVE  /\ NumSubdomains(space) = NumLocal[b]
         /\ \A s \in LocalSdom : ChunkOf(space, s) = SdomIdToCoord(s)[b]
         /\ \A r \in Rank :
              /\ SpaceTotal(r, space) = Extents[b]
              /\ \A pr \in Problems :
                   /\ GlobalOf(pr, r, space) = Extents[b]
                   /\ LowerOf(pr, r, space) = CoordOf(r)[b] * NumLocal[b]
<1> DEFINE n == LocalLayout(space)
<1>1. n \in Layouts /\ n[b] = NumLocal[b] /\ n[b] # 0 /\ \A a \in Axis5 : a # b => n[a] = 0
  BY SpaceLayout, LocalBox DEF LocalLayout
<1>2. \A s \in LocalSdom : SdomIdToCoord(s) \in [Axis5 -> Nat]
  BY LocalCoord DEF Indices
<1>3. NumSubdomains(space) = Volume(n) /\ \A s : ChunkOf(space, s) = Linearize(n, SdomIdToCoord(s))
  BY DEF NumSubdomains, ChunkOf, SubdomainToSpace
<1> HIDE DEF n
<1>4. NumSubdomains(space) = NumLocal[b]
      /\ \A s \in LocalSdom : ChunkOf(space, s) = SdomIdToCoord(s)[b]
  <2>1. \A x \in [Axis5 -> Nat] : Linearize(n, x) = x[b] /\ Volume(n) = n[b]
    BY <1>1, OneDimension
  <2>2. \E x : x \in [Axis5 -> Nat]
    <3>1. [a \in Axis5 |-> 0] \in [Axis5 -> Nat]
      OBVIOUS
    <3> QED
      BY <3>1
  <2> QED
    BY <1>1, <1>2, <1>3, <2>1, <2>2
<1>5. ASSUME NEW r \in Rank
      PROVE  /\ SpaceTotal(r, space) = Extents[b]
             /\ \A pr \in Problems : /\ GlobalOf(pr, r, space) = Extents[b]
                                     /\ LowerOf(pr, r, space) = CoordOf(r)[b] * NumLocal[b]
  <2>1. SpaceTotal(r, space) = Extents[b]
    BY <1>4, AlongOne, BoxFacts DEF SpaceTotal
  <2>2. SpaceOf(space) = space /\ space \in Counted /\ space \notin DOMAIN SetSpace
    BY SetSpaceFacts
  <2> QED
    BY <1>4, <2>1, <2>2, CountsOfSpaces, AlongOne
<1> QED
  BY <1>4, <1>5

(* A rank that is beyond the calls of the spaces.                          *)
LEMMA SpacesReturned ==
  ASSUME PartitionInv, NEW q \in Rank, pc[q] > 20
  PROVE  /\ \A x \in Space : /\ global[q][x] = SpaceTotal(q, x)
                             /\ lower[q][x] = LowerOf(problem, q, x)
         /\ global[q]["SdomId"] = TableSize
<1>1. \A n \in 1 .. 20 : Returned(q, n)
  <2>1. \A n \in 1 .. 20 : n \in 1 .. 34 /\ n < pc[q]
    BY DEF PartitionInv
  <2> QED
    BY <2>1 DEF PartitionInv
<1>2. problem \in Problems
  BY DEF PartitionInv
<1>3. \A x : (\E n \in 1 .. 20 : Program[n] = Reduce(x)) => global[q][x] = GlobalOf(problem, q, x)
  <2> TAKE x
  <2> HAVE \E n \in 1 .. 20 : Program[n] = Reduce(x)
  <2>1. PICK n \in 1 .. 20 : Program[n] = Reduce(x)
    OBVIOUS
  <2>2. Program[n].op = "reduce" /\ Program[n].of = x
    BY <2>1, CallFields
  <2> QED
    BY <1>1, <2>2 DEF Returned
<1>4. \A x : (\E n \in 1 .. 20 : Program[n] = Prefix(x)) => lower[q][x] = LowerOf(problem, q, x)
  <2> TAKE x
  <2> HAVE \E n \in 1 .. 20 : Program[n] = Prefix(x)
  <2>1. PICK n \in 1 .. 20 : Program[n] = Prefix(x)
    OBVIOUS
  <2>2. Program[n].op = "scan" /\ Program[n].of = x
    BY <2>1, CallFields
  <2> QED
    BY <1>1, <2>2 DEF Returned
<1>5. \A x \in Space : global[q][x] = SpaceTotal(q, x)
  BY <1>2, <1>3, SpacesFirst, SetSpaceFacts, CountsOfSpaces
<1>6. global[q]["SdomId"] = SpaceTotal(q, "PQR")
  BY <1>2, <1>3, SpacesFirst, SetSpaceFacts, CountsOfSpaces
<1>7. SpaceTotal(q, "PQR") = TableSize
  BY AllMembers DEF SpaceTotal, TableSize
<1> QED
  BY <1>4, <1>5, <1>6, <1>7, SpacesFirst

(* After the spaces, GlobalSdomId computes the id the place has.           *)
LEMMA PlacesReturned ==
  ASSUME PartitionInv, NEW q \in Rank, pc[q] > 20
  PROVE  /\ GlobalLayout(q) = Extents
         /\ \A s \in LocalSdom : /\ CoordToGlobalCoord(q, SdomIdToCoord(s)) = PlaceOf(q, s)
                                 /\ GlobalId(q, s) = IdAt(q, s)
<1>1. problem \in Problems
  BY DEF PartitionInv
<1>2. \A a \in Axis5 : /\ global[q][BaseSpace[a]] = Extents[a]
                       /\ lower[q][BaseSpace[a]] = CoordOf(q)[a] * NumLocal[a]
  BY <1>1, SpacesReturned, BaseSpaces, OneDimensional
<1>3. GlobalLayout(q) = Extents
  <2>1. Extents = [a \in Axis5 |-> Extents[a]]
    BY DEF Extents
  <2> QED
    BY <1>2, <2>1 DEF GlobalLayout
<1>4. \A s : CoordToGlobalCoord(q, SdomIdToCoord(s)) = PlaceOf(q, s)
  BY <1>2 DEF CoordToGlobalCoord, PlaceOf
<1> QED
  BY <1>3, <1>4 DEF GlobalId, CoordToGlobalSdomId, IdAt

(* A rank puts into a call what it should.                                 *)
LEMMA Counting ==
  ASSUME PartitionInv, NEW q \in Rank, NEW x \in Counted, x \in DOMAIN SetSpace => pc[q] > 20
  PROVE  /\ LocalTotal(q, x) = TotalOf(problem, q, x)
         /\ x \in DOMAIN SetSpace => \A c : ChunkSize(q, x, c) = SizeOf(problem, q, x, c)
<1>1. CASE x \in DOMAIN SetSpace
  <2>1. SetSpace[x] \in Space
    BY <1>1, SetSpaceFacts
  <2>2. global[q][SetSpace[x]] = SpaceTotal(q, SetSpace[x])
    BY <1>1, <2>1, SpacesReturned
  <2>3. \A c : ChunkSize(q, x, c) = SizeOf(problem, q, x, c)
    BY <2>2 DEF ChunkSize, SizeOf
  <2>4. [c \in Chunks(SetSpace[x]) |-> ChunkSize(q, x, c)]
          = [c \in Chunks(SetSpace[x]) |-> SizeOf(problem, q, x, c)]
    BY <2>3
  <2> QED
    BY <1>1, <2>3, <2>4 DEF LocalTotal, TotalOf, ChunkSum
<1>2. CASE x \notin DOMAIN SetSpace
  BY <1>2 DEF LocalTotal, TotalOf
<1> QED
  BY <1>1, <1>2

-----------------------------------------------------------------------------
(* Each call keeps the invariant.                                          *)

(* A rank in the middle of the program is at one of its calls.             *)
LEMMA CallOf ==
  ASSUME PartitionInv, NEW r \in Rank, Running(r)
  PROVE  /\ pc[r] \in 1 .. 34 /\ Call(r) = Program[pc[r]]
         /\ Call(r).of \in Counted
         /\ Call(r).op = "reduce" => Call(r) = Reduce(Call(r).of)
         /\ Call(r).of \in DOMAIN SetSpace => pc[r] > 20
         /\ Call(r).op \in {"owner", "local"} => pc[r] > 20
<1>1. pc[r] \in 1 .. 34 /\ Call(r) = Program[pc[r]]
  BY Calls DEF Running, Call
<1>2. \A x \in Space : x \notin DOMAIN SetSpace /\ x \in Counted
  BY SetSpaceFacts
<1>3. "SdomId" \in Counted /\ "SdomId" \notin DOMAIN SetSpace /\ "PQR" \in Counted
      /\ "PQR" \notin DOMAIN SetSpace
  BY SetSpaceFacts DEF Space, AxesOf
<1>4. \A set \in DOMAIN SetSpace : set \in Counted
  BY SetSpaceFacts
<1> DEFINE n == pc[r]
           c == Program[n]
           Owner == [op |-> "owner", of |-> "PQR"]
           Local == [op |-> "local", of |-> "PQR"]
<1>5. \A x : Reduce(x).op \notin {"owner", "local"} /\ Prefix(x).op \notin {"owner", "local"}
  BY CallFields
<1>6. n \in 1 .. 34
  BY <1>1
<1> HIDE DEF n
<1>7. /\ c.of \in Counted
      /\ c.op = "reduce" => c = Reduce(c.of)
      /\ c.of \in DOMAIN SetSpace => n > 20
      /\ c.op \in {"owner", "local"} => n > 20
  <2>1. CASE \E x \in Space \cup {"SdomId"} : c = Reduce(x) \/ c = Prefix(x)
    BY <1>2, <1>3, <1>5, <2>1, CallFields
  <2>2. CASE n > 20 /\ \E x \in DOMAIN SetSpace : c = Reduce(x) \/ c = Prefix(x)
    BY <1>4, <2>2, CallFields
  <2>3. CASE n > 20 /\ (c = Owner \/ c = Local)
    <3>1. c.of = "PQR" /\ c.op # "reduce"
      BY <2>3
    <3> QED
      BY <1>3, <2>3, <3>1
  <2> HIDE DEF c, Owner, Local
  <2>4. \/ \E x \in Space \cup {"SdomId"} : c = Reduce(x) \/ c = Prefix(x)
        \/ n > 20 /\ (c = Owner \/ c = Local)
        \/ n > 20 /\ \E x \in DOMAIN SetSpace : c = Reduce(x) \/ c = Prefix(x)
    BY <1>6, CallKinds DEF c, Owner, Local
  <2> QED
    BY <2>1, <2>2, <2>3, <2>4
<1> QED
  BY <1>1, <1>7 DEF n

(* Every call is about a counter.                                          *)
LEMMA CallCounted == \A n \in 1 .. 34 : Program[n].of \in Counted
<1> TAKE n \in 1 .. 34
<1>1. {"P", "Q", "RX", "RY", "RZ", "R", "PR", "PQR", "NULL"} = Space
  BY DEF Space, AxesOf
<1>2. \A x \in Space \cup {"SdomId"} \cup DOMAIN SetSpace :
        x \in Counted /\ Reduce(x).of = x /\ Prefix(x).of = x
  BY CallFields DEF Counted
<1> DEFINE c == Program[n]
           Owner == [op |-> "owner", of |-> "PQR"]
           Local == [op |-> "local", of |-> "PQR"]
<1>3. Owner.of \in Counted /\ Local.of \in Counted
  BY <1>1, <1>2
<1> HIDE DEF c, Owner, Local
<1>4. c = Owner \/ c = Local
      \/ \E x \in Space \cup {"SdomId"} \cup DOMAIN SetSpace : c = Reduce(x) \/ c = Prefix(x)
  BY CallKinds DEF c, Owner, Local
<1>5. c.of \in Counted
  BY <1>2, <1>3, <1>4
<1> QED
  BY <1>5 DEF c

(* What the other calls have returned does not change.                     *)
LEMMA Kept ==
  ASSUME PartitionInv, NEW r \in Rank, Running(r), Advance(r), problem' = problem,
         NEW k, k = pc[r], Returned(r, k)', k = 21 => \A q \in Rank : pc[q] > 20,
         DOMAIN owner' = Rank, DOMAIN localId' = Rank,
         global' \in [Rank -> [Counted -> Int]], lower' \in [Rank -> [Counted -> Int]],
         \A q \in Rank, n \in 1 .. 34 : n < pc[q] => (Returned(q, n) => Returned(q, n)')
  PROVE  PartitionInv'
<1>1. problem' \in Problems
  BY DEF PartitionInv
<1>2. pc \in [Rank -> 0 .. 35] /\ pc' = [pc EXCEPT ![r] = pc[r] + 1]
  BY DEF PartitionInv, Advance
<1>3. pc' \in [Rank -> 0 .. 35]
  <2>1. pc[r] \in 1 .. 34
    BY CallOf
  <2> QED
    BY <1>2, <2>1
<1>4. ASSUME NEW q \in Rank, NEW n \in 1 .. 34, n < pc'[q]
      PROVE  Returned(q, n)'
  <2>1. n < pc[q] \/ (q = r /\ n = k)
    <3>1. pc'[q] = IF q = r THEN pc[q] + 1 ELSE pc[q]
      BY <1>2
    <3>2. pc[q] \in Int
      <4>1. pc \in [Rank -> 0 .. 35]
        BY <1>2
      <4>2. pc[q] \in 0 .. 35
        BY <4>1
      <4> QED
        BY <4>2
    <3>3. CASE q = r
      <4>1. n < pc[q] + 1 /\ n \in Int
        BY <1>4, <3>1, <3>3
      <4> QED
        BY <3>2, <3>3, <4>1
    <3>4. CASE q # r
      BY <1>4, <3>1, <3>4
    <3> QED
      BY <3>3, <3>4
  <2>2. CASE n < pc[q]
    BY <2>2 DEF PartitionInv
  <2>3. CASE q = r /\ n = k
    BY <2>3
  <2> QED
    BY <2>1, <2>2, <2>3
<1>5. \A p, q \in Rank : pc'[p] > 21 => pc'[q] > 20
  <2>1. \A q \in Rank : pc[q] \in 0 .. 35 /\ pc'[q] = IF q = r THEN pc[q] + 1 ELSE pc[q]
    BY <1>2
  <2>2. \A p, q \in Rank : pc[p] > 21 => pc[q] > 20
    BY DEF PartitionInv
  <2>3. \A q \in Rank : pc[q] > 20 => pc'[q] > 20
    BY <2>1
  <2>4. \A p \in Rank : pc'[p] > 21 => pc[p] > 21 \/ (p = r /\ k = 21)
    BY <2>1
  <2> QED
    BY <2>2, <2>3, <2>4
<1> QED
  BY <1>1, <1>3, <1>4, <1>5 DEF PartitionInv

-----------------------------------------------------------------------------
(* Initially no call has returned.                                         *)
LEMMA InitInd == Init => PartitionInv
<1> SUFFICES ASSUME Init PROVE PartitionInv
  OBVIOUS
<1>1. problem \in Problems /\ DOMAIN owner = Rank /\ DOMAIN localId = Rank
  BY DEF Init
<1>2. pc \in [Rank -> 0 .. 35] /\ \A r \in Rank : pc[r] = 1
  BY DEF Init
<1>3. global \in [Rank -> [Counted -> Int]] /\ lower \in [Rank -> [Counted -> Int]]
  BY DEF Init
<1>4. \A r \in Rank : ~ pc[r] > 21 /\ \A n \in 1 .. 34 : ~ n < pc[r]
  BY <1>2
<1> QED
  BY <1>1, <1>2, <1>3, <1>4 DEF PartitionInv

(* A failed assertion returns nothing.                                     *)
LEMMA AbortInd == PartitionInv /\ (\E r \in Rank : Abort(r)) => PartitionInv'
<1> SUFFICES ASSUME PartitionInv, NEW r \in Rank, Abort(r) PROVE PartitionInv'
  OBVIOUS
<1>1. pc' = [q \in Rank |-> 0] /\ UNCHANGED <<problem, global, lower, owner, localId>>
  BY DEF Abort
<1>2. pc' \in [Rank -> 0 .. 35] /\ \A q \in Rank : ~ pc'[q] > 21 /\ \A n \in 1 .. 34 : ~ n < pc'[q]
  BY <1>1
<1> QED
  BY <1>1, <1>2 DEF PartitionInv

(* A reduction returns the sum over the communicator.                      *)
LEMMA AllReduceInd == PartitionInv /\ (\E r \in Rank : AllReduce(r)) => PartitionInv'
<1> SUFFICES ASSUME PartitionInv, NEW r \in Rank, AllReduce(r), NEW k, k = pc[r], NEW x, x = Call(r).of
             PROVE  PartitionInv'
  OBVIOUS
<1> DEFINE M == Comm(r)
           v == RankSum(M, x)
<1>1. /\ Running(r) /\ Call(r).op = "reduce" /\ Divided(r) /\ Entered(r, M)
      /\ global' = [global EXCEPT ![r][x] = v]
      /\ Advance(r) /\ UNCHANGED <<problem, lower, owner, localId>>
  BY DEF AllReduce
<1>2. /\ k \in 1 .. 34 /\ Call(r) = Program[k] /\ x \in Counted /\ Call(r) = Reduce(x)
      /\ x \in DOMAIN SetSpace => k > 20
  BY <1>1, CallOf
<1>3. M = Members(SpaceOf(x), r) /\ SpaceOf(x) \in Space
  BY <1>2, SetSpaceFacts DEF Comm
<1>4. M \subseteq Rank /\ \A q \in M : pc[q] >= k
  BY <1>1, <1>3, MembersFacts DEF Entered
<1>5. pc \in [Rank -> 0 .. 35] /\ global \in [Rank -> [Counted -> Int]]
      /\ lower \in [Rank -> [Counted -> Int]] /\ problem \in Problems
      /\ DOMAIN owner = Rank /\ DOMAIN localId = Rank
  BY DEF PartitionInv
<1> HIDE DEF M
<1>6. \A q \in M : LocalTotal(q, x) = TotalOf(problem, q, x)
  <2> TAKE q \in M
  <2>1. q \in Rank /\ pc[q] >= k /\ pc[q] \in 0 .. 35
    BY <1>4, <1>5
  <2>2. x \in DOMAIN SetSpace => pc[q] > 20
    BY <1>2, <2>1
  <2> QED
    BY <1>2, <2>1, <2>2, Counting
<1>7. v = GlobalOf(problem, r, x)
  <2>1. [q \in M |-> LocalTotal(q, x)] = [q \in M |-> TotalOf(problem, q, x)]
    BY <1>6
  <2> QED
    BY <1>3, <2>1 DEF RankSum, GlobalOf
<1> HIDE DEF v
<1>8. v \in Int
  BY <1>2, <1>5, <1>7, GlobalType
<1>9. global' \in [Rank -> [Counted -> Int]]
      /\ \A q \in Rank, y \in Counted :
           global'[q][y] = IF q = r /\ y = x THEN v ELSE global[q][y]
  BY <1>1, <1>2, <1>5, <1>8
<1>10. x \in ZoneSets =>
         (problem[x] \div SpaceTotal(r, SetSpace[x])) * SpaceTotal(r, SetSpace[x]) = problem[x]
  <2> HAVE x \in ZoneSets
  <2>1. Call(r) = [op |-> "reduce", of |-> x] /\ x \in {"ZoneI", "ZoneJ", "ZoneK"}
    BY <1>2 DEF Reduce, ZoneSets
  <2>2. (problem[x] \div global[r][SetSpace[x]]) * global[r][SetSpace[x]] = problem[x]
    BY <1>1, <2>1 DEF Divided
  <2>3. x \in DOMAIN SetSpace /\ SetSpace[x] \in Space
    BY <2>1, SetSpaceFacts
  <2>4. pc[r] > 20
    BY <1>2, <2>3
  <2>5. global[r][SetSpace[x]] = SpaceTotal(r, SetSpace[x])
    BY <2>3, <2>4, SpacesReturned
  <2> QED
    BY <2>2, <2>5
<1>11. problem' = problem /\ lower' = lower /\ owner' = owner /\ localId' = localId
  BY <1>1
<1>12. Returned(r, k)'
  <2>1. Program[k].op = "reduce" /\ Program[k].of = x
    BY <1>1, <1>2
  <2>2. global'[r][x] = GlobalOf(problem, r, x)
    BY <1>2, <1>7, <1>9
  <2> QED
    BY <1>10, <1>11, <2>1, <2>2 DEF Returned
<1>13. ASSUME NEW q \in Rank, NEW n \in 1 .. 34, Returned(q, n)
       PROVE  Returned(q, n)'
  <2> DEFINE y == Program[n].of
  <2>1. Program[n].op = "reduce" => global'[q][y] = GlobalOf(problem, q, y)
    <3> HAVE Program[n].op = "reduce"
    <3>1. global[q][y] = GlobalOf(problem, q, y)
      BY <1>13 DEF Returned
    <3>2. y \in Counted
      BY CallCounted
    <3> QED
      BY <1>7, <1>9, <3>1, <3>2
  <2> QED
    BY <1>11, <1>13, <2>1 DEF Returned
<1>14. k # 21
  <2>1. Program[k].op = "reduce" /\ Program[21].op = "owner"
    BY <1>1, <1>2, Calls
  <2> QED
    BY <2>1
<1> QED
  BY <1>1, <1>5, <1>9, <1>11, <1>12, <1>13, <1>14, Kept

(* A scan returns the sum up to the rank; taking off its own share leaves  *)
(* the sum before it.                                                      *)
LEMMA ScanInd == PartitionInv /\ (\E r \in Rank : Scan(r)) => PartitionInv'
<1> SUFFICES ASSUME PartitionInv, NEW r \in Rank, Scan(r), NEW k, k = pc[r], NEW x, x = Call(r).of
             PROVE  PartitionInv'
  OBVIOUS
<1> DEFINE B == {q \in Comm(r) : Key(SpaceOf(x), q) < Key(SpaceOf(x), r)}
           v == RankSum(B \cup {r}, x) - LocalTotal(r, x)
<1>1. /\ Running(r) /\ Call(r).op = "scan" /\ Entered(r, B)
      /\ lower' = [lower EXCEPT ![r][x] = v]
      /\ Advance(r) /\ UNCHANGED <<problem, global, owner, localId>>
  BY DEF Scan
<1>2. /\ k \in 1 .. 34 /\ Call(r) = Program[k] /\ x \in Counted
      /\ x \in DOMAIN SetSpace => k > 20
  BY <1>1, CallOf
<1>3. B = Before(SpaceOf(x), r) /\ SpaceOf(x) \in Space
  BY <1>2, SetSpaceFacts DEF Comm, Before
<1>4. B \subseteq Rank /\ r \notin B /\ \A q \in B : pc[q] >= k
  <2>1. Before(SpaceOf(x), r) \subseteq Rank /\ r \notin Before(SpaceOf(x), r)
    <3>1. Key(SpaceOf(x), r) \in Nat
      BY <1>3, MembersFacts
    <3>2. Members(SpaceOf(x), r) \subseteq Rank
      BY <1>3, MembersFacts
    <3> QED
      BY <3>1, <3>2 DEF Before
  <2> QED
    BY <1>1, <1>3, <2>1 DEF Entered
<1>5. pc \in [Rank -> 0 .. 35] /\ global \in [Rank -> [Counted -> Int]]
      /\ lower \in [Rank -> [Counted -> Int]] /\ problem \in Problems
      /\ DOMAIN owner = Rank /\ DOMAIN localId = Rank
  BY DEF PartitionInv
<1> HIDE DEF B
<1>6. \A q \in B \cup {r} : LocalTotal(q, x) = TotalOf(problem, q, x)
  <2> TAKE q \in B \cup {r}
  <2>1. q \in Rank /\ pc[q] >= k /\ pc[q] \in 0 .. 35
    BY <1>4, <1>5, <1>2
  <2>2. x \in DOMAIN SetSpace => pc[q] > 20
    BY <1>2, <2>1
  <2> QED
    BY <1>2, <2>1, <2>2, Counting
<1>7. v = LowerOf(problem, r, x)
  <2> DEFINE U == B \cup {r}
             g == [q \in U |-> LocalTotal(q, x)]
             h == [q \in B |-> TotalOf(problem, q, x)]
  <2>1. \A q \in U : g[q] = TotalOf(problem, q, x) /\ g[q] \in Int
    BY <1>2, <1>4, <1>5, <1>6, TotalType
  <2>2. \A q \in B : g[q] = h[q] /\ g[q] \in Int
    BY <2>1
  <2>3. IsFiniteSet(B)
    BY <1>4, RankType, FS_Subset
  <2>4. DOMAIN g = U /\ DOMAIN h = B /\ g[r] = LocalTotal(r, x) /\ g[r] \in Int
    BY <2>1
  <2> HIDE DEF g, h
  <2>5. SumFunctionOnSet(g, B \cup {r}) = g[r] + SumFunctionOnSet(g, B)
    BY <1>4, <2>1, <2>3, SumAdd
  <2>6. SumFunctionOnSet(g, B) = SumFunctionOnSet(h, B) /\ SumFunctionOnSet(g, B) \in Int
    BY <2>2, <2>3, SumSame, SumInt
  <2>7. SumFunction(g) = SumFunctionOnSet(g, B \cup {r}) /\ SumFunction(h) = SumFunctionOnSet(h, B)
    BY <2>4 DEF SumFunction
  <2>8. v = SumFunction(g) - LocalTotal(r, x) /\ LowerOf(problem, r, x) = SumFunction(h)
    BY <1>3 DEF RankSum, LowerOf, g, h
  <2> HIDE DEF v
  <2> QED
    BY <2>4, <2>5, <2>6, <2>7, <2>8
<1> HIDE DEF v
<1>8. v \in Int
  BY <1>2, <1>5, <1>7, GlobalType
<1>9. lower' \in [Rank -> [Counted -> Int]]
      /\ \A q \in Rank, y \in Counted :
           lower'[q][y] = IF q = r /\ y = x THEN v ELSE lower[q][y]
  BY <1>1, <1>2, <1>5, <1>8
<1>10. problem' = problem /\ global' = global /\ owner' = owner /\ localId' = localId
  BY <1>1
<1>11. Returned(r, k)'
  <2>1. Program[k].op = "scan" /\ Program[k].of = x
    BY <1>1, <1>2
  <2>2. lower'[r][x] = LowerOf(problem, r, x)
    BY <1>2, <1>7, <1>9
  <2> QED
    BY <1>10, <2>1, <2>2 DEF Returned
<1>12. ASSUME NEW q \in Rank, NEW n \in 1 .. 34, Returned(q, n)
       PROVE  Returned(q, n)'
  <2> DEFINE y == Program[n].of
  <2>1. Program[n].op = "scan" => lower'[q][y] = LowerOf(problem, q, y)
    <3> HAVE Program[n].op = "scan"
    <3>1. lower[q][y] = LowerOf(problem, q, y)
      BY <1>12 DEF Returned
    <3>2. y \in Counted
      BY CallCounted
    <3> QED
      BY <1>7, <1>9, <3>1, <3>2
  <2> QED
    BY <1>10, <1>12, <2>1 DEF Returned
<1>13. k # 21
  BY <1>1, <1>2, Calls
<1> QED
  BY <1>1, <1>5, <1>9, <1>10, <1>11, <1>12, <1>13, Kept

(* Every entry of a summed table has one write.                            *)
LEMMA SummedFacts ==
  ASSUME PartitionInv, NEW r \in Rank, \A q \in Rank : pc[q] > 20,
         NEW field, NEW v, field \in {"rank", "sdom"},
         v = Summed(r, Writes, field)
  PROVE  /\ IsTable(v)
         /\ \A q \in Rank, s \in LocalSdom :
              v[IdAt(q, s)] = IF field = "rank" THEN q ELSE s
<1> DEFINE W(q, s) == [id |-> IdAt(q, s), rank |-> q, sdom |-> s]
           last(id) == {w \in Writes : /\ w.id = id
                                       /\ \A u \in Writes : u.id = id /\ u.rank = w.rank
                                                              => u.sdom <= w.sdom}
<1>1. Writes = {W(q, s) : q \in Rank, s \in LocalSdom}
  <2>1. \A q \in Rank, s \in LocalSdom : GlobalId(q, s) = IdAt(q, s)
    BY PlacesReturned
  <2> QED
    BY <2>1 DEF Writes
<1>2. v = [id \in 0 .. TableSize - 1 |-> SumFunction([w \in last(id) |-> w[field]])]
  BY SpacesReturned DEF Summed
<1>3. ASSUME NEW q \in Rank, NEW s \in LocalSdom
      PROVE  last(IdAt(q, s)) = {W(q, s)}
  <2>1. W(q, s) \in Writes
    BY <1>1
  <2>2. \A u \in Writes : u.id = IdAt(q, s) => u = W(q, s)
    <3> TAKE u \in Writes
    <3> HAVE u.id = IdAt(q, s)
    <3>1. PICK p \in Rank, t \in LocalSdom : u = W(p, t)
      BY <1>1
    <3>2. IdAt(p, t) = IdAt(q, s)
      BY <3>1
    <3>3. p = q /\ t = s
      BY <3>2, IdsDiffer
    <3> QED
      BY <3>1, <3>3
  <2>3. W(q, s).id = IdAt(q, s) /\ W(q, s).sdom <= W(q, s).sdom
    <3>1. s \in Int
      BY DEF LocalSdom
    <3> QED
      BY <3>1
  <2> HIDE DEF W
  <2>4. \A w : w \in last(IdAt(q, s)) <=> w = W(q, s)
    BY <2>1, <2>2, <2>3
  <2> HIDE DEF last
  <2> QED
    BY <2>4
<1>4. ASSUME NEW q \in Rank, NEW s \in LocalSdom
      PROVE  v[IdAt(q, s)] = IF field = "rank" THEN q ELSE s
  <2> DEFINE w == W(q, s)
             g == [u \in last(IdAt(q, s)) |-> u[field]]
  <2>1. IdAt(q, s) \in 0 .. TableSize - 1
    BY PlaceFacts
  <2>2. v[IdAt(q, s)] = SumFunction(g)
    BY <1>2, <2>1
  <2>3. w[field] = IF field = "rank" THEN q ELSE s
    OBVIOUS
  <2>4. w[field] \in Int
    BY <2>3, RankType DEF LocalSdom
  <2>5. DOMAIN g = {w} /\ g[w] = w[field]
    BY <1>3
  <2> HIDE DEF g, w
  <2>6. SumFunctionOnSet(g, {w}) = 1 * w[field]
    <3>1. IsFiniteSet({w}) /\ Cardinality({w}) = 1
      BY FS_Singleton
    <3>2. \A u \in {w} : g[u] = w[field]
      BY <2>5
    <3>3. SumFunctionOnSet(g, {w}) = Cardinality({w}) * w[field]
      BY <2>4, <3>1, <3>2, SumConstant
    <3> QED
      BY <3>1, <3>3
  <2>7. SumFunction(g) = w[field]
    BY <2>4, <2>5, <2>6 DEF SumFunction
  <2> QED
    BY <2>2, <2>3, <2>7
<1>5. IsTable(v)
  BY <1>2 DEF IsTable
<1> QED
  BY <1>4, <1>5

-----------------------------------------------------------------------------
(* The sum of the owner tables: each id has one term.                      *)
LEMMA ReduceOwnerInd == PartitionInv /\ (\E r \in Rank : ReduceOwner(r)) => PartitionInv'
<1> SUFFICES ASSUME PartitionInv, NEW r \in Rank, ReduceOwner(r), NEW k, k = pc[r]
             PROVE  PartitionInv'
  OBVIOUS
<1> DEFINE v == Summed(r, Writes, "rank")
<1>1. /\ Running(r) /\ Call(r).op = "owner" /\ Entered(r, Rank)
      /\ owner' = [owner EXCEPT ![r] = v]
      /\ Advance(r) /\ UNCHANGED <<problem, global, lower, localId>>
  BY DEF ReduceOwner
<1>2. k \in 1 .. 34 /\ Call(r) = Program[k] /\ k > 20
  BY <1>1, CallOf
<1>3. pc \in [Rank -> 0 .. 35] /\ global \in [Rank -> [Counted -> Int]]
      /\ lower \in [Rank -> [Counted -> Int]] /\ problem \in Problems
      /\ DOMAIN owner = Rank /\ DOMAIN localId = Rank
  BY DEF PartitionInv
<1>4. \A q \in Rank : pc[q] > 20
  <2>1. \A q \in Rank : pc[q] \in 0 .. 35 /\ pc[q] >= k
    BY <1>1, <1>3 DEF Entered
  <2> QED
    BY <1>2, <2>1
<1>5. IsTable(v) /\ \A q \in Rank, s \in LocalSdom : v[IdAt(q, s)] = q
  BY <1>4, SummedFacts
<1> HIDE DEF v
<1>6. DOMAIN owner' = Rank /\ owner'[r] = v /\ \A q \in Rank : q # r => owner'[q] = owner[q]
  BY <1>1, <1>3
<1>7. problem' = problem /\ global' = global /\ lower' = lower /\ localId' = localId
  BY <1>1
<1>8. Returned(r, k)'
  <2>1. Program[k].op = "owner"
    BY <1>1, <1>2
  <2> QED
    BY <1>5, <1>6, <2>1 DEF Returned
<1>9. ASSUME NEW q \in Rank, NEW n \in 1 .. 34, Returned(q, n)
      PROVE  Returned(q, n)'
  <2>1. /\ IsTable(owner'[r])
        /\ \A p \in Rank, s \in LocalSdom : owner'[r][IdAt(p, s)] = p
    BY <1>5, <1>6
  <2>2. CASE q = r
    BY <1>7, <1>9, <2>1, <2>2 DEF Returned
  <2>3. CASE q # r
    BY <1>6, <1>7, <1>9, <2>3 DEF Returned
  <2> QED
    BY <2>2, <2>3
<1> QED
  BY <1>1, <1>3, <1>4, <1>6, <1>7, <1>8, <1>9, Kept

(* The sum of the tables of local ids, likewise.                           *)
LEMMA ReduceLocalIdInd == PartitionInv /\ (\E r \in Rank : ReduceLocalId(r)) => PartitionInv'
<1> SUFFICES ASSUME PartitionInv, NEW r \in Rank, ReduceLocalId(r), NEW k, k = pc[r]
             PROVE  PartitionInv'
  OBVIOUS
<1> DEFINE v == Summed(r, Writes, "sdom")
<1>1. /\ Running(r) /\ Call(r).op = "local" /\ Entered(r, Rank)
      /\ localId' = [localId EXCEPT ![r] = v]
      /\ Advance(r) /\ UNCHANGED <<problem, global, lower, owner>>
  BY DEF ReduceLocalId
<1>2. k \in 1 .. 34 /\ Call(r) = Program[k] /\ k > 20
  BY <1>1, CallOf
<1>3. pc \in [Rank -> 0 .. 35] /\ global \in [Rank -> [Counted -> Int]]
      /\ lower \in [Rank -> [Counted -> Int]] /\ problem \in Problems
      /\ DOMAIN owner = Rank /\ DOMAIN localId = Rank
  BY DEF PartitionInv
<1>4. \A q \in Rank : pc[q] > 20
  <2>1. \A q \in Rank : pc[q] \in 0 .. 35 /\ pc[q] >= k
    BY <1>1, <1>3 DEF Entered
  <2> QED
    BY <1>2, <2>1
<1>5. IsTable(v) /\ \A q \in Rank, s \in LocalSdom : v[IdAt(q, s)] = s
  BY <1>4, SummedFacts
<1> HIDE DEF v
<1>6. DOMAIN localId' = Rank /\ localId'[r] = v /\ \A q \in Rank : q # r => localId'[q] = localId[q]
  BY <1>1, <1>3
<1>7. problem' = problem /\ global' = global /\ lower' = lower /\ owner' = owner
  BY <1>1
<1>8. Returned(r, k)'
  <2>1. Program[k].op = "local"
    BY <1>1, <1>2
  <2> QED
    BY <1>5, <1>6, <2>1 DEF Returned
<1>9. ASSUME NEW q \in Rank, NEW n \in 1 .. 34, Returned(q, n)
      PROVE  Returned(q, n)'
  <2>1. /\ IsTable(localId'[r])
        /\ \A p \in Rank, s \in LocalSdom : localId'[r][IdAt(p, s)] = s
    BY <1>5, <1>6
  <2>2. CASE q = r
    BY <1>7, <1>9, <2>1, <2>2 DEF Returned
  <2>3. CASE q # r
    BY <1>6, <1>7, <1>9, <2>3 DEF Returned
  <2> QED
    BY <2>2, <2>3
<1> QED
  BY <1>1, <1>3, <1>4, <1>6, <1>7, <1>8, <1>9, Kept

(* Stuttering.                                                             *)
LEMMA UnchangedInd == PartitionInv /\ UNCHANGED vars => PartitionInv'
<1> SUFFICES ASSUME PartitionInv, UNCHANGED vars PROVE PartitionInv'
  OBVIOUS
<1>1. problem' = problem /\ pc' = pc /\ global' = global /\ lower' = lower /\ owner' = owner
      /\ localId' = localId
  BY DEF vars
<1>2. ASSUME NEW r \in Rank, NEW n \in 1 .. 34, Returned(r, n)
      PROVE  Returned(r, n)'
  BY <1>1, <1>2 DEF Returned
<1> QED
  BY <1>1, <1>2 DEF PartitionInv

(* PartitionInv is an invariant of the decomposition, for every number of  *)
(* ranks and subdomains and every interleaving of the collective calls.    *)
THEOREM PartitionInvariant == Spec => []PartitionInv
<1>1. Init => PartitionInv
  BY InitInd
<1>2. PartitionInv /\ [Next]_vars => PartitionInv'
  <2> SUFFICES ASSUME PartitionInv, [Next]_vars PROVE PartitionInv'
    OBVIOUS
  <2>1. CASE \E r \in Rank : Abort(r)
    BY <2>1, AbortInd
  <2>2. CASE \E r \in Rank : AllReduce(r)
    BY <2>2, AllReduceInd
  <2>3. CASE \E r \in Rank : Scan(r)
    BY <2>3, ScanInd
  <2>4. CASE \E r \in Rank : ReduceOwner(r)
    BY <2>4, ReduceOwnerInd
  <2>5. CASE \E r \in Rank : ReduceLocalId(r)
    BY <2>5, ReduceLocalIdInd
  <2>6. CASE UNCHANGED vars
    BY <2>6, UnchangedInd
  <2> QED
    BY <2>1, <2>2, <2>3, <2>4, <2>5, <2>6 DEF Next, Done
<1> QED
  BY <1>1, <1>2, PTL DEF Spec

(* A rank behind the call that sums up the tables of local ids has both    *)
(* tables.                                                                 *)
LEMMA TablesReturned ==
  ASSUME PartitionInv, NEW r \in Rank, pc[r] = After("local", "PQR")
  PROVE  /\ \A q \in Rank : pc[q] > 20
         /\ IsTable(owner[r]) /\ IsTable(localId[r])
         /\ DOMAIN owner[r] = 0 .. TableSize - 1
         /\ \A q \in Rank, s \in LocalSdom : /\ owner[r][IdAt(q, s)] = q
                                             /\ localId[r][IdAt(q, s)] = s
<1>1. PICK n \in 22 .. 34 : pc[r] = n + 1 /\ Program[n] = [op |-> "local", of |-> "PQR"]
  BY Behind
<1>2. Returned(r, n) /\ Returned(r, 21) /\ \A q \in Rank : pc[q] > 20
  BY <1>1 DEF PartitionInv
<1>3. Program[n].op = "local" /\ Program[21].op = "owner"
  BY <1>1, Calls
<1>4. IsTable(owner[r]) /\ IsTable(localId[r])
  BY <1>2, <1>3 DEF Returned
<1>5. DOMAIN owner[r] = 0 .. TableSize - 1
  BY <1>4 DEF IsTable
<1> QED
  BY <1>2, <1>3, <1>4, <1>5 DEF Returned

(* Every rank finds every subdomain at its owner and under its owner's     *)
(* local id: the ids that the ranks compute from the sums they have been   *)
(* given, each at its own time, are all different and fill the tables.     *)
THEOREM TablesAreExact == Spec => []TablesExact
<1>1. PartitionInv => TablesExact
  <2> SUFFICES ASSUME PartitionInv, NEW r \in Rank, pc[r] = After("local", "PQR")
               PROVE  /\ DOMAIN owner[r] = 0 .. Cardinality(Rank) * NumSubdomains("PQR") - 1
                      /\ \A q \in Rank, s \in LocalSdom : /\ owner[r][GlobalId(q, s)] = q
                                                          /\ localId[r][GlobalId(q, s)] = s
    BY DEF TablesExact
  <2> QED
    BY TablesReturned, PlacesReturned DEF TableSize
<1> QED
  BY <1>1, PartitionInvariant, PTL

-----------------------------------------------------------------------------
(* Sets over the ranks.                                                    *)

(* Where chunk c of a set should begin on its rank.                        *)
ChunkFrom(pr, q, set, c) == SumFunction([d \in 0 .. c - 1 |-> SizeOf(pr, q, set, d)])

(* The chunks of a rank hold its elements one after another.               *)
LEMMA ChunkTiling ==
  ASSUME NEW pr \in Problems, NEW q \in Rank, NEW set \in DOMAIN SetSpace
  PROVE  LET S == Chunks(SetSpace[set])
         IN  /\ \A c \in S : /\ ChunkFrom(pr, q, set, c) \in Nat
                             /\ ChunkFrom(pr, q, set, c) + SizeOf(pr, q, set, c)
                                  <= TotalOf(pr, q, set)
             /\ \A c, d \in S : c < d => ChunkFrom(pr, q, set, c) + SizeOf(pr, q, set, c)
                                           <= ChunkFrom(pr, q, set, d)
             /\ \A x \in Nat : x < TotalOf(pr, q, set) =>
                  \E c \in S : /\ ChunkFrom(pr, q, set, c) <= x
                               /\ x < ChunkFrom(pr, q, set, c) + SizeOf(pr, q, set, c)
<1> DEFINE S == Chunks(SetSpace[set])
           t == [c \in S |-> SizeOf(pr, q, set, c)]
           key == [c \in S |-> c]
<1>1. SetSpace[set] \in Space /\ IsFiniteSet(S) /\ S \subseteq Nat
  BY SetSpaceFacts, ChunksType
<1>2. \A c \in S : t[c] = SizeOf(pr, q, set, c) /\ t[c] \in Nat /\ key[c] = c /\ key[c] \in Nat
  BY <1>1, SizeType
<1>3. \A c \in S : 0 .. c - 1 \subseteq S /\ {d \in S : d < c} = 0 .. c - 1
  <2> TAKE c \in S
  <2>1. c \in 0 .. NumSubdomains(SetSpace[set]) - 1 /\ S = 0 .. NumSubdomains(SetSpace[set]) - 1
        /\ NumSubdomains(SetSpace[set]) \in Nat
    BY <1>1, ChunksType DEF Chunks
  <2>2. \A d : d \in 0 .. c - 1 <=> d \in S /\ d < c
    BY <2>1
  <2> HIDE DEF S
  <2> QED
    BY <2>2
<1>4. TotalOf(pr, q, set) = SumFunctionOnSet(t, S)
  BY DEF TotalOf, SumFunction
<1> HIDE DEF t, key, S
<1>5. \A c \in S : Smaller(S, key, c) = 0 .. c - 1
  <2> TAKE c \in S
  <2>1. Smaller(S, key, c) = {d \in S : d < c}
    BY <1>2 DEF Smaller
  <2> QED
    BY <1>3, <2>1
<1>6. ASSUME NEW c \in S
      PROVE  ChunkFrom(pr, q, set, c) = SumFunctionOnSet(t, Smaller(S, key, c))
  <2> DEFINE I == 0 .. c - 1
             g == [d \in I |-> SizeOf(pr, q, set, d)]
  <2>1. \A d \in I : g[d] = t[d] /\ g[d] \in Int
    BY <1>2, <1>3
  <2>2. IsFiniteSet(I)
    BY <1>1, <1>3, FS_Subset
  <2>3. DOMAIN g = I
    OBVIOUS
  <2>4. ChunkFrom(pr, q, set, c) = SumFunction(g)
    BY DEF ChunkFrom
  <2>5. Smaller(S, key, c) = I
    BY <1>5
  <2> HIDE DEF g, I
  <2>6. SumFunctionOnSet(g, I) = SumFunctionOnSet(t, I)
    BY <2>1, <2>2, SumSame
  <2> QED
    BY <2>3, <2>4, <2>5, <2>6 DEF SumFunction
<1>7. \A c, d \in S : key[c] = key[d] => c = d
  BY <1>2
<1>8. \A p \in S : key[p] \in Nat /\ t[p] \in Nat
  BY <1>2
<1>9. /\ \A p \in S :
           /\ SumFunctionOnSet(t, Smaller(S, key, p)) \in Nat
           /\ SumFunctionOnSet(t, Smaller(S, key, p)) + t[p] <= SumFunctionOnSet(t, S)
      /\ \A p, d \in S : key[p] < key[d] =>
           SumFunctionOnSet(t, Smaller(S, key, p)) + t[p]
             <= SumFunctionOnSet(t, Smaller(S, key, d))
      /\ \A x \in Nat : x < SumFunctionOnSet(t, S) =>
           \E p \in S : /\ SumFunctionOnSet(t, Smaller(S, key, p)) <= x
                        /\ x < SumFunctionOnSet(t, Smaller(S, key, p)) + t[p]
  BY <1>1, <1>7, <1>8, Tiling
<1>10. \A c \in S : /\ ChunkFrom(pr, q, set, c) \in Nat
                    /\ ChunkFrom(pr, q, set, c) + SizeOf(pr, q, set, c) <= TotalOf(pr, q, set)
  BY <1>2, <1>4, <1>6, <1>9
<1>11. \A c, d \in S : c < d => ChunkFrom(pr, q, set, c) + SizeOf(pr, q, set, c)
                                  <= ChunkFrom(pr, q, set, d)
  BY <1>2, <1>6, <1>9
<1>12. ASSUME NEW x \in Nat, x < TotalOf(pr, q, set)
       PROVE  \E c \in S : /\ ChunkFrom(pr, q, set, c) <= x
                           /\ x < ChunkFrom(pr, q, set, c) + SizeOf(pr, q, set, c)
  <2>1. PICK c \in S : /\ SumFunctionOnSet(t, Smaller(S, key, c)) <= x
                       /\ x < SumFunctionOnSet(t, Smaller(S, key, c)) + t[c]
    BY <1>4, <1>9, <1>12
  <2> QED
    BY <1>2, <1>6, <2>1
<1> QED
  BY <1>10, <1>11, <1>12 DEF S

(* The ranks of a communicator hold consecutive parts of what they count.  *)
LEMMA RankTiling ==
  ASSUME NEW pr \in Problems, NEW r \in Rank, NEW x \in Counted
  PROVE  LET M == Members(SpaceOf(x), r)
         IN  /\ \A q \in M : /\ LowerOf(pr, q, x) \in Nat
                             /\ LowerOf(pr, q, x) + TotalOf(pr, q, x) <= GlobalOf(pr, r, x)
             /\ \A p, q \in M : p # q =>
                  \/ LowerOf(pr, p, x) + TotalOf(pr, p, x) <= LowerOf(pr, q, x)
                  \/ LowerOf(pr, q, x) + TotalOf(pr, q, x) <= LowerOf(pr, p, x)
             /\ \A i \in Nat : i < GlobalOf(pr, r, x) =>
                  \E q \in M : /\ LowerOf(pr, q, x) <= i
                               /\ i < LowerOf(pr, q, x) + TotalOf(pr, q, x)
<1> DEFINE M == Members(SpaceOf(x), r)
           t == [q \in M |-> TotalOf(pr, q, x)]
           key == [q \in M |-> Key(SpaceOf(x), q)]
<1>1. SpaceOf(x) \in Space
  BY SetSpaceFacts
<1>2. /\ IsFiniteSet(M) /\ M \subseteq Rank
      /\ \A q \in M : Members(SpaceOf(x), q) = M
      /\ \A q \in M : Key(SpaceOf(x), q) \in Nat
      /\ \A p, q \in M : Key(SpaceOf(x), p) = Key(SpaceOf(x), q) => p = q
  BY <1>1, MembersFacts
<1>3. \A q \in M : /\ t[q] = TotalOf(pr, q, x) /\ t[q] \in Nat
                   /\ key[q] = Key(SpaceOf(x), q) /\ key[q] \in Nat
  BY <1>2, TotalType
<1>4. GlobalOf(pr, r, x) = SumFunctionOnSet(t, M)
  BY DEF GlobalOf, SumFunction
<1> HIDE DEF t, key, M
<1>5. \A q \in M : Smaller(M, key, q) = Before(SpaceOf(x), q)
  BY <1>2, <1>3 DEF Smaller, Before
<1>6. ASSUME NEW p \in M
      PROVE  LowerOf(pr, p, x) = SumFunctionOnSet(t, Smaller(M, key, p))
  <2> DEFINE B == Before(SpaceOf(x), p)
             g == [q \in B |-> TotalOf(pr, q, x)]
  <2>1. B \subseteq M
    BY <1>5 DEF Smaller
  <2>2. \A q \in B : g[q] = t[q] /\ g[q] \in Int
    BY <1>3, <2>1
  <2>3. IsFiniteSet(B)
    BY <1>2, <2>1, FS_Subset
  <2>4. DOMAIN g = B
    OBVIOUS
  <2>5. LowerOf(pr, p, x) = SumFunction(g)
    BY DEF LowerOf
  <2>6. Smaller(M, key, p) = B
    BY <1>5
  <2> HIDE DEF g, B
  <2>7. SumFunctionOnSet(g, B) = SumFunctionOnSet(t, B)
    BY <2>2, <2>3, SumSame
  <2> QED
    BY <2>4, <2>5, <2>6, <2>7 DEF SumFunction
<1>7. \A p, q \in M : key[p] = key[q] => p = q
  BY <1>2, <1>3
<1>8. \A p \in M : key[p] \in Nat /\ t[p] \in Nat
  BY <1>3
<1>9. /\ \A p \in M :
           /\ SumFunctionOnSet(t, Smaller(M, key, p)) \in Nat
           /\ SumFunctionOnSet(t, Smaller(M, key, p)) + t[p] <= SumFunctionOnSet(t, M)
      /\ \A p, q \in M : key[p] < key[q] =>
           SumFunctionOnSet(t, Smaller(M, key, p)) + t[p]
             <= SumFunctionOnSet(t, Smaller(M, key, q))
      /\ \A i \in Nat : i < SumFunctionOnSet(t, M) =>
           \E p \in M : /\ SumFunctionOnSet(t, Smaller(M, key, p)) <= i
                        /\ i < SumFunctionOnSet(t, Smaller(M, key, p)) + t[p]
  BY <1>2, <1>7, <1>8, Tiling
<1>10. \A q \in M : /\ LowerOf(pr, q, x) \in Nat
                    /\ LowerOf(pr, q, x) + TotalOf(pr, q, x) <= GlobalOf(pr, r, x)
  BY <1>3, <1>4, <1>6, <1>9
<1>11. ASSUME NEW p \in M, NEW q \in M, p # q
       PROVE  \/ LowerOf(pr, p, x) + TotalOf(pr, p, x) <= LowerOf(pr, q, x)
              \/ LowerOf(pr, q, x) + TotalOf(pr, q, x) <= LowerOf(pr, p, x)
  <2>1. key[p] < key[q] \/ key[q] < key[p]
    BY <1>7, <1>8, <1>11
  <2> QED
    BY <1>3, <1>6, <1>9, <2>1
<1>12. ASSUME NEW i \in Nat, i < GlobalOf(pr, r, x)
       PROVE  \E q \in M : /\ LowerOf(pr, q, x) <= i
                           /\ i < LowerOf(pr, q, x) + TotalOf(pr, q, x)
  <2>1. PICK p \in M : /\ SumFunctionOnSet(t, Smaller(M, key, p)) <= i
                       /\ i < SumFunctionOnSet(t, Smaller(M, key, p)) + t[p]
    BY <1>4, <1>9, <1>12
  <2> QED
    BY <1>3, <1>6, <2>1
<1> QED
  BY <1>10, <1>11, <1>12 DEF M

(* A rank behind a set's scan has its total and its part of it.            *)
LEMMA SetReturned ==
  ASSUME PartitionInv, NEW set \in DOMAIN SetSpace, NEW q \in Rank, pc[q] >= After("scan", set)
  PROVE  /\ pc[q] > 20
         /\ global[q][set] = GlobalOf(problem, q, set)
         /\ lower[q][set] = LowerOf(problem, q, set)
         /\ set \in ZoneSets =>
              (problem[set] \div SpaceTotal(q, SetSpace[set])) * SpaceTotal(q, SetSpace[set]) = problem[set]
         /\ \A c : /\ ChunkSize(q, set, c) = SizeOf(problem, q, set, c)
                   /\ ChunkLower(q, set, c) = LowerOf(problem, q, set) + ChunkFrom(problem, q, set, c)
<1>1. PICK n \in 22 .. 34 : After("scan", set) = n + 1 /\ Program[n] = Prefix(set)
                            /\ Program[n - 1] = Reduce(set)
  BY Behind
<1>2. pc[q] \in 0 .. 35
  <2>1. pc \in [Rank -> 0 .. 35]
    BY DEF PartitionInv
  <2> QED
    BY <2>1
<1>3. n < pc[q] /\ n - 1 < pc[q] /\ pc[q] > 20 /\ n \in 1 .. 34 /\ n - 1 \in 1 .. 34
  BY <1>1, <1>2
<1>4. Returned(q, n) /\ Returned(q, n - 1)
  <2>1. \A m \in 1 .. 34 : m < pc[q] => Returned(q, m)
    BY DEF PartitionInv
  <2> QED
    BY <1>3, <2>1
<1>5. /\ Program[n].op = "scan" /\ Program[n].of = set
      /\ Program[n - 1].op = "reduce" /\ Program[n - 1].of = set
  BY <1>1, CallFields
<1>6. /\ global[q][set] = GlobalOf(problem, q, set)
      /\ lower[q][set] = LowerOf(problem, q, set)
      /\ set \in ZoneSets =>
           (problem[set] \div SpaceTotal(q, SetSpace[set])) * SpaceTotal(q, SetSpace[set]) = problem[set]
  BY <1>4, <1>5 DEF Returned
<1>7. set \in Counted
  BY SetSpaceFacts
<1>8. \A c : ChunkSize(q, set, c) = SizeOf(problem, q, set, c)
  BY <1>3, <1>7, Counting
<1>9. ASSUME NEW c
      PROVE  ChunkLower(q, set, c) = LowerOf(problem, q, set) + ChunkFrom(problem, q, set, c)
  <2>1. [d \in 0 .. c - 1 |-> ChunkSize(q, set, d)] = [d \in 0 .. c - 1 |-> SizeOf(problem, q, set, d)]
    BY <1>8
  <2>2. ChunkSum(q, set, 0 .. c - 1) = ChunkFrom(problem, q, set, c)
    BY <2>1 DEF ChunkSum, ChunkFrom
  <2> QED
    BY <1>6, <2>2 DEF ChunkLower
<1> QED
  BY <1>3, <1>6, <1>8, <1>9

(* Each element of a set is in one chunk of one rank of its communicator.  *)
LEMMA OneHolder ==
  ASSUME NEW pr \in Problems, NEW r \in Rank, NEW set \in DOMAIN SetSpace,
         NEW x \in Nat, x < GlobalOf(pr, r, set)
  PROVE  LET M == Members(SetSpace[set], r)
             S == Chunks(SetSpace[set])
             Holds(q, c) ==
               /\ LowerOf(pr, q, set) + ChunkFrom(pr, q, set, c) <= x
               /\ x < LowerOf(pr, q, set) + ChunkFrom(pr, q, set, c) + SizeOf(pr, q, set, c)
         IN  /\ \E q \in M, c \in S : Holds(q, c)
             /\ \A p, q \in M, c, d \in S : Holds(p, c) /\ Holds(q, d) => p = q /\ c = d
<1> DEFINE M == Members(SetSpace[set], r)
           S == Chunks(SetSpace[set])
           Lo(q) == LowerOf(pr, q, set)
           T(q) == TotalOf(pr, q, set)
           F(q, c) == ChunkFrom(pr, q, set, c)
           Z(q, c) == SizeOf(pr, q, set, c)
           Holds(q, c) == Lo(q) + F(q, c) <= x /\ x < Lo(q) + F(q, c) + Z(q, c)
<1>1. SpaceOf(set) = SetSpace[set] /\ set \in Counted /\ SetSpace[set] \in Space
  BY SetSpaceFacts
<1>2. M \subseteq Rank /\ S \subseteq Nat
  BY <1>1, MembersFacts, ChunksType
<1>3. /\ \A q \in M : Lo(q) \in Nat
      /\ \A p, q \in M : p # q => Lo(p) + T(p) <= Lo(q) \/ Lo(q) + T(q) <= Lo(p)
      /\ \E q \in M : Lo(q) <= x /\ x < Lo(q) + T(q)
  BY <1>1, RankTiling
<1>4. \A q \in M : /\ \A c \in S : F(q, c) \in Nat /\ F(q, c) + Z(q, c) <= T(q)
                   /\ \A c, d \in S : c < d => F(q, c) + Z(q, c) <= F(q, d)
                   /\ \A y \in Nat : y < T(q) => \E c \in S : F(q, c) <= y /\ y < F(q, c) + Z(q, c)
  <2> TAKE q \in M
  <2>1. q \in Rank
    BY <1>2
  <2> QED
    BY <2>1, ChunkTiling
<1>5. \A q \in M : T(q) \in Nat /\ \A c \in S : Z(q, c) \in Nat
  BY <1>1, <1>2, TotalType, SizeType
<1> HIDE DEF M, S, Lo, T, F, Z
<1>6. \E q \in M, c \in S : Holds(q, c)
  <2>1. PICK q \in M : Lo(q) <= x /\ x < Lo(q) + T(q)
    BY <1>3
  <2>2. Lo(q) \in Nat /\ T(q) \in Nat
    BY <1>3, <1>5
  <2>3. x - Lo(q) \in Nat /\ x - Lo(q) < T(q)
    BY <2>1, <2>2
  <2>4. PICK c \in S : F(q, c) <= x - Lo(q) /\ x - Lo(q) < F(q, c) + Z(q, c)
    BY <1>4, <2>3
  <2>5. F(q, c) \in Nat /\ Z(q, c) \in Nat
    BY <1>4, <1>5
  <2>6. Holds(q, c)
    BY <2>2, <2>4, <2>5
  <2> QED
    BY <2>6
<1>7. ASSUME NEW p \in M, NEW q \in M, NEW c \in S, NEW d \in S, Holds(p, c), Holds(q, d)
      PROVE  p = q /\ c = d
  <2>1. /\ Lo(p) \in Nat /\ Lo(q) \in Nat /\ T(p) \in Nat /\ T(q) \in Nat
        /\ F(p, c) \in Nat /\ F(q, d) \in Nat /\ Z(p, c) \in Nat /\ Z(q, d) \in Nat
        /\ F(p, c) + Z(p, c) <= T(p) /\ F(q, d) + Z(q, d) <= T(q)
    BY <1>3, <1>4, <1>5
  <2>2. p = q
    <3>1. ~ Lo(p) + T(p) <= Lo(q)
      BY <1>7, <2>1
    <3>2. ~ Lo(q) + T(q) <= Lo(p)
      BY <1>7, <2>1
    <3> QED
      BY <1>3, <3>1, <3>2
  <2>3. c = d
    <3>1. ~ c < d
      <4>1. SUFFICES ASSUME c < d PROVE FALSE
        OBVIOUS
      <4>2. F(p, c) + Z(p, c) <= F(p, d)
        BY <1>4, <4>1
      <4> QED
        BY <1>7, <2>1, <2>2, <4>2
    <3>2. ~ d < c
      <4>1. SUFFICES ASSUME d < c PROVE FALSE
        OBVIOUS
      <4>2. F(q, d) + Z(q, d) <= F(q, c)
        BY <1>4, <4>1
      <4> QED
        BY <1>7, <2>1, <2>2, <4>2
    <3>3. c \in Int /\ d \in Int
      BY <1>2
    <3> QED
      BY <3>1, <3>2, <3>3
  <2> QED
    BY <2>2, <2>3
<1> QED
  BY <1>6, <1>7 DEF M, S, Lo, T, F, Z

(* The ranks of a set's communicator hold consecutive ranges of it, and    *)
(* each element is in one chunk of one of them, however unevenly the ranks *)
(* and chunks have filled it: no element is in two, and once all ranks     *)
(* have their offset none is in none.                                      *)
THEOREM SetsAreTiled == Spec => []SetsTile
<1>1. ASSUME PartitionInv, NEW set \in DOMAIN SetSpace, NEW r \in Rank,
             pc[r] = After("scan", set), NEW x \in 0 .. global[r][set] - 1
      PROVE  LET ranks == {q \in Members(SetSpace[set], r) : pc[q] >= After("scan", set)}
                 holders == {qc \in ranks \X Chunks(SetSpace[set]) :
                               /\ ChunkLower(qc[1], set, qc[2]) <= x
                               /\ x < ChunkLower(qc[1], set, qc[2]) + ChunkSize(qc[1], set, qc[2])}
             IN  /\ Cardinality(holders) <= 1
                 /\ ranks = Members(SetSpace[set], r) => Cardinality(holders) = 1
  <2> DEFINE M == Members(SetSpace[set], r)
             S == Chunks(SetSpace[set])
             ranks == {q \in M : pc[q] >= After("scan", set)}
             holders == {qc \in ranks \X S :
                           /\ ChunkLower(qc[1], set, qc[2]) <= x
                           /\ x < ChunkLower(qc[1], set, qc[2]) + ChunkSize(qc[1], set, qc[2])}
             Holds(q, c) ==
               /\ LowerOf(problem, q, set) + ChunkFrom(problem, q, set, c) <= x
               /\ x < LowerOf(problem, q, set) + ChunkFrom(problem, q, set, c)
                        + SizeOf(problem, q, set, c)
  <2>1. problem \in Problems /\ SetSpace[set] \in Space /\ set \in Counted
    BY <1>1, SetSpaceFacts DEF PartitionInv
  <2>2. M \subseteq Rank
    BY <2>1, MembersFacts
  <2>3. pc[r] >= After("scan", set)
    <3>1. pc \in [Rank -> 0 .. 35]
      BY <1>1 DEF PartitionInv
    <3>2. pc[r] \in 0 .. 35
      BY <3>1
    <3> QED
      BY <1>1, <3>2
  <2>4. global[r][set] = GlobalOf(problem, r, set) /\ GlobalOf(problem, r, set) \in Nat
    BY <1>1, <2>1, <2>3, SetReturned, GlobalType
  <2>5. x \in Nat /\ x < GlobalOf(problem, r, set)
    BY <2>4
  <2>6. \A q \in ranks, c \in S :
          /\ ChunkLower(q, set, c) = LowerOf(problem, q, set) + ChunkFrom(problem, q, set, c)
          /\ ChunkSize(q, set, c) = SizeOf(problem, q, set, c)
    BY <1>1, <2>2, SetReturned
  <2>7. /\ \E q \in M, c \in S : Holds(q, c)
        /\ \A p, q \in M, c, d \in S : Holds(p, c) /\ Holds(q, d) => p = q /\ c = d
    BY <2>1, <2>5, OneHolder
  <2> HIDE DEF M, S, Holds
  <2>8. ranks \subseteq M
    OBVIOUS
  <2>9. \A qc : qc \in holders <=> \E q \in ranks, c \in S : qc = <<q, c>> /\ Holds(q, c)
    BY <2>6 DEF Holds
  <2> HIDE DEF holders, ranks
  <2>10. \A u, w \in holders : u = w
    <3> TAKE u, w \in holders
    <3>1. PICK p \in ranks, c \in S : u = <<p, c>> /\ Holds(p, c)
      BY <2>9
    <3>2. PICK q \in ranks, d \in S : w = <<q, d>> /\ Holds(q, d)
      BY <2>9
    <3>3. p = q /\ c = d
      BY <2>7, <2>8, <3>1, <3>2
    <3> QED
      BY <3>1, <3>2, <3>3
  <2>11. CASE holders = {}
    <3>1. Cardinality(holders) = 0
      BY <2>11, FS_EmptySet
    <3>2. ranks # M
      BY <2>7, <2>9, <2>11
    <3> QED
      BY <3>1, <3>2 DEF holders, ranks, M, S
  <2>12. CASE holders # {}
    <3>1. PICK u : u \in holders
      BY <2>12
    <3>2. holders = {u}
      BY <2>10, <3>1
    <3>3. Cardinality(holders) = 1
      BY <3>2, FS_Singleton
    <3> QED
      BY <3>3 DEF holders, ranks, M, S
  <2> QED
    BY <2>11, <2>12
<1>2. PartitionInv => SetsTile
  BY <1>1 DEF SetsTile
<1> QED
  BY <1>2, PartitionInvariant, PTL

-----------------------------------------------------------------------------
(* Zones.                                                                  *)

(* Zones of dimension d lie in the space of its axis.                      *)
LEMMA ZoneSpaces ==
  ASSUME NEW d \in 0 .. 2, NEW set, set = <<"ZoneI", "ZoneJ", "ZoneK">>[d + 1]
  PROVE  /\ set \in DOMAIN SetSpace /\ set \in ZoneSets /\ set # "MixElem"
         /\ d + 2 \in Axis5 /\ AxesOf[SetSpace[set]] = {d + 2}
<1>1. d = 0 \/ d = 1 \/ d = 2
  OBVIOUS
<1>2. 2 \in Axis5 /\ 3 \in Axis5 /\ 4 \in Axis5
  BY DEF Axis5
<1>3. CASE d = 0
  BY <1>2, <1>3 DEF SetSpace, ZoneSets, AxesOf
<1>4. CASE d = 1
  BY <1>2, <1>4 DEF SetSpace, ZoneSets, AxesOf
<1>5. CASE d = 2
  BY <1>2, <1>5 DEF SetSpace, ZoneSets, AxesOf
<1> QED
  BY <1>1, <1>3, <1>4, <1>5

(* Zones are dealt out in equal shares.                                    *)
LEMMA EqualShares ==
  ASSUME NEW pr \in Problems, NEW set \in DOMAIN SetSpace, set # "MixElem",
         NEW b \in Axis5, AxesOf[SetSpace[set]] = {b}, NEW r \in Rank
  PROVE  LET z == pr[set] \div Extents[b]
         IN  /\ z \in Nat
             /\ \A c : SizeOf(pr, r, set, c) = z
             /\ \A c \in Nat : ChunkFrom(pr, r, set, c) = c * z
             /\ LowerOf(pr, r, set) = CoordOf(r)[b] * (NumLocal[b] * z)
             /\ GlobalOf(pr, r, set) = NumProcs[b] * (NumLocal[b] * z)
<1> DEFINE z == pr[set] \div Extents[b]
           space == SetSpace[set]
           K == NumLocal[b]
<1>1. space \in Space /\ set \in Counted /\ SpaceOf(set) = space
  BY SetSpaceFacts
<1>2. \A q \in Rank : \A c : SizeOf(pr, q, set, c) = z
  BY <1>1, OneDimensional DEF SizeOf
<1>3. z \in Nat
  <2>1. pr[set] \in Nat
    BY SetSpaceFacts, PartitionAssumption
  <2>2. Extents[b] \in Nat \ {0}
    BY BoxFacts
  <2>3. \A x \in Nat, y \in Nat \ {0} : x \div y \in Nat
    OBVIOUS
  <2> QED
    BY <2>1, <2>2, <2>3
<1>4. K \in Nat \ {0} /\ NumSubdomains(space) = K /\ Cardinality(Chunks(space)) = K
      /\ IsFiniteSet(Chunks(space))
  BY <1>1, OneDimensional, LocalBox, ChunksType
<1> HIDE DEF z, space, K
<1>5. \A q \in Rank : TotalOf(pr, q, set) = K * z
  <2> TAKE q \in Rank
  <2> DEFINE S == Chunks(space)
             g == [c \in S |-> SizeOf(pr, q, set, c)]
  <2>1. \A c \in S : g[c] = z
    BY <1>2
  <2>2. DOMAIN g = S /\ TotalOf(pr, q, set) = SumFunction(g)
    BY DEF TotalOf, space
  <2>3. IsFiniteSet(S) /\ Cardinality(S) = K /\ z \in Int
    BY <1>3, <1>4
  <2> HIDE DEF g, S
  <2>4. SumFunctionOnSet(g, S) = Cardinality(S) * z
    BY <2>1, <2>3, SumConstant
  <2> QED
    BY <2>2, <2>3, <2>4 DEF SumFunction
<1>6. \A c \in Nat : ChunkFrom(pr, r, set, c) = c * z
  <2> TAKE c \in Nat
  <2> DEFINE I == 0 .. c - 1
             g == [d \in I |-> SizeOf(pr, r, set, d)]
  <2>1. \A d \in I : g[d] = z
    BY <1>2
  <2>2. DOMAIN g = I /\ ChunkFrom(pr, r, set, c) = SumFunction(g)
    BY DEF ChunkFrom
  <2>3. IsFiniteSet(I) /\ Cardinality(I) = c /\ z \in Int
    <3>1. c - 1 \in Int /\ 0 \in Int
      OBVIOUS
    <3>2. IsFiniteSet(I) /\ Cardinality(I) = IF 0 > c - 1 THEN 0 ELSE (c - 1) - 0 + 1
      BY <3>1, FS_Interval
    <3> QED
      BY <1>3, <3>2
  <2> HIDE DEF g, I
  <2>4. SumFunctionOnSet(g, I) = Cardinality(I) * z
    BY <2>1, <2>3, SumConstant
  <2> QED
    BY <2>2, <2>3, <2>4 DEF SumFunction
<1>7. LowerOf(pr, r, set) = CoordOf(r)[b] * (K * z) /\ GlobalOf(pr, r, set) = NumProcs[b] * (K * z)
  <2> DEFINE M == Members(space, r)
             B == Before(space, r)
             w == K * z
             g == [q \in M |-> TotalOf(pr, q, set)]
             h == [q \in B |-> TotalOf(pr, q, set)]
  <2>1. IsFiniteSet(M) /\ M \subseteq Rank /\ B \subseteq M
    BY <1>1, MembersFacts DEF Before
  <2>2. IsFiniteSet(B)
    BY <2>1, FS_Subset
  <2>3. (\A q \in M : g[q] = w) /\ (\A q \in B : h[q] = w)
    BY <1>5, <2>1
  <2>4. DOMAIN g = M /\ DOMAIN h = B
    OBVIOUS
  <2>5. GlobalOf(pr, r, set) = SumFunction(g) /\ LowerOf(pr, r, set) = SumFunction(h)
    BY <1>1 DEF GlobalOf, LowerOf
  <2>6. w \in Int
    BY <1>3, <1>4
  <2>7. Cardinality(M) = NumProcs[b] /\ Cardinality(B) = CoordOf(r)[b]
    BY <1>1, AlongOne DEF space
  <2> HIDE DEF g, h, M, B, w
  <2>8. SumFunctionOnSet(g, M) = Cardinality(M) * w /\ SumFunctionOnSet(h, B) = Cardinality(B) * w
    BY <2>1, <2>2, <2>3, <2>6, SumConstant
  <2> QED
    BY <2>4, <2>5, <2>7, <2>8 DEF SumFunction, w
<1> QED
  BY <1>2, <1>3, <1>6, <1>7 DEF z, K

(* Each subdomain's zones are where its coordinate in the subdomain graph  *)
(* says, and the sets have as many zones as the input asks for: an uneven  *)
(* division has aborted all ranks before the set is made.                  *)
THEOREM ZonesAreWhereTheGridSays == Spec => []ZonesFollowGrid
<1>1. ASSUME PartitionInv, NEW d \in 0 .. 2, NEW r \in Rank, NEW set,
             set = <<"ZoneI", "ZoneJ", "ZoneK">>[d + 1], pc[r] = After("scan", set)
      PROVE  /\ global[r][set] = problem[set]
             /\ \A s \in LocalSdom :
                  LET c == ChunkOf(SetSpace[set], s)
                  IN  ChunkLower(r, set, c) =
                        CoordToGlobalCoord(r, SdomIdToCoord(s))[d + 2] * ChunkSize(r, set, c)
  <2> DEFINE b == d + 2
             E == Extents[b]
             z == problem[set] \div E
             K == NumLocal[b]
             P == NumProcs[b]
             g == CoordOf(r)[b]
  <2>1. /\ set \in DOMAIN SetSpace /\ set \in ZoneSets /\ set # "MixElem"
        /\ b \in Axis5 /\ AxesOf[SetSpace[set]] = {b}
    BY <1>1, ZoneSpaces
  <2>2. problem \in Problems /\ SetSpace[set] \in Space
    BY <1>1, <2>1, SetSpaceFacts DEF PartitionInv
  <2>3. pc[r] >= After("scan", set)
    <3>1. pc \in [Rank -> 0 .. 35]
      BY <1>1 DEF PartitionInv
    <3>2. pc[r] \in 0 .. 35
      BY <3>1
    <3> QED
      BY <1>1, <3>2
  <2> HIDE DEF b
  <2>4. /\ z \in Nat
        /\ \A c : SizeOf(problem, r, set, c) = z
        /\ \A c \in Nat : ChunkFrom(problem, r, set, c) = c * z
        /\ LowerOf(problem, r, set) = g * (K * z)
        /\ GlobalOf(problem, r, set) = P * (K * z)
    BY <2>1, <2>2, EqualShares
  <2>5. /\ pc[r] > 20
        /\ global[r][set] = GlobalOf(problem, r, set)
        /\ (problem[set] \div SpaceTotal(r, SetSpace[set])) * SpaceTotal(r, SetSpace[set]) = problem[set]
        /\ \A c : /\ ChunkSize(r, set, c) = SizeOf(problem, r, set, c)
                  /\ ChunkLower(r, set, c) = LowerOf(problem, r, set) + ChunkFrom(problem, r, set, c)
    BY <1>1, <2>1, <2>3, SetReturned
  <2>6. SpaceTotal(r, SetSpace[set]) = E /\ E = P * K
    BY <2>1, <2>2, OneDimensional, BoxFacts
  <2>7. P \in Nat \ {0} /\ K \in Nat \ {0} /\ g \in Nat
    BY <2>1, LocalBox, RankFacts
  <2>8. z * E = problem[set]
    BY <2>5, <2>6
  <2> HIDE DEF z, E, K, P, g
  <2>9. global[r][set] = problem[set]
    <3>1. P * (K * z) = z * (P * K)
      BY <2>4, <2>7
    <3> QED
      BY <2>4, <2>5, <2>6, <2>8, <3>1
  <2>10. ASSUME NEW s \in LocalSdom, NEW c, c = ChunkOf(SetSpace[set], s)
         PROVE  ChunkLower(r, set, c) =
                  CoordToGlobalCoord(r, SdomIdToCoord(s))[b] * ChunkSize(r, set, c)
    <3>1. c = SdomIdToCoord(s)[b]
      BY <2>1, <2>2, <2>10, OneDimensional
    <3>2. c \in Nat
      BY <2>1, <3>1, LocalCoord, LocalBox
    <3>3. CoordToGlobalCoord(r, SdomIdToCoord(s))[b] = c + g * K
      BY <1>1, <2>1, <2>5, <3>1, PlacesReturned DEF PlaceOf, g, K
    <3>4. ChunkLower(r, set, c) = g * (K * z) + c * z /\ ChunkSize(r, set, c) = z
      BY <2>4, <2>5, <3>2
    <3>5. g * (K * z) + c * z = (c + g * K) * z
      <4>1. g * (K * z) = (g * K) * z /\ g * K \in Nat
        BY <2>4, <2>7
      <4>2. \A x, y, w \in Nat : y * w + x * w = (x + y) * w
        OBVIOUS
      <4> QED
        BY <2>4, <3>2, <4>1, <4>2
    <3> QED
      BY <3>3, <3>4, <3>5
  <2> QED
    BY <2>9, <2>10 DEF b
<1>2. PartitionInv => ZonesFollowGrid
  BY <1>1 DEF ZonesFollowGrid
<1> QED
  BY <1>2, PartitionInvariant, PTL

-----------------------------------------------------------------------------
(* The graph of SweepGrid.                                                 *)

(* Subdomains in space.                                                    *)
GridVolume == (Extents[2] * Extents[3]) * Extents[4]

(* The number of a place in space, k fastest.                              *)
SpaceNumber(c) == (c[2] * Extents[3] + c[3]) * Extents[4] + c[4]

(* SweepGrid's extents are those of the box in space.                      *)
LEMMA GridExtents ==
  /\ \A d \in 0 .. 2 : d + 2 \in Axis5 /\ Grid!GlobalNumSdom(d) = Extents[d + 2]
  /\ Grid!GlobalExtents[0] = Extents[2]
  /\ Grid!GlobalExtents[1] = Extents[3]
  /\ Grid!GlobalExtents[2] = Extents[4]
  /\ Grid!Volume(Grid!GlobalExtents) = GridVolume
<1>1. \A d \in 0 .. 2 : d + 2 \in Axis5 /\ Grid!GlobalNumSdom(d) = Extents[d + 2]
  BY BoxFacts DEF Axis5, Grid!GlobalNumSdom
<1>2. /\ Grid!GlobalExtents[0] = Extents[2]
      /\ Grid!GlobalExtents[1] = Extents[3]
      /\ Grid!GlobalExtents[2] = Extents[4]
  BY <1>1 DEF Grid!GlobalExtents, Grid!Dim
<1> QED
  BY <1>1, <1>2 DEF Grid!Volume, GridVolume

(* The number of a place: that of its sets, and then that in space.        *)
LEMMA NumberOfPlace ==
  ASSUME NEW c \in [Axis5 -> Nat]
  PROVE  Linearize(Extents, c) = (c[0] * NumLocal[1] + c[1]) * GridVolume + SpaceNumber(c)
<1> DEFINE e(a) == Extents[a]
           V == GridVolume
<1>1. 0 \in Axis5 /\ 1 \in Axis5 /\ 2 \in Axis5 /\ 3 \in Axis5 /\ 4 \in Axis5
  BY DEF Axis5
<1>2. Extents \in Layouts /\ \A a \in Axis5 : e(a) \in Nat \ {0} /\ OrOne(Extents[a]) = e(a)
  BY BoxFacts DEF OrOne
<1>3. /\ Run(Extents, 4) = 1 /\ Run(Extents, 3) = e(4) * Run(Extents, 4)
      /\ Run(Extents, 2) = e(3) * Run(Extents, 3) /\ Run(Extents, 1) = e(2) * Run(Extents, 2)
      /\ Run(Extents, 0) = e(1) * Run(Extents, 1)
  BY <1>1, <1>2, RunFacts
<1>4. e(1) = NumLocal[1] /\ NumLocal[1] \in Nat
  <2>1. Extents[1] = NumProcs[1] * NumLocal[1] /\ NumLocal[1] \in Nat
    BY <1>1, BoxFacts, LocalBox
  <2> QED
    BY <2>1, PartitionAssumption
<1>5. \A a \in Axis5 : Along(Extents, c, a) = c[a] * Run(Extents, a) /\ c[a] \in Nat
  BY <1>2 DEF Along
<1>6. Linearize(Extents, c) = c[0] * Run(Extents, 0) + c[1] * Run(Extents, 1)
        + c[2] * Run(Extents, 2) + c[3] * Run(Extents, 3) + c[4] * Run(Extents, 4)
  BY <1>1, <1>5 DEF Linearize
<1>7. V = (e(2) * e(3)) * e(4)
  BY DEF GridVolume
<1>8. SpaceNumber(c) = (c[2] * e(3) + c[3]) * e(4) + c[4]
  BY DEF SpaceNumber
<1> HIDE DEF e, V
<1>9. /\ Run(Extents, 3) = e(4) /\ Run(Extents, 2) = e(3) * e(4) /\ Run(Extents, 1) = V
      /\ Run(Extents, 0) = e(1) * V
  <2>1. Run(Extents, 3) = e(4)
    BY <1>1, <1>2, <1>3
  <2>2. e(2) * (e(3) * e(4)) = (e(2) * e(3)) * e(4)
    BY <1>1, <1>2
  <2> QED
    BY <1>3, <1>7, <2>1, <2>2
<1>10. V \in Nat
  <2>1. e(2) * e(3) \in Nat
    BY <1>1, <1>2
  <2> QED
    BY <1>1, <1>2, <1>7, <2>1
<1> DEFINE x(a) == c[a]
<1>11. \A a \in Axis5 : x(a) \in Nat
  BY <1>5
<1>12. Linearize(Extents, c) = x(0) * (e(1) * V) + x(1) * V + x(2) * (e(3) * e(4)) + x(3) * e(4) + x(4)
  <2>1. x(4) * 1 = x(4)
    BY <1>1, <1>11
  <2> QED
    BY <1>3, <1>6, <1>9, <2>1
<1> HIDE DEF x
<1>13. x(0) * (e(1) * V) = (x(0) * e(1)) * V /\ x(0) * e(1) \in Nat
  BY <1>1, <1>2, <1>10, <1>11
<1>14. x(2) * (e(3) * e(4)) = (x(2) * e(3)) * e(4) /\ x(2) * e(3) \in Nat
  BY <1>1, <1>2, <1>11
<1>15. \A u, v, w \in Nat : (u + v) * w = u * w + v * w /\ u * w \in Nat
  OBVIOUS
<1>16. (x(0) * e(1) + x(1)) * V = (x(0) * e(1)) * V + x(1) * V
       /\ (x(0) * e(1)) * V \in Nat /\ x(1) * V \in Nat
  BY <1>1, <1>10, <1>11, <1>13, <1>15
<1>17. (x(2) * e(3) + x(3)) * e(4) = (x(2) * e(3)) * e(4) + x(3) * e(4)
       /\ (x(2) * e(3)) * e(4) \in Nat /\ x(3) * e(4) \in Nat
  BY <1>1, <1>2, <1>11, <1>14, <1>15
<1>18. x(4) \in Nat
  BY <1>1, <1>11
<1> DEFINE A == (x(0) * e(1)) * V
           B == x(1) * V
           C == (x(2) * e(3)) * e(4)
           D == x(3) * e(4)
<1>19. Linearize(Extents, c) = A + B + C + D + x(4)
  BY <1>12, <1>13, <1>14
<1>20. (c[0] * NumLocal[1] + c[1]) * GridVolume = A + B
  BY <1>4, <1>16 DEF x, V
<1>21. SpaceNumber(c) = C + D + x(4)
  BY <1>8, <1>17 DEF x
<1>22. A \in Nat /\ B \in Nat /\ C \in Nat /\ D \in Nat
  BY <1>16, <1>17
<1> HIDE DEF A, B, C, D
<1> QED
  BY <1>18, <1>19, <1>20, <1>21, <1>22

(* A place's coordinates in SweepGrid.                                     *)
GridCoord(c) == [set |-> c[0] * NumLocal[1] + c[1], at |-> [d \in 0 .. 2 |-> c[d + 2]]]

(* A global id and SweepGrid's coordinates of it.                          *)
LEMMA GridIds ==
  ASSUME NEW c \in Indices(Extents)
  PROVE  /\ Grid!GlobalSdomId(GridCoord(c)) = Linearize(Extents, c)
         /\ Grid!IdToCoord(Linearize(Extents, c)) = GridCoord(c)
<1> DEFINE e(a) == Extents[a]
           x(a) == c[a]
           V == GridVolume
           i == Linearize(Extents, c)
           S == c[0] * NumLocal[1] + c[1]
           n == SpaceNumber(c)
<1>1. 0 \in Axis5 /\ 1 \in Axis5 /\ 2 \in Axis5 /\ 3 \in Axis5 /\ 4 \in Axis5
  BY DEF Axis5
<1>2. \A a \in Axis5 : e(a) \in Nat \ {0} /\ x(a) \in 0 .. e(a) - 1
  BY BoxFacts DEF Indices
<1>3. c \in [Axis5 -> Nat]
  BY DEF Indices
<1>4. i = S * V + n
  BY <1>3, NumberOfPlace
<1>5. V = (e(2) * e(3)) * e(4) /\ n = (x(2) * e(3) + x(3)) * e(4) + x(4)
  BY DEF GridVolume, SpaceNumber
<1>6. S \in Nat
  BY <1>1, <1>3, LocalBox
<1> HIDE DEF e, x, V, i, S, n
<1> DEFINE m == x(2) * e(3) + x(3)
           W == e(2) * e(3)
<1>7. m \in 0 .. W - 1 /\ W \in Nat \ {0} /\ m \div e(3) = x(2) /\ m % e(3) = x(3)
  <2>1. e(3) * x(2) + x(3) \in 0 .. e(2) * e(3) - 1
    BY <1>1, <1>2, DivInRange
  <2>2. e(3) * x(2) = x(2) * e(3) /\ e(2) * e(3) \in Nat \ {0}
    BY <1>1, <1>2
  <2>3. m = e(3) * x(2) + x(3) /\ m \in Int
    BY <1>1, <1>2, <2>2
  <2>4. m \in 0 .. W - 1 /\ W \in Nat \ {0}
    BY <2>1, <2>2, <2>3
  <2> HIDE DEF m, W
  <2>5. e(3) \in Nat \ {0} /\ x(2) \in Int /\ x(3) \in 0 .. e(3) - 1
    BY <1>1, <1>2
  <2>6. m \div e(3) = x(2) /\ m % e(3) = x(3)
    BY <2>3, <2>5, DivModUnique
  <2> QED
    BY <2>4, <2>6
<1>8. n = m * e(4) + x(4) /\ V = W * e(4)
  BY <1>5
<1> HIDE DEF m, W
<1>9. n \in 0 .. V - 1 /\ V \in Nat \ {0} /\ n \div e(4) = m /\ n % e(4) = x(4)
  <2>1. e(4) \in Nat \ {0} /\ x(4) \in 0 .. e(4) - 1
    BY <1>1, <1>2
  <2>2. e(4) * m + x(4) \in 0 .. W * e(4) - 1
    BY <1>7, <2>1, DivInRange
  <2>3. e(4) * m = m * e(4) /\ W * e(4) \in Nat \ {0} /\ m \in Int
    BY <1>7, <2>1
  <2>4. n = e(4) * m + x(4) /\ n \in Int
    BY <1>8, <2>1, <2>3
  <2>5. n \div e(4) = m /\ n % e(4) = x(4)
    BY <2>1, <2>3, <2>4, DivModUnique
  <2> QED
    BY <1>8, <2>2, <2>3, <2>4, <2>5
<1>10. i \div V = S /\ i % V = n
  <2>1. V * S = S * V /\ S \in Int /\ S * V \in Int
    BY <1>6, <1>9
  <2>2. i = V * S + n /\ i \in Int
    BY <1>4, <1>9, <2>1
  <2> QED
    BY <1>9, <2>1, <2>2, DivModUnique
<1>11. (n \div (e(3) * e(4))) % e(2) = x(2)
  <2> DEFINE U == e(3) * e(4)
             y == e(4) * x(3) + x(4)
  <2>1. e(4) \in Nat \ {0} /\ x(4) \in 0 .. e(4) - 1 /\ e(3) \in Nat \ {0} /\ x(3) \in 0 .. e(3) - 1
        /\ e(2) \in Nat \ {0} /\ x(2) \in 0 .. e(2) - 1
    BY <1>1, <1>2
  <2>2. y \in 0 .. U - 1
    BY <2>1, DivInRange
  <2>3. U \in Nat \ {0}
    BY <2>1
  <2>4. n = U * x(2) + y
    <3>1. m = x(2) * e(3) + x(3)
      BY DEF m
    <3>2. (x(2) * e(3)) * e(4) = U * x(2) /\ x(2) * e(3) \in Nat
      BY <2>1
    <3>3. \A u, v, w \in Nat : (u + v) * w = u * w + w * v /\ u * w \in Nat /\ w * v \in Nat
      OBVIOUS
    <3>4. m * e(4) = (x(2) * e(3)) * e(4) + e(4) * x(3) /\ (x(2) * e(3)) * e(4) \in Nat
          /\ e(4) * x(3) \in Nat
      BY <2>1, <3>1, <3>2, <3>3
    <3> DEFINE A == (x(2) * e(3)) * e(4)
               B == e(4) * x(3)
    <3>5. n = A + B + x(4) /\ A = U * x(2) /\ y = B + x(4)
      BY <1>8, <3>2, <3>4
    <3>6. A \in Nat /\ B \in Nat /\ x(4) \in Nat
      BY <2>1, <3>4
    <3> HIDE DEF A, B, U, y
    <3> QED
      BY <3>5, <3>6
  <2> HIDE DEF U, y
  <2>5. n \in Int
    BY <1>9
  <2>6. n \div U = x(2)
    BY <2>1, <2>2, <2>3, <2>4, <2>5, DivModUnique
  <2>7. x(2) % e(2) = x(2)
    BY <2>1
  <2> QED
    BY <2>6, <2>7 DEF U
<1>12. /\ Grid!GlobalExtents[0] = e(2) /\ Grid!GlobalExtents[1] = e(3)
       /\ Grid!GlobalExtents[2] = e(4) /\ Grid!Volume(Grid!GlobalExtents) = V
  BY GridExtents DEF e, V
<1> DEFINE g == GridCoord(c)
<1>13. g.set = S /\ g.at[0] = x(2) /\ g.at[1] = x(3) /\ g.at[2] = x(4)
       /\ g = [set |-> S, at |-> [d \in 0 .. 2 |-> x(d + 2)]]
  BY DEF GridCoord, S, x
<1> HIDE DEF g
<1>14. Grid!GlobalSdomId(g) = i
  <2>1. Grid!GlobalSdomId(g) = S * V + ((x(2) * e(3) + x(3)) * e(4) + x(4))
    BY <1>12, <1>13 DEF Grid!GlobalSdomId, Grid!Linear
  <2> QED
    BY <1>4, <1>5, <2>1
<1>15. Grid!IdToCoord(i) = g
  <2> DEFINE p == Grid!Point(Grid!GlobalExtents, n)
  <2>1. Grid!IdToCoord(i) = [set |-> S, at |-> p]
    BY <1>10, <1>12 DEF Grid!IdToCoord
  <2>2. p[0] = x(2)
    BY <1>11, <1>12 DEF Grid!Point, Grid!Dim
  <2>3. p[1] = x(3)
    BY <1>7, <1>9, <1>12 DEF Grid!Point, Grid!Dim
  <2>4. p[2] = x(4)
    BY <1>9, <1>12 DEF Grid!Point, Grid!Dim
  <2>5. p = [d \in 0 .. 2 |-> p[d]]
    BY DEF Grid!Point, Grid!Dim
  <2> HIDE DEF p
  <2>6. \A d \in 0 .. 2 : p[d] = x(d + 2)
    <3>1. \A d \in 0 .. 2 : d = 0 \/ d = 1 \/ d = 2
      OBVIOUS
    <3> QED
      BY <2>2, <2>3, <2>4, <3>1
  <2>7. p = [d \in 0 .. 2 |-> x(d + 2)]
    BY <2>5, <2>6
  <2> QED
    BY <1>13, <2>1, <2>7
<1> QED
  BY <1>14, <1>15 DEF g, i

-----------------------------------------------------------------------------
(* SweepGrid has the same ids.                                             *)
LEMMA GridSize == Grid!SdomIds = 0 .. TableSize - 1
<1> DEFINE e(a) == Extents[a]
           V == GridVolume
<1>1. 0 \in Axis5 /\ 1 \in Axis5 /\ 2 \in Axis5 /\ 3 \in Axis5 /\ 4 \in Axis5
  BY DEF Axis5
<1>2. Extents \in Layouts /\ \A a \in Axis5 : e(a) \in Nat \ {0} /\ OrOne(Extents[a]) = e(a)
  BY BoxFacts DEF OrOne
<1>3. /\ Run(Extents, 4) = 1 /\ Run(Extents, 3) = e(4) * Run(Extents, 4)
      /\ Run(Extents, 2) = e(3) * Run(Extents, 3) /\ Run(Extents, 1) = e(2) * Run(Extents, 2)
      /\ Run(Extents, 0) = e(1) * Run(Extents, 1) /\ Volume(Extents) = e(0) * Run(Extents, 0)
  BY <1>1, <1>2, RunFacts
<1>4. /\ e(0) = NumLocal[0] /\ NumLocal[0] \in Nat
      /\ e(1) = NumLocal[1] /\ NumLocal[1] \in Nat
  <2>1. /\ Extents[0] = NumProcs[0] * NumLocal[0] /\ NumLocal[0] \in Nat
        /\ Extents[1] = NumProcs[1] * NumLocal[1] /\ NumLocal[1] \in Nat
    BY <1>1, BoxFacts, LocalBox
  <2> QED
    BY <2>1, PartitionAssumption
<1>5. V = (e(2) * e(3)) * e(4)
  BY DEF GridVolume
<1> HIDE DEF e, V
<1>6. Run(Extents, 1) = V /\ V \in Nat
  <2>1. Run(Extents, 3) = e(4)
    BY <1>1, <1>2, <1>3
  <2>2. e(2) * (e(3) * e(4)) = (e(2) * e(3)) * e(4)
    BY <1>1, <1>2
  <2>3. e(2) * e(3) \in Nat
    BY <1>1, <1>2
  <2>4. (e(2) * e(3)) * e(4) \in Nat
    BY <1>1, <1>2, <2>3
  <2> QED
    BY <1>3, <1>5, <2>1, <2>2, <2>4
<1>7. Volume(Extents) = (e(0) * e(1)) * V
  <2>1. Volume(Extents) = e(0) * (e(1) * V)
    BY <1>3, <1>6
  <2> QED
    BY <1>1, <1>2, <1>6, <2>1
<1>8. Grid!SdomIds = 0 .. (NumLocal[0] * NumLocal[1]) * V - 1
  BY GridExtents DEF Grid!SdomIds, V
<1> QED
  BY <1>4, <1>7, <1>8, BoxVolume

(* Ranks are numbered as in SweepGrid.                                     *)
LEMMA GridRanks ==
  ASSUME NEW q \in Rank
  PROVE  (CoordOf(q)[2] * NumProcs[3] + CoordOf(q)[3]) * NumProcs[4] + CoordOf(q)[4] = q
<1> DEFINE p(a) == NumProcs[a]
           x(a) == CoordOf(q)[a]
<1>1. 0 \in Axis5 /\ 1 \in Axis5 /\ 2 \in Axis5 /\ 3 \in Axis5 /\ 4 \in Axis5
  BY DEF Axis5
<1>2. NumProcs \in Layouts /\ \A a \in Axis5 : p(a) \in Nat \ {0} /\ OrOne(NumProcs[a]) = p(a)
                                             /\ x(a) \in 0 .. p(a) - 1
  BY RankFacts DEF OrOne
<1>3. /\ Run(NumProcs, 4) = 1 /\ Run(NumProcs, 3) = p(4) * Run(NumProcs, 4)
      /\ Run(NumProcs, 2) = p(3) * Run(NumProcs, 3) /\ Run(NumProcs, 1) \in Nat
      /\ Run(NumProcs, 0) \in Nat
  BY <1>1, <1>2, RunFacts
<1>4. x(0) = 0 /\ x(1) = 0
  <2>1. p(0) = 1 /\ p(1) = 1
    BY PartitionAssumption
  <2> HIDE DEF p, x
  <2> QED
    BY <1>1, <1>2, <2>1
<1>5. \A a \in Axis5 : Along(NumProcs, CoordOf(q), a) = x(a) * Run(NumProcs, a)
  BY <1>2 DEF Along
<1>6. q = x(0) * Run(NumProcs, 0) + x(1) * Run(NumProcs, 1)
        + x(2) * Run(NumProcs, 2) + x(3) * Run(NumProcs, 3) + x(4) * Run(NumProcs, 4)
  <2>1. q = Linearize(NumProcs, CoordOf(q))
    BY RankFacts
  <2> QED
    BY <1>1, <1>5, <2>1 DEF Linearize
<1> HIDE DEF p, x
<1>7. Run(NumProcs, 3) = p(4) /\ Run(NumProcs, 2) = p(3) * p(4)
  BY <1>1, <1>2, <1>3
<1>8. q = x(2) * (p(3) * p(4)) + x(3) * p(4) + x(4)
  <2>1. x(0) * Run(NumProcs, 0) = 0 /\ x(1) * Run(NumProcs, 1) = 0
    BY <1>3, <1>4
  <2>2. x(4) * Run(NumProcs, 4) = x(4) /\ x(4) \in Nat /\ x(3) * p(4) \in Nat
        /\ x(2) * (p(3) * p(4)) \in Nat
    BY <1>1, <1>2, <1>3
  <2> DEFINE A == x(2) * (p(3) * p(4))
             B == x(3) * p(4)
  <2>3. q = 0 + 0 + A + B + x(4) /\ A \in Nat /\ B \in Nat
    BY <1>6, <1>7, <2>1, <2>2
  <2> HIDE DEF A, B
  <2>4. q = A + B + x(4)
    BY <2>2, <2>3
  <2> QED
    BY <2>4 DEF A, B
<1>9. (x(2) * p(3) + x(3)) * p(4) = x(2) * (p(3) * p(4)) + x(3) * p(4)
  <2>1. x(2) * (p(3) * p(4)) = (x(2) * p(3)) * p(4) /\ x(2) * p(3) \in Nat /\ x(3) \in Nat
        /\ p(4) \in Nat
    BY <1>1, <1>2
  <2>2. \A u, v, w \in Nat : (u + v) * w = u * w + v * w
    OBVIOUS
  <2> QED
    BY <2>1, <2>2
<1> QED
  BY <1>8, <1>9 DEF p, x

(* And gives each subdomain to the rank it is on.                          *)
LEMMA GridOwner ==
  ASSUME NEW q \in Rank, NEW s \in LocalSdom
  PROVE  /\ Grid!IdToCoord(IdAt(q, s)) = GridCoord(PlaceOf(q, s))
         /\ IdAt(q, s) \in Grid!SdomIds
         /\ Grid!ownerOf[IdAt(q, s)] = q
<1> DEFINE g == GridCoord(PlaceOf(q, s))
           n == [d \in 0 .. 2 |-> NumProcs[d + 2]]
           c == Grid!RankOf(g)
<1>1. Grid!IdToCoord(IdAt(q, s)) = g /\ IdAt(q, s) \in Grid!SdomIds
  BY PlaceFacts, GridIds, GridSize DEF IdAt
<1>2. \A d \in 0 .. 2 : d + 2 \in Axis5
  BY DEF Axis5
<1>3. \A d \in 0 .. 2 : c[d] = CoordOf(q)[d + 2]
  <2> TAKE d \in 0 .. 2
  <2>1. c[d] = PlaceOf(q, s)[d + 2] \div NumLocal[d + 2]
    BY DEF Grid!RankOf, Grid!Dim, GridCoord
  <2> QED
    BY <1>2, <2>1, PlaceFacts
<1>4. Grid!ownerOf[IdAt(q, s)] = Grid!Linear(n, c)
  BY <1>1 DEF Grid!ownerOf
<1> HIDE DEF g, c
<1>5. Grid!Linear(n, c) = (c[0] * n[1] + c[1]) * n[2] + c[2]
  BY DEF Grid!Linear
<1>6. n[1] = NumProcs[3] /\ n[2] = NumProcs[4]
  OBVIOUS
<1>7. c[0] = CoordOf(q)[2] /\ c[1] = CoordOf(q)[3] /\ c[2] = CoordOf(q)[4]
  BY <1>3
<1> HIDE DEF n
<1> QED
  BY <1>1, <1>4, <1>5, <1>6, <1>7, GridRanks DEF g

(* A step to a neighbour is the same on either side.                       *)
LEMMA GridSteps ==
  ASSUME PartitionInv, NEW r \in Rank, pc[r] > 20, NEW s \in LocalSdom, NEW d \in 0 .. 2,
         NEW step \in {-1, 1}
  PROVE  LET g == GridCoord(PlaceOf(r, s))
         IN  Neighbour(r, s, d, step)
               = Grid!IdOf(Grid!Move(g, d, step * SetFlags[PlaceOf(r, s)[1]][d]))
<1> DEFINE c == PlaceOf(r, s)
           k == step * SetFlags[c[1]][d]
           a == d + 2
           moved == [c EXCEPT ![a] = c[a] + k]
           g == GridCoord(c)
           h == Grid!Move(g, d, k)
<1>1. /\ c \in Indices(Extents) /\ c \in [Axis5 -> Nat]
      /\ \A b \in Axis5 : c[b] \in 0 .. Extents[b] - 1 /\ Extents[b] \in Nat \ {0}
  BY PlaceFacts, BoxFacts DEF Indices
<1>2. a \in Axis5 /\ 1 \in Axis5 /\ 0 \in Axis5 /\ a # 0 /\ a # 1
  BY DEF Axis5
<1>3. k \in Int
  <2>1. c[1] \in Chunks("Q")
    <3>1. "Q" \in Space /\ AxesOf["Q"] = {1}
      BY DEF Space, AxesOf
    <3>2. NumSubdomains("Q") = NumLocal[1]
      BY <1>2, <3>1, OneDimensional
    <3>3. Extents[1] = NumProcs[1] * NumLocal[1] /\ NumLocal[1] \in Nat
      BY <1>2, BoxFacts, LocalBox
    <3>4. Extents[1] = NumLocal[1]
      BY <3>3, PartitionAssumption
    <3> QED
      BY <1>1, <1>2, <3>2, <3>4 DEF Chunks
  <2>2. SetFlags[c[1]][d] \in {-1, 1}
    BY <2>1, PartitionAssumption
  <2> QED
    BY <2>2
<1>4. Neighbour(r, s, d, step) = IF moved[a] < 0 \/ moved[a] >= Extents[a] THEN -1
                                 ELSE Linearize(Extents, moved)
  <2>1. GlobalLayout(r) = Extents /\ CoordToGlobalCoord(r, SdomIdToCoord(s)) = c
    BY PlacesReturned
  <2>2. global[r][BaseSpace[a]] = Extents[a]
    <3>1. GlobalLayout(r)[a] = global[r][BaseSpace[a]]
      BY <1>2 DEF GlobalLayout
    <3> QED
      BY <2>1, <3>1
  <2> HIDE DEF c
  <2> QED
    BY <2>1, <2>2 DEF Neighbour, CoordToGlobalSdomId
<1> HIDE DEF c, k, a
<1>5. moved[a] = c[a] + k /\ \A b \in Axis5 : b # a => moved[b] = c[b]
  BY <1>1, <1>2
<1>6. moved \in [Axis5 -> Int]
  BY <1>1, <1>2, <1>3
<1>7. h.set = g.set /\ h = [set |-> g.set, at |-> h.at]
      /\ h.at \in [0 .. 2 -> Int]
      /\ \A b \in 0 .. 2 : h.at[b] = IF b = d THEN g.at[b] + k ELSE g.at[b]
  <2>1. g.at \in [0 .. 2 -> Int] /\ g = [set |-> g.set, at |-> g.at]
    <3>1. \A b \in 0 .. 2 : b + 2 \in Axis5
      BY DEF Axis5
    <3>2. \A b \in 0 .. 2 : c[b + 2] \in Int
      BY <1>1, <3>1
    <3> QED
      BY <3>2 DEF GridCoord
  <2>2. h = [g EXCEPT !.at = [g.at EXCEPT ![d] = g.at[d] + k]]
    BY <2>1 DEF Grid!Move
  <2> HIDE DEF g, h
  <2>3. h = [set |-> g.set, at |-> [g.at EXCEPT ![d] = g.at[d] + k]]
    BY <2>1, <2>2
  <2>4. h.at = [g.at EXCEPT ![d] = g.at[d] + k] /\ h.set = g.set
    BY <2>3
  <2>5. h.at \in [0 .. 2 -> Int]
    BY <1>3, <2>1, <2>4
  <2> QED
    BY <2>1, <2>3, <2>4, <2>5
<1> HIDE DEF h
<1>8. GridCoord(moved) = h
  <2>1. moved[0] = c[0] /\ moved[1] = c[1]
    BY <1>2, <1>5
  <2>2. g.set = c[0] * NumLocal[1] + c[1] /\ \A b \in 0 .. 2 : g.at[b] = c[b + 2]
    BY DEF GridCoord
  <2>3. \A b \in 0 .. 2 : b + 2 \in Axis5
    BY DEF Axis5
  <2>4. \A b \in 0 .. 2 : h.at[b] = moved[b + 2]
    <3> TAKE b \in 0 .. 2
    <3>1. CASE b = d
      BY <1>5, <1>7, <2>2, <3>1 DEF a
    <3>2. CASE b # d
      <4>1. b + 2 # a
        BY <3>2 DEF a
      <4> QED
        BY <1>5, <1>7, <2>2, <2>3, <3>2, <4>1
    <3> QED
      BY <3>1, <3>2
  <2> HIDE DEF moved, g
  <2>5. [b \in 0 .. 2 |-> moved[b + 2]] = h.at
    BY <1>7, <2>4
  <2> QED
    BY <1>7, <2>1, <2>2, <2>5 DEF GridCoord
<1>9. Grid!Inside(h) <=> 0 <= moved[a] /\ moved[a] < Extents[a]
  <2>1. \A b \in 0 .. 2 : b + 2 \in Axis5 /\ Grid!GlobalNumSdom(b) = Extents[b + 2]
    BY GridExtents
  <2>2. \A b \in 0 .. 2 : h.at[b] = moved[b + 2]
    BY <1>8 DEF GridCoord
  <2> HIDE DEF moved
  <2>3. Grid!Inside(h) <=> \A b \in 0 .. 2 : 0 <= moved[b + 2] /\ moved[b + 2] < Extents[b + 2]
    BY <2>1, <2>2 DEF Grid!Inside, Grid!InRange, Grid!Dim
  <2>4. \A b \in 0 .. 2 : b # d => 0 <= moved[b + 2] /\ moved[b + 2] < Extents[b + 2]
    <3> TAKE b \in 0 .. 2
    <3> HAVE b # d
    <3>1. b + 2 # a
      BY DEF a
    <3>2. b + 2 \in Axis5
      BY <2>1
    <3>3. moved[b + 2] = c[b + 2] /\ c[b + 2] \in 0 .. Extents[b + 2] - 1 /\ Extents[b + 2] \in Nat
      BY <1>1, <1>5, <3>1, <3>2
    <3> QED
      BY <3>3
  <2> QED
    BY <2>3, <2>4 DEF a
<1> HIDE DEF moved, g
<1>10. CASE 0 <= moved[a] /\ moved[a] < Extents[a]
  <2>1. moved \in Indices(Extents)
    <3>1. \A b \in Axis5 : moved[b] \in Nat /\ moved[b] < Extents[b]
      <4> TAKE b \in Axis5
      <4>1. CASE b = a
        <5>1. moved[a] \in Int
          BY <1>2, <1>6
        <5> QED
          BY <1>10, <4>1, <5>1
      <4>2. CASE b # a
        <5>1. moved[b] = c[b] /\ c[b] \in 0 .. Extents[b] - 1 /\ Extents[b] \in Nat
          BY <1>1, <1>5, <4>2
        <5> QED
          BY <5>1
      <4> QED
        BY <4>1, <4>2
    <3> QED
      BY <1>6, <3>1 DEF Indices
  <2>2. Grid!IdOf(h) = Grid!GlobalSdomId(h)
    BY <1>9, <1>10 DEF Grid!IdOf
  <2>3. Grid!GlobalSdomId(h) = Linearize(Extents, moved)
    BY <1>8, <2>1, GridIds
  <2>4. ~ (moved[a] < 0 \/ moved[a] >= Extents[a])
    <3>1. moved[a] \in Int /\ Extents[a] \in Int
      BY <1>1, <1>2, <1>6
    <3> QED
      BY <1>10, <3>1
  <2>5. Neighbour(r, s, d, step) = Linearize(Extents, moved)
    BY <1>4, <2>4
  <2> QED
    BY <2>2, <2>3, <2>5 DEF h, g, c, k
<1>11. CASE ~ (0 <= moved[a] /\ moved[a] < Extents[a])
  <2>1. Grid!IdOf(h) = -1
    BY <1>9, <1>11 DEF Grid!IdOf
  <2>2. moved[a] < 0 \/ moved[a] >= Extents[a]
    <3>1. moved[a] \in Int /\ Extents[a] \in Int
      BY <1>1, <1>2, <1>6
    <3> QED
      BY <1>11, <3>1
  <2>3. Neighbour(r, s, d, step) = -1
    BY <1>4, <2>2
  <2> QED
    BY <2>1, <2>3 DEF h, g, c, k
<1> QED
  BY <1>10, <1>11

(* The number of a pair of sets, and the direction set in it.              *)
LEMMA SetNumber ==
  ASSUME NEW r \in Rank, NEW s \in LocalSdom, NEW d \in 0 .. 2
  PROVE  LET set == GridCoord(PlaceOf(r, s)).set
             F == SetFlags[PlaceOf(r, s)[1]][d]
         IN  /\ set \in 0 .. NumLocal[0] * NumLocal[1] - 1
             /\ SetFlags[set % NumLocal[1]][d] = F
             /\ F \in {-1, 1}
<1> DEFINE x(a) == PlaceOf(r, s)[a]
           l(a) == NumLocal[a]
           set == x(0) * l(1) + x(1)
<1>1. 0 \in Axis5 /\ 1 \in Axis5
  BY DEF Axis5
<1>2. Extents[0] = l(0) /\ Extents[1] = l(1) /\ l(0) \in Nat \ {0} /\ l(1) \in Nat \ {0}
  <2>1. /\ Extents[0] = NumProcs[0] * NumLocal[0] /\ NumLocal[0] \in Nat \ {0}
        /\ Extents[1] = NumProcs[1] * NumLocal[1] /\ NumLocal[1] \in Nat \ {0}
    BY <1>1, BoxFacts, LocalBox
  <2> QED
    BY <2>1, PartitionAssumption
<1>3. x(0) \in 0 .. Extents[0] - 1 /\ x(1) \in 0 .. Extents[1] - 1
  BY <1>1, PlaceFacts
<1>4. x(1) \in Chunks("Q")
  <2>1. "Q" \in Space /\ AxesOf["Q"] = {1}
    BY DEF Space, AxesOf
  <2>2. NumSubdomains("Q") = NumLocal[1]
    BY <1>1, <2>1, OneDimensional
  <2> QED
    BY <1>2, <1>3, <2>2 DEF Chunks
<1>5. SetFlags[x(1)][d] \in {-1, 1}
  BY <1>4, PartitionAssumption
<1>6. GridCoord(PlaceOf(r, s)).set = set
  BY DEF GridCoord
<1> HIDE DEF x, l
<1>7. l(1) * x(0) = x(0) * l(1) /\ x(0) * l(1) \in Int /\ x(0) \in Int
  BY <1>2, <1>3
<1>8. l(1) * x(0) + x(1) \in 0 .. l(0) * l(1) - 1
  BY <1>2, <1>3, DivInRange
<1>9. set \in 0 .. l(0) * l(1) - 1
  BY <1>7, <1>8
<1>10. set % l(1) = x(1)
  <2>1. set = l(1) * x(0) + x(1) /\ set \in Int /\ x(1) \in 0 .. l(1) - 1
    BY <1>2, <1>3, <1>7
  <2> HIDE DEF set
  <2> QED
    BY <1>2, <1>7, <2>1, DivModUnique
<1> QED
  BY <1>5, <1>6, <1>9, <1>10 DEF x, l

(* What the ranks have put together call by call is the graph that the     *)
(* sweeps are specified and proved on: the same owners, and the same       *)
(* neighbours upwind and downwind of every subdomain.                      *)
THEOREM BuildsTheSweepGrid == Spec => []BuildsSweepGrid
<1>1. ASSUME PartitionInv, NEW r \in Rank, pc[r] = After("local", "PQR")
      PROVE  /\ owner[r] = Grid!ownerOf
             /\ \A s \in LocalSdom, d \in 0 .. 2 :
                  /\ Grid!upwindOf[GlobalId(r, s)][d] = Neighbour(r, s, d, -1)
                  /\ Grid!downwindOf[GlobalId(r, s)][d] = Neighbour(r, s, d, 1)
  <2>1. /\ \A q \in Rank : pc[q] > 20
        /\ IsTable(owner[r])
        /\ \A q \in Rank, s \in LocalSdom : owner[r][IdAt(q, s)] = q
    BY <1>1, TablesReturned
  <2>2. owner[r] = Grid!ownerOf
    <3> DEFINE o == owner[r]
               O == Grid!ownerOf
    <3>1. O = [i \in 0 .. TableSize - 1 |-> O[i]]
      BY GridSize DEF Grid!ownerOf
    <3>2. \A i \in 0 .. TableSize - 1 : o[i] = O[i]
      <4> TAKE i \in 0 .. TableSize - 1
      <4>1. PICK q \in Rank, s \in LocalSdom : IdAt(q, s) = i
        BY IdsCover
      <4> QED
        BY <2>1, <4>1, GridOwner
    <3>3. o = [i \in 0 .. TableSize - 1 |-> o[i]]
      BY <2>1 DEF IsTable
    <3> HIDE DEF o, O
    <3>4. [i \in 0 .. TableSize - 1 |-> o[i]] = [i \in 0 .. TableSize - 1 |-> O[i]]
      BY <3>2
    <3>5. o = O
      BY <3>1, <3>3, <3>4, Zenon
    <3> QED
      BY <3>5 DEF o, O
  <2>3. ASSUME NEW s \in LocalSdom, NEW d \in 0 .. 2
        PROVE  /\ Grid!upwindOf[GlobalId(r, s)][d] = Neighbour(r, s, d, -1)
               /\ Grid!downwindOf[GlobalId(r, s)][d] = Neighbour(r, s, d, 1)
    <3> DEFINE g == GridCoord(PlaceOf(r, s))
               F == SetFlags[PlaceOf(r, s)[1]][d]
    <3>1. GlobalId(r, s) = IdAt(r, s)
      BY <1>1, <2>1, PlacesReturned
    <3>2. Grid!IdToCoord(IdAt(r, s)) = g /\ IdAt(r, s) \in Grid!SdomIds
      BY GridOwner
    <3>3. g.set \in 0 .. NumLocal[0] * NumLocal[1] - 1 /\ SetFlags[g.set % NumLocal[1]][d] = F
          /\ F \in {-1, 1}
      BY SetNumber
    <3>4. /\ Neighbour(r, s, d, -1) = Grid!IdOf(Grid!Move(g, d, (-1) * F))
          /\ Neighbour(r, s, d, 1) = Grid!IdOf(Grid!Move(g, d, 1 * F))
      <4>1. \A step \in {-1, 1} :
              Neighbour(r, s, d, step) = Grid!IdOf(Grid!Move(g, d, step * F))
        BY <1>1, <2>1, GridSteps
      <4> HIDE DEF g, F
      <4> QED
        BY <4>1
    <3>5. (-1) * F = - F /\ 1 * F = F
      <4> HIDE DEF F
      <4> QED
        BY <3>3
    <3> HIDE DEF g, F
    <3>6. /\ Grid!upwindOf[IdAt(r, s)][d] = Grid!IdOf(Grid!Upwind(g, d))
          /\ Grid!downwindOf[IdAt(r, s)][d] = Grid!IdOf(Grid!Downwind(g, d))
      BY <3>2 DEF Grid!upwindOf, Grid!downwindOf, Grid!Dim
    <3>7. Grid!Upwind(g, d) = Grid!Move(g, d, - F) /\ Grid!Downwind(g, d) = Grid!Move(g, d, F)
      BY <3>3 DEF Grid!Upwind, Grid!Downwind
    <3> QED
      BY <3>1, <3>4, <3>5, <3>6, <3>7
  <2> QED
    BY <2>2, <2>3
<1>2. PartitionInv => BuildsSweepGrid
  BY <1>1 DEF BuildsSweepGrid
<1> QED
  BY <1>2, PartitionInvariant, PTL

-----------------------------------------------------------------------------
(* The device pool of a rank, over the chunks of the same spaces: their    *)
(* sizes.                                                                  *)

LEMMA SpaceSizes ==
  LET P == NumLocal[0]
      Q == NumLocal[1]
      R == NumLocal[2] * NumLocal[3] * NumLocal[4]
  IN  /\ P \in Nat /\ Q \in Nat /\ R \in Nat
      /\ NumLocal[2] \in Nat /\ NumLocal[3] \in Nat /\ NumLocal[4] \in Nat
      /\ NumSubdomains("NULL") = 1 /\ NumSubdomains("Q") = Q
      /\ NumSubdomains("RX") = NumLocal[2] /\ NumSubdomains("RY") = NumLocal[3]
      /\ NumSubdomains("RZ") = NumLocal[4] /\ NumSubdomains("R") = R
      /\ NumSubdomains("PR") = P * R /\ NumSubdomains("PQR") = P * Q * R
<1> DEFINE P == NumLocal[0]
           Q == NumLocal[1]
           X == NumLocal[2]
           Y == NumLocal[3]
           Z == NumLocal[4]
           L(space) == LocalLayout(space)
<1>1. \A a \in Axis5 : NumLocal[a] \in Nat \ {0}
  BY LocalAssumption
<1>2. 0 \in Axis5 /\ 1 \in Axis5 /\ 2 \in Axis5 /\ 3 \in Axis5 /\ 4 \in Axis5
  BY DEF Axis5
<1>3. P \in Nat \ {0} /\ Q \in Nat \ {0} /\ X \in Nat \ {0} /\ Y \in Nat \ {0} /\ Z \in Nat \ {0}
  BY <1>1, <1>2
<1>4. \A space \in Space :
        NumSubdomains(space) = OrOne(L(space)[0]) * OrOne(L(space)[1]) * OrOne(L(space)[2])
                                 * OrOne(L(space)[3]) * OrOne(L(space)[4])
  BY DEF NumSubdomains, Volume, Run
<1>5. \A space \in Space : \A a \in Axis5 :
        OrOne(L(space)[a]) = IF a \in AxesOf[space] THEN NumLocal[a] ELSE 1
  BY <1>1 DEF LocalLayout, OrOne
<1>6. /\ AxesOf["NULL"] = {} /\ AxesOf["Q"] = {1} /\ AxesOf["RX"] = {2} /\ AxesOf["RY"] = {3}
      /\ AxesOf["RZ"] = {4} /\ AxesOf["R"] = {2, 3, 4} /\ AxesOf["PR"] = {0, 2, 3, 4}
      /\ AxesOf["PQR"] = Axis5
      /\ \A space \in {"NULL", "Q", "RX", "RY", "RZ", "R", "PR", "PQR"} : space \in Space
  BY DEF AxesOf, Space
<1>7. \A space \in Space :
        NumSubdomains(space)
          = (IF 0 \in AxesOf[space] THEN P ELSE 1) * (IF 1 \in AxesOf[space] THEN Q ELSE 1)
            * (IF 2 \in AxesOf[space] THEN X ELSE 1) * (IF 3 \in AxesOf[space] THEN Y ELSE 1)
            * (IF 4 \in AxesOf[space] THEN Z ELSE 1)
  BY <1>2, <1>4, <1>5
<1> HIDE DEF P, Q, X, Y, Z, L
<1>8. NumSubdomains("NULL") = 1 * 1 * 1 * 1 * 1
  BY <1>6, <1>7
<1>9. NumSubdomains("Q") = 1 * Q * 1 * 1 * 1
  BY <1>6, <1>7
<1>10. NumSubdomains("RX") = 1 * 1 * X * 1 * 1
  BY <1>6, <1>7
<1>11. NumSubdomains("RY") = 1 * 1 * 1 * Y * 1
  BY <1>6, <1>7
<1>12. NumSubdomains("RZ") = 1 * 1 * 1 * 1 * Z
  BY <1>6, <1>7
<1>13. NumSubdomains("R") = 1 * 1 * X * Y * Z
  BY <1>6, <1>7
<1>14. NumSubdomains("PR") = P * 1 * X * Y * Z
  BY <1>6, <1>7
<1>15. NumSubdomains("PQR") = P * Q * X * Y * Z
  BY <1>2, <1>6, <1>7
<1>16. \A x \in Nat : x * 1 = x /\ 1 * x = x
  OBVIOUS
<1>17. X * Y * Z \in Nat /\ P * X * Y * Z = P * (X * Y * Z)
       /\ P * Q * X * Y * Z = P * Q * (X * Y * Z)
  <2>1. \A a, b, c, d \in Nat : a * b \in Nat /\ a * b * c * d = a * (b * c * d)
    OBVIOUS
  <2>2. P * Q \in Nat
    BY <1>3, <2>1
  <2> QED
    BY <1>3, <2>1, <2>2
<1> QED
  BY <1>3, <1>8, <1>9, <1>10, <1>11, <1>12, <1>13, <1>14, <1>15, <1>16, <1>17 DEF P, Q, X, Y, Z

-----------------------------------------------------------------------------
(* The bytes of a field.                                                   *)

(* The bytes of arrays of the same size, one for each chunk.               *)
Bytes(space, elements, bytes) == NumSubdomains(space) * AlignQuickPoolRequest(elements * bytes)

LEMMA AlignType == \A bytes \in Nat : AlignQuickPoolRequest(bytes) \in Nat
BY DEF AlignQuickPoolRequest

LEMMA EvenBytes ==
  ASSUME NEW space \in Space, NEW name, NEW bytes \in Nat, NEW size \in Nat
  PROVE  /\ Bytes(space, size, bytes) \in Nat
         /\ InPool(Field(name, space, bytes, Even(space, size))) =>
              BytesOf(Field(name, space, bytes, Even(space, size)))
                = Bytes(space, size, bytes)
<1> DEFINE field == Field(name, space, bytes, Even(space, size))
           c == AlignQuickPoolRequest(size * bytes)
           g == [k \in Chunks(space) |-> ((field.size[k] * field.bytes + 15) \div 16) * 16]
<1>1. field.space = space /\ field.bytes = bytes /\ \A k \in Chunks(space) : field.size[k] = size
  BY DEF Field, Even
<1>2. size * bytes \in Nat
  OBVIOUS
<1>3. c \in Nat
  BY <1>2, AlignType
<1>4. DOMAIN g = Chunks(space) /\ \A k \in Chunks(space) : g[k] = c
  BY <1>1 DEF AlignQuickPoolRequest
<1>5. NumSubdomains(space) \in Nat /\ IsFiniteSet(Chunks(space))
      /\ Cardinality(Chunks(space)) = NumSubdomains(space)
  BY ChunksType
<1>6. InPool(field) => BytesOf(field) = SumFunction(g)
  <2> HIDE DEF field
  <2> QED
    BY <1>1 DEF BytesOf
<1> HIDE DEF g, c, field
<1>7. SumFunction(g) = NumSubdomains(space) * c
  BY <1>3, <1>4, <1>5, SumConstant DEF SumFunction
<1>8. NumSubdomains(space) * c \in Nat
  BY <1>3, <1>5
<1> QED
  BY <1>6, <1>7, <1>8 DEF Bytes, c, field

-----------------------------------------------------------------------------
(* The fields of the generators, one by one.                               *)

PoolFields == QuadratureFields \o SpaceFields \o DataFields

(* Two sequences, one after the other.                                     *)
LEMMA Behind2 ==
  ASSUME NEW X, NEW s \in Seq(X), NEW t \in Seq(X), NEW n \in Nat, Len(s) = n, NEW i \in 1 .. Len(t)
  PROVE  (s \o t)[n + i] = t[i]
<1>1. Len(t) \in Nat
  BY LenProperties
<1>2. n + i \in 1 .. Len(s) + Len(t) /\ ~ n + i <= Len(s) /\ n + i - Len(s) = i
  BY <1>1
<1> QED
  BY <1>2, ConcatProperties

LEMMA FieldsAre ==
  /\ PoolFields \in Seq(Range(PoolFields)) /\ Len(PoolFields) = 25
  /\ \A i \in 1 .. 7 : PoolFields[i] = QuadratureFields[i]
  /\ \A i \in 1 .. 10 : PoolFields[7 + i] = SpaceFields[i]
  /\ \A i \in 1 .. 8 : PoolFields[17 + i] = DataFields[i]
<1> DEFINE q == QuadratureFields
           s == SpaceFields
           d == DataFields
           X == Range(q) \cup Range(s) \cup Range(d)
           a == 7
           b == 10
           c == 8
<1>1. q \in Seq(Range(q)) /\ Len(q) = a
  BY DEF QuadratureFields, Range
<1>2. s \in Seq(Range(s)) /\ Len(s) = b
  BY DEF SpaceFields, Range
<1>3. d \in Seq(Range(d)) /\ Len(d) = c
  BY DEF DataFields, Range
<1> HIDE DEF q, s, d
<1>4. q \in Seq(X) /\ s \in Seq(X) /\ d \in Seq(X)
  <2>1. Range(q) \subseteq X /\ Range(s) \subseteq X /\ Range(d) \subseteq X
    OBVIOUS
  <2> HIDE DEF X
  <2> QED
    BY <1>1, <1>2, <1>3, <2>1
<1>5. a \in Nat /\ b \in Nat /\ c \in Nat
  OBVIOUS
<1>15. a + b = 17 /\ a + b + c = 25 /\ a = 7 /\ c = 8 /\ b = 10
  OBVIOUS
<1> HIDE DEF X, a, b, c
<1>6. /\ q \o s \in Seq(X) /\ Len(q \o s) = a + b
      /\ \A i \in 1 .. a : (q \o s)[i] = q[i]
      /\ \A i \in 1 .. b : (q \o s)[a + i] = s[i]
  <2>1. \A i \in 1 .. a : i \in 1 .. Len(q) + Len(s) /\ i <= Len(q)
    BY <1>1, <1>2, <1>5
  <2>2. \A i \in 1 .. b : (q \o s)[a + i] = s[i]
    <3> SUFFICES ASSUME NEW i \in 1 .. b PROVE (q \o s)[a + i] = s[i]
      OBVIOUS
    <3>1. Len(q) = a /\ a \in Nat /\ i \in 1 .. Len(s)
      BY <1>1, <1>2, <1>5
    <3> QED
      BY <1>4, <3>1, Behind2
  <2>3. q \o s \in Seq(X) /\ Len(q \o s) = Len(q) + Len(s)
    BY <1>4, ConcatProperties
  <2>4. \A i \in 1 .. Len(q) + Len(s) : i <= Len(q) => (q \o s)[i] = q[i]
    BY <1>4, ConcatProperties
  <2> QED
    BY <1>1, <1>2, <2>1, <2>2, <2>3, <2>4
<1> DEFINE w == q \o s
<1>7. w \in Seq(X) /\ Len(w) = a + b
  BY <1>6
<1> HIDE DEF w
<1>8. /\ w \o d \in Seq(X) /\ Len(w \o d) = a + b + c
      /\ \A i \in 1 .. a + b : (w \o d)[i] = w[i]
      /\ \A i \in 1 .. c : (w \o d)[a + b + i] = d[i]
  <2>1. \A i \in 1 .. a + b : i \in 1 .. Len(w) + Len(d) /\ i <= Len(w)
    BY <1>3, <1>5, <1>7
  <2>2. a + b \in Nat
    BY <1>5
  <2>3. \A i \in 1 .. c : (w \o d)[a + b + i] = d[i]
    <3> DEFINE ab == a + b
    <3>1. ab \in Nat /\ Len(w) = ab
      BY <1>7, <2>2
    <3> HIDE DEF ab
    <3>2. \A i \in 1 .. c : (w \o d)[ab + i] = d[i]
      BY <1>3, <1>4, <1>7, <3>1, Behind2
    <3> QED
      BY <3>2 DEF ab
  <2>4. w \o d \in Seq(X) /\ Len(w \o d) = Len(w) + Len(d)
    BY <1>4, <1>7, ConcatProperties
  <2>5. \A i \in 1 .. Len(w) + Len(d) : i <= Len(w) => (w \o d)[i] = w[i]
    BY <1>4, <1>7, ConcatProperties
  <2> QED
    BY <1>3, <1>7, <2>1, <2>3, <2>4, <2>5
<1>9. PoolFields = w \o d
  BY DEF PoolFields, w, q, s, d
<1>10. \A i \in 1 .. a : PoolFields[i] = q[i]
  <2>1. \A i \in 1 .. a : i \in 1 .. a + b
    BY <1>5
  <2> QED
    BY <1>6, <1>8, <1>9, <2>1 DEF w
<1>11. \A i \in 1 .. b : PoolFields[a + i] = s[i]
  <2> SUFFICES ASSUME NEW i \in 1 .. b PROVE PoolFields[a + i] = s[i]
    OBVIOUS
  <2> DEFINE k == a + i
  <2>1. k \in 1 .. a + b
    BY <1>5
  <2>2. w[k] = s[i]
    <3>1. w[a + i] = s[i]
      BY <1>6 DEF w
    <3> QED
      BY <3>1
  <2> HIDE DEF k
  <2>3. PoolFields[k] = s[i]
    BY <1>8, <1>9, <2>1, <2>2
  <2> QED
    BY <2>3 DEF k
<1>12. \A i \in 1 .. c : PoolFields[17 + i] = d[i]
  <2> DEFINE ab == a + b
  <2>1. \A i \in 1 .. c : PoolFields[ab + i] = d[i]
    <3>1. \A i \in 1 .. c : (w \o d)[a + b + i] = d[i]
      BY <1>8
    <3> QED
      BY <1>9, <3>1
  <2>2. ab = 17
    BY <1>15
  <2> HIDE DEF ab
  <2> QED
    BY <2>1, <2>2
<1>13. Len(PoolFields) = 25 /\ PoolFields \in Seq(X)
  BY <1>8, <1>9, <1>15
<1>14. PoolFields \in Seq(Range(PoolFields))
  <2> DEFINE t == PoolFields
  <2>1. t \in Seq(X) /\ DOMAIN t = 1 .. Len(t) /\ Len(t) \in Nat /\ t \in [1 .. Len(t) -> X]
    BY <1>13, LenProperties
  <2> HIDE DEF t
  <2>2. t \in [1 .. Len(t) -> Range(t)]
    BY <2>1 DEF Range
  <2>3. t \in Seq(Range(t))
    BY <2>1, <2>2
  <2> QED
    BY <2>3 DEF t
<1> QED
  BY <1>10, <1>11, <1>12, <1>13, <1>14, <1>15 DEF q, s, d

(* Their names.                                                            *)
FieldName ==
  <<"moment_to_legendre", "quadrature/xcos", "quadrature/ycos", "quadrature/zcos",
    "quadrature/w", "ell", "ell_plus",
    "dx", "dy", "dz", "volume", "mixelem_to_zone", "mixelem_to_material",
    "mixelem_to_fraction", "zone_to_num_mixelem", "zone_to_mixelem", "sigt_zonal",
    "psi", "rhs", "phi", "phi_out", "i_plane", "j_plane", "k_plane", "data/sigs">>

OldName == <<"old_i_plane", "old_j_plane", "old_k_plane">>

LEMMA NamesAre ==
  /\ \A n \in 1 .. 25 : PoolFields[n].name = FieldName[n]
  /\ \A n \in 1 .. 3 : OldPlanes[n].name = OldName[n]
  /\ \A n, k \in 1 .. 25 : FieldName[n] = FieldName[k] => n = k
  /\ \A n, k \in 1 .. 3 : OldName[n] = OldName[k] => n = k
  /\ \A n \in 1 .. 25, k \in 1 .. 3 : FieldName[n] # OldName[k]
<1>1. \A n \in 1 .. 7 : QuadratureFields[n].name = FieldName[n]
  BY DEF QuadratureFields, FieldName, Field, ByDirection
<1>2. \A n \in 1 .. 10 : SpaceFields[n].name = FieldName[7 + n]
  BY DEF SpaceFields, FieldName, Field, ByMixElem
<1>3. \A n \in 1 .. 8 : DataFields[n].name = FieldName[17 + n]
  BY DEF DataFields, FieldName, Field, OnFace
<1>4. \A n \in 1 .. 3 : OldPlanes[n].name = OldName[n]
  BY DEF OldPlanes, OldName, Field, OnFace
<1>5. \A n \in 1 .. 25 : n \in 1 .. 7 \/ (n - 7 \in 1 .. 10 /\ n = 7 + (n - 7))
                         \/ (n - 17 \in 1 .. 8 /\ n = 17 + (n - 17))
  OBVIOUS
<1>6. \A n \in 1 .. 25 : PoolFields[n].name = FieldName[n]
  <2> HIDE DEF FieldName
  <2> SUFFICES ASSUME NEW n \in 1 .. 25 PROVE PoolFields[n].name = FieldName[n]
    OBVIOUS
  <2>1. CASE n \in 1 .. 7
    BY <1>1, <2>1, FieldsAre
  <2>2. CASE n - 7 \in 1 .. 10 /\ n = 7 + (n - 7)
    <3> DEFINE i == n - 7
    <3>1. i \in 1 .. 10 /\ n = 7 + i
      BY <2>2
    <3> HIDE DEF i
    <3> QED
      BY <1>2, <3>1, FieldsAre
  <2>3. CASE n - 17 \in 1 .. 8 /\ n = 17 + (n - 17)
    <3> DEFINE i == n - 17
    <3>1. i \in 1 .. 8 /\ n = 17 + i
      BY <2>3
    <3> HIDE DEF i
    <3> QED
      BY <1>3, <3>1, FieldsAre
  <2> QED
    BY <1>5, <2>1, <2>2, <2>3
<1>7. \A n, k \in 1 .. 25 : FieldName[n] = FieldName[k] => n = k
  BY SMTT(60) DEF FieldName
<1>8. \A n, k \in 1 .. 3 : OldName[n] = OldName[k] => n = k
  BY DEF OldName
<1>9. \A n \in 1 .. 25, k \in 1 .. 3 : FieldName[n] # OldName[k]
  BY SMTT(60) DEF FieldName, OldName
<1> QED
  BY <1>4, <1>6, <1>7, <1>8, <1>9

(* The sizes are natural numbers.                                          *)
LEMMA ProblemType ==
  ASSUME input \in Inputs
  PROVE  /\ input.groups \in Nat /\ input.directions \in Nat
         /\ input.legendre_order \in Nat
         /\ input.zones[0] \in Nat /\ input.zones[1] \in Nat
         /\ input.zones[2] \in Nat
         /\ \A c \in Chunks("R") : input.mixed[c] \in Nat
         /\ Zones \in Nat /\ Moments \in Nat \ {0}
<1>1. input \in [zones : [0 .. 2 -> Nat \ {0}], groups : Nat \ {0}, directions : Nat \ {0},
                   legendre_order : Nat, mixed : [Chunks("R") -> Nat]]
  BY PoolAssumption DEF Dim
<1>2. /\ input.groups \in Nat /\ input.directions \in Nat
      /\ input.legendre_order \in Nat
      /\ input.zones[0] \in Nat /\ input.zones[1] \in Nat
      /\ input.zones[2] \in Nat
      /\ \A c \in Chunks("R") : input.mixed[c] \in Nat
  BY <1>1
<1>3. \A x, y \in Nat : x * y \in Nat
  OBVIOUS
<1>4. \A x, y \in Nat \ {0} : x * y \in Nat \ {0}
  OBVIOUS
<1>5. input.legendre_order + 1 \in Nat \ {0}
  BY <1>2
<1> QED
  BY <1>2, <1>3, <1>4, <1>5 DEF Zones, Moments

(* The mixed elements: of their own size in every chunk.                   *)
MixSizes == [c \in Chunks("R") |-> AlignQuickPoolRequest(input.mixed[c] * 8)]

LEMMA MixBytes ==
  ASSUME input \in Inputs
  PROVE  /\ SumFunction(MixSizes) \in Nat
         /\ \A name : InPool(ByMixElem(name)) =>
                        BytesOf(ByMixElem(name)) = SumFunction(MixSizes)
         /\ SumFunction([c \in Chunks("R") |-> 3 * Add(1, input.mixed[c], 8)])
              = 3 * SumFunction(MixSizes)
<1> DEFINE S == Chunks("R")
           f == MixSizes
           g == [c \in S |-> 2 * f[c]]
           h == [c \in S |-> 3 * Add(1, input.mixed[c], 8)]
<1>1. IsFiniteSet(S)
  BY ChunksType DEF Space, AxesOf
<1>2. DOMAIN f = S /\ \A c \in S : f[c] \in Nat
  <2>1. \A c \in S : input.mixed[c] * 8 \in Nat
    BY ProblemType
  <2> QED
    BY <2>1, AlignType DEF MixSizes
<1>3. DOMAIN g = S /\ DOMAIN h = S
      /\ \A c \in S : g[c] = f[c] + f[c] /\ g[c] \in Int /\ h[c] = f[c] + g[c]
  <2>1. \A c \in S : 3 * (1 * f[c]) = f[c] + 2 * f[c] /\ 2 * f[c] = f[c] + f[c] /\ 2 * f[c] \in Int
    BY <1>2
  <2>2. \A c \in S : h[c] = 3 * (1 * f[c])
    BY DEF Add, MixSizes
  <2> HIDE DEF f, h
  <2> QED
    BY <2>1, <2>2 DEF h
<1>4. \A name : InPool(ByMixElem(name)) =>
                   BytesOf(ByMixElem(name)) = SumFunction(f)
  <2> SUFFICES ASSUME NEW name, InPool(ByMixElem(name))
               PROVE  BytesOf(ByMixElem(name)) = SumFunction(f)
    OBVIOUS
  <2> DEFINE field == ByMixElem(name)
             k == [c \in S |-> ((field.size[c] * field.bytes + 15) \div 16) * 16]
  <2>1. field.space = "R" /\ field.bytes = 8 /\ field.size = input.mixed
    BY DEF ByMixElem, Field
  <2>2. k = f
    BY <2>1 DEF MixSizes, AlignQuickPoolRequest
  <2> HIDE DEF field
  <2>3. BytesOf(field) = SumFunction(k)
    BY <2>1 DEF BytesOf, field
  <2> QED
    BY <2>2, <2>3 DEF field
<1> HIDE DEF S, f, g, h
<1>5. SumFunctionOnSet(g, S) = SumFunctionOnSet(f, S) + SumFunctionOnSet(f, S)
  BY <1>1, <1>2, <1>3, SumPlus
<1>6. SumFunctionOnSet(h, S) = SumFunctionOnSet(f, S) + SumFunctionOnSet(g, S)
  BY <1>1, <1>2, <1>3, SumPlus
<1>7. SumFunctionOnSet(f, S) \in Nat
  BY <1>1, <1>2, SumNat
<1>8. SumFunction(f) \in Nat /\ SumFunction(h) = 3 * SumFunction(f)
  BY <1>2, <1>3, <1>5, <1>6, <1>7 DEF SumFunction
<1> QED
  BY <1>4, <1>8 DEF S, f, h

(* The elements and the bytes of a plane.                                  *)
FaceSize(a, b) ==
  input.directions * input.groups * input.zones[a] * input.zones[b]

PlaneBytes(a, b) ==
  IF direct THEN 0
  ELSE Bytes("PQR", FaceSize(a, b), 8)

PlaneNames == {"i_plane", "j_plane", "k_plane", "old_i_plane", "old_j_plane", "old_k_plane"}

LEMMA PlaneSize ==
  ASSUME input \in Inputs, NEW a \in 0 .. 2, NEW b \in 0 .. 2,
         NEW name \in PlaneNames
  PROVE  BytesOf(OnFace(name, a, b)) = PlaneBytes(a, b) /\ PlaneBytes(a, b) \in Nat
<1> DEFINE size == FaceSize(a, b)
<1>1. size \in Nat
  <2>1. \A x, y \in Nat : x * y \in Nat
    OBVIOUS
  <2>2. input.zones[a] \in Nat /\ input.zones[b] \in Nat
    BY ProblemType
  <2> QED
    BY <2>1, <2>2, ProblemType DEF FaceSize
<1>2. OnFace(name, a, b) = Field(name, "PQR", 8, Even("PQR", size))
  BY DEF OnFace, FaceSize
<1> HIDE DEF size
<1>3. "PQR" \in Space /\ 8 \in Nat
  BY DEF Space, AxesOf
<1>4. InPool(OnFace(name, a, b)) <=> ~ direct
  BY <1>2 DEF InPool, Field, PlaneNames
<1>5. Bytes("PQR", size, 8) \in Nat
      /\ (~ direct => BytesOf(OnFace(name, a, b)) = Bytes("PQR", size, 8))
  BY <1>1, <1>2, <1>3, <1>4, EvenBytes
<1>6. direct => BytesOf(OnFace(name, a, b)) = 0
  BY <1>4 DEF BytesOf
<1> QED
  BY <1>5, <1>6 DEF PlaneBytes, size

(* All fields.                                                             *)
LEMMA OtherSizes ==
  ASSUME input \in Inputs, NEW space \in Space,
         NEW name, name \notin PlaneNames,
         NEW bytes \in Nat, NEW size \in Nat
  PROVE  /\ BytesOf(Field(name, space, bytes, Even(space, size)))
              = Bytes(space, size, bytes)
         /\ Bytes(space, size, bytes) \in Nat
<1>1. InPool(Field(name, space, bytes, Even(space, size)))
  BY DEF InPool, Field, PlaneNames
<1> QED
  BY <1>1, EvenBytes

-----------------------------------------------------------------------------
(* The bytes of every field.                                               *)

(* Elements of a chunk.                                                    *)
CoefficientSize == Moments * input.directions

GroupSize == input.groups * Zones

FluxSize == input.directions * input.groups * Zones

MomentSize == Moments * input.groups * Zones

ScatterSize ==
  3 * (input.legendre_order + 1)
    * (input.groups * NumLocal[0]) * (input.groups * NumLocal[0])

LEMMA SizesType ==
  ASSUME input \in Inputs
  PROVE  /\ CoefficientSize \in Nat /\ GroupSize \in Nat /\ FluxSize \in Nat
         /\ MomentSize \in Nat /\ ScatterSize \in Nat
         /\ input.directions * Moments = CoefficientSize
<1>1. \A x, y \in Nat : x * y \in Nat /\ x * y = y * x
  OBVIOUS
<1>2. 3 \in Nat /\ NumLocal[0] \in Nat /\ input.legendre_order + 1 \in Nat
  BY ProblemType, SpaceSizes
<1>3. ScatterSize \in Nat
  BY <1>1, <1>2, ProblemType DEF ScatterSize
<1>4. CoefficientSize \in Nat /\ input.directions * Moments = CoefficientSize
  BY <1>1, ProblemType DEF CoefficientSize
<1> QED
  BY <1>1, <1>3, <1>4, ProblemType DEF GroupSize, FluxSize, MomentSize

LEMMA SpacesAre ==
  \A space \in {"NULL", "Q", "RX", "RY", "RZ", "R", "PR", "PQR"} : space \in Space
BY DEF Space, AxesOf

(* In the order in which the fields are created.                           *)
Sized == <<
  Bytes("NULL", Moments, 8), Bytes("Q", input.directions, 8),
  Bytes("Q", input.directions, 8), Bytes("Q", input.directions, 8),
  Bytes("Q", input.directions, 8),
  Bytes("Q", CoefficientSize, 8), Bytes("Q", CoefficientSize, 8),
  Bytes("RX", input.zones[0], 8), Bytes("RY", input.zones[1], 8),
  Bytes("RZ", input.zones[2], 8), Bytes("R", Zones, 8),
  SumFunction(MixSizes), SumFunction(MixSizes), SumFunction(MixSizes),
  Bytes("R", Zones, 4), Bytes("R", Zones, 8), Bytes("PR", GroupSize, 8),
  Bytes("PQR", FluxSize, 8), Bytes("PQR", FluxSize, 8), Bytes("PR", MomentSize, 8),
  Bytes("PR", MomentSize, 8),
  PlaneBytes(1, 2), PlaneBytes(0, 2), PlaneBytes(0, 1),
  Bytes("NULL", ScatterSize, 8) >>

LEMMA FieldBytes ==
  ASSUME input \in Inputs
  PROVE  \A n \in 1 .. 25 : BytesOf(PoolFields[n]) = Sized[n] /\ Sized[n] \in Nat
<1> DEFINE q == QuadratureFields
           s == SpaceFields
           d == DataFields
           Is(field, bytes) == BytesOf(field) = bytes /\ bytes \in Nat
<1>1. 4 \in Nat /\ 8 \in Nat
  OBVIOUS
<1>2. Is(q[1], Bytes("NULL", Moments, 8))
  <2> DEFINE name == "moment_to_legendre"
             size == Moments
  <2>1. q[1] = Field(name, "NULL", 8, Even("NULL", size))
    BY DEF QuadratureFields
  <2>2. name \notin PlaneNames
    BY DEF PlaneNames
  <2>3. size \in Nat /\ "NULL" \in Space
    BY SpacesAre, ProblemType
  <2> HIDE DEF name, size, q
  <2>4. Is(q[1], Bytes("NULL", size, 8))
    BY <1>1, <2>1, <2>2, <2>3, OtherSizes
  <2> QED
    BY <2>4 DEF size
<1>3. Is(q[2], Bytes("Q", input.directions, 8))
  <2> DEFINE name == "quadrature/xcos"
             size == input.directions
  <2>1. q[2] = Field(name, "Q", 8, Even("Q", size))
    BY DEF QuadratureFields, ByDirection
  <2>2. name \notin PlaneNames
    BY DEF PlaneNames
  <2>3. size \in Nat /\ "Q" \in Space
    BY SpacesAre, ProblemType
  <2> HIDE DEF name, size, q
  <2>4. Is(q[2], Bytes("Q", size, 8))
    BY <1>1, <2>1, <2>2, <2>3, OtherSizes
  <2> QED
    BY <2>4 DEF size
<1>4. Is(q[3], Bytes("Q", input.directions, 8))
  <2> DEFINE name == "quadrature/ycos"
             size == input.directions
  <2>1. q[3] = Field(name, "Q", 8, Even("Q", size))
    BY DEF QuadratureFields, ByDirection
  <2>2. name \notin PlaneNames
    BY DEF PlaneNames
  <2>3. size \in Nat /\ "Q" \in Space
    BY SpacesAre, ProblemType
  <2> HIDE DEF name, size, q
  <2>4. Is(q[3], Bytes("Q", size, 8))
    BY <1>1, <2>1, <2>2, <2>3, OtherSizes
  <2> QED
    BY <2>4 DEF size
<1>5. Is(q[4], Bytes("Q", input.directions, 8))
  <2> DEFINE name == "quadrature/zcos"
             size == input.directions
  <2>1. q[4] = Field(name, "Q", 8, Even("Q", size))
    BY DEF QuadratureFields, ByDirection
  <2>2. name \notin PlaneNames
    BY DEF PlaneNames
  <2>3. size \in Nat /\ "Q" \in Space
    BY SpacesAre, ProblemType
  <2> HIDE DEF name, size, q
  <2>4. Is(q[4], Bytes("Q", size, 8))
    BY <1>1, <2>1, <2>2, <2>3, OtherSizes
  <2> QED
    BY <2>4 DEF size
<1>6. Is(q[5], Bytes("Q", input.directions, 8))
  <2> DEFINE name == "quadrature/w"
             size == input.directions
  <2>1. q[5] = Field(name, "Q", 8, Even("Q", size))
    BY DEF QuadratureFields, ByDirection
  <2>2. name \notin PlaneNames
    BY DEF PlaneNames
  <2>3. size \in Nat /\ "Q" \in Space
    BY SpacesAre, ProblemType
  <2> HIDE DEF name, size, q
  <2>4. Is(q[5], Bytes("Q", size, 8))
    BY <1>1, <2>1, <2>2, <2>3, OtherSizes
  <2> QED
    BY <2>4 DEF size
<1>7. Is(q[6], Bytes("Q", CoefficientSize, 8))
  <2> DEFINE name == "ell"
             size == CoefficientSize
  <2>1. q[6] = Field(name, "Q", 8, Even("Q", size))
    BY DEF QuadratureFields, CoefficientSize
  <2>2. name \notin PlaneNames
    BY DEF PlaneNames
  <2>3. size \in Nat /\ "Q" \in Space
    BY SpacesAre, SizesType
  <2> HIDE DEF name, size, q
  <2>4. Is(q[6], Bytes("Q", size, 8))
    BY <1>1, <2>1, <2>2, <2>3, OtherSizes
  <2> QED
    BY <2>4 DEF size
<1>8. Is(q[7], Bytes("Q", CoefficientSize, 8))
  <2> DEFINE name == "ell_plus"
             size == CoefficientSize
  <2>1. q[7] = Field(name, "Q", 8, Even("Q", size))
    BY SizesType DEF QuadratureFields
  <2>2. name \notin PlaneNames
    BY DEF PlaneNames
  <2>3. size \in Nat /\ "Q" \in Space
    BY SpacesAre, SizesType
  <2> HIDE DEF name, size, q
  <2>4. Is(q[7], Bytes("Q", size, 8))
    BY <1>1, <2>1, <2>2, <2>3, OtherSizes
  <2> QED
    BY <2>4 DEF size
<1>9. \A i \in 1 .. 7 : Is(q[i], Sized[i])
  <2>1. Is(q[1], Sized[1])
    BY <1>2 DEF Sized
  <2>2. Is(q[2], Sized[2])
    BY <1>3 DEF Sized
  <2>3. Is(q[3], Sized[3])
    BY <1>4 DEF Sized
  <2>4. Is(q[4], Sized[4])
    BY <1>5 DEF Sized
  <2>5. Is(q[5], Sized[5])
    BY <1>6 DEF Sized
  <2>6. Is(q[6], Sized[6])
    BY <1>7 DEF Sized
  <2>7. Is(q[7], Sized[7])
    BY <1>8 DEF Sized
  <2> HIDE DEF Sized
  <2> SUFFICES ASSUME NEW i \in 1 .. 7
               PROVE  Is(q[i], Sized[i])
    OBVIOUS
  <2>8. i = 1 \/ i = 2 \/ i = 3 \/ i = 4 \/ i = 5 \/ i = 6 \/ i = 7
    OBVIOUS
  <2> QED
    BY <2>1, <2>2, <2>3, <2>4, <2>5, <2>6, <2>7, <2>8
<1>10. Is(s[1], Bytes("RX", input.zones[0], 8))
  <2> DEFINE name == "dx"
             size == input.zones[0]
  <2>1. s[1] = Field(name, "RX", 8, Even("RX", size))
    BY DEF SpaceFields
  <2>2. name \notin PlaneNames
    BY DEF PlaneNames
  <2>3. size \in Nat /\ "RX" \in Space
    BY SpacesAre, ProblemType
  <2> HIDE DEF name, size, s
  <2>4. Is(s[1], Bytes("RX", size, 8))
    BY <1>1, <2>1, <2>2, <2>3, OtherSizes
  <2> QED
    BY <2>4 DEF size
<1>11. Is(s[2], Bytes("RY", input.zones[1], 8))
  <2> DEFINE name == "dy"
             size == input.zones[1]
  <2>1. s[2] = Field(name, "RY", 8, Even("RY", size))
    BY DEF SpaceFields
  <2>2. name \notin PlaneNames
    BY DEF PlaneNames
  <2>3. size \in Nat /\ "RY" \in Space
    BY SpacesAre, ProblemType
  <2> HIDE DEF name, size, s
  <2>4. Is(s[2], Bytes("RY", size, 8))
    BY <1>1, <2>1, <2>2, <2>3, OtherSizes
  <2> QED
    BY <2>4 DEF size
<1>12. Is(s[3], Bytes("RZ", input.zones[2], 8))
  <2> DEFINE name == "dz"
             size == input.zones[2]
  <2>1. s[3] = Field(name, "RZ", 8, Even("RZ", size))
    BY DEF SpaceFields
  <2>2. name \notin PlaneNames
    BY DEF PlaneNames
  <2>3. size \in Nat /\ "RZ" \in Space
    BY SpacesAre, ProblemType
  <2> HIDE DEF name, size, s
  <2>4. Is(s[3], Bytes("RZ", size, 8))
    BY <1>1, <2>1, <2>2, <2>3, OtherSizes
  <2> QED
    BY <2>4 DEF size
<1>13. Is(s[4], Bytes("R", Zones, 8))
  <2> DEFINE name == "volume"
             size == Zones
  <2>1. s[4] = Field(name, "R", 8, Even("R", size))
    BY DEF SpaceFields
  <2>2. name \notin PlaneNames
    BY DEF PlaneNames
  <2>3. size \in Nat /\ "R" \in Space
    BY SpacesAre, ProblemType
  <2> HIDE DEF name, size, s
  <2>4. Is(s[4], Bytes("R", size, 8))
    BY <1>1, <2>1, <2>2, <2>3, OtherSizes
  <2> QED
    BY <2>4 DEF size
<1>14. Is(s[5], SumFunction(MixSizes))
  <2>1. s[5] = ByMixElem("mixelem_to_zone")
    BY DEF SpaceFields
  <2>2. InPool(ByMixElem("mixelem_to_zone"))
    BY DEF InPool, ByMixElem, Field
  <2> QED
    BY <2>1, <2>2, MixBytes
<1>15. Is(s[6], SumFunction(MixSizes))
  <2>1. s[6] = ByMixElem("mixelem_to_material")
    BY DEF SpaceFields
  <2>2. InPool(ByMixElem("mixelem_to_material"))
    BY DEF InPool, ByMixElem, Field
  <2> QED
    BY <2>1, <2>2, MixBytes
<1>16. Is(s[7], SumFunction(MixSizes))
  <2>1. s[7] = ByMixElem("mixelem_to_fraction")
    BY DEF SpaceFields
  <2>2. InPool(ByMixElem("mixelem_to_fraction"))
    BY DEF InPool, ByMixElem, Field
  <2> QED
    BY <2>1, <2>2, MixBytes
<1>17. Is(s[8], Bytes("R", Zones, 4))
  <2> DEFINE name == "zone_to_num_mixelem"
             size == Zones
  <2>1. s[8] = Field(name, "R", 4, Even("R", size))
    BY DEF SpaceFields
  <2>2. name \notin PlaneNames
    BY DEF PlaneNames
  <2>3. size \in Nat /\ "R" \in Space
    BY SpacesAre, ProblemType
  <2> HIDE DEF name, size, s
  <2>4. Is(s[8], Bytes("R", size, 4))
    BY <1>1, <2>1, <2>2, <2>3, OtherSizes
  <2> QED
    BY <2>4 DEF size
<1>18. Is(s[9], Bytes("R", Zones, 8))
  <2> DEFINE name == "zone_to_mixelem"
             size == Zones
  <2>1. s[9] = Field(name, "R", 8, Even("R", size))
    BY DEF SpaceFields
  <2>2. name \notin PlaneNames
    BY DEF PlaneNames
  <2>3. size \in Nat /\ "R" \in Space
    BY SpacesAre, ProblemType
  <2> HIDE DEF name, size, s
  <2>4. Is(s[9], Bytes("R", size, 8))
    BY <1>1, <2>1, <2>2, <2>3, OtherSizes
  <2> QED
    BY <2>4 DEF size
<1>19. Is(s[10], Bytes("PR", GroupSize, 8))
  <2> DEFINE name == "sigt_zonal"
             size == GroupSize
  <2>1. s[10] = Field(name, "PR", 8, Even("PR", size))
    BY DEF SpaceFields, GroupSize
  <2>2. name \notin PlaneNames
    BY DEF PlaneNames
  <2>3. size \in Nat /\ "PR" \in Space
    BY SpacesAre, SizesType
  <2> HIDE DEF name, size, s
  <2>4. Is(s[10], Bytes("PR", size, 8))
    BY <1>1, <2>1, <2>2, <2>3, OtherSizes
  <2> QED
    BY <2>4 DEF size
<1>20. \A i \in 1 .. 10 : Is(s[i], Sized[7 + i])
  <2>1. Is(s[1], Sized[8])
    BY <1>10 DEF Sized
  <2>2. Is(s[2], Sized[9])
    BY <1>11 DEF Sized
  <2>3. Is(s[3], Sized[10])
    BY <1>12 DEF Sized
  <2>4. Is(s[4], Sized[11])
    BY <1>13 DEF Sized
  <2>5. Is(s[5], Sized[12])
    BY <1>14 DEF Sized
  <2>6. Is(s[6], Sized[13])
    BY <1>15 DEF Sized
  <2>7. Is(s[7], Sized[14])
    BY <1>16 DEF Sized
  <2>8. Is(s[8], Sized[15])
    BY <1>17 DEF Sized
  <2>9. Is(s[9], Sized[16])
    BY <1>18 DEF Sized
  <2>10. Is(s[10], Sized[17])
    BY <1>19 DEF Sized
  <2> HIDE DEF Sized
  <2> SUFFICES ASSUME NEW i \in 1 .. 10
               PROVE  Is(s[i], Sized[7 + i])
    OBVIOUS
  <2>11. i = 1 \/ i = 2 \/ i = 3 \/ i = 4 \/ i = 5 \/ i = 6 \/ i = 7 \/ i = 8 \/ i = 9 \/ i = 10
    OBVIOUS
  <2> QED
    BY <2>1, <2>2, <2>3, <2>4, <2>5, <2>6, <2>7, <2>8, <2>9, <2>10, <2>11
<1>21. Is(d[1], Bytes("PQR", FluxSize, 8))
  <2> DEFINE name == "psi"
             size == FluxSize
  <2>1. d[1] = Field(name, "PQR", 8, Even("PQR", size))
    BY DEF DataFields, FluxSize
  <2>2. name \notin PlaneNames
    BY DEF PlaneNames
  <2>3. size \in Nat /\ "PQR" \in Space
    BY SpacesAre, SizesType
  <2> HIDE DEF name, size, d
  <2>4. Is(d[1], Bytes("PQR", size, 8))
    BY <1>1, <2>1, <2>2, <2>3, OtherSizes
  <2> QED
    BY <2>4 DEF size
<1>22. Is(d[2], Bytes("PQR", FluxSize, 8))
  <2> DEFINE name == "rhs"
             size == FluxSize
  <2>1. d[2] = Field(name, "PQR", 8, Even("PQR", size))
    BY DEF DataFields, FluxSize
  <2>2. name \notin PlaneNames
    BY DEF PlaneNames
  <2>3. size \in Nat /\ "PQR" \in Space
    BY SpacesAre, SizesType
  <2> HIDE DEF name, size, d
  <2>4. Is(d[2], Bytes("PQR", size, 8))
    BY <1>1, <2>1, <2>2, <2>3, OtherSizes
  <2> QED
    BY <2>4 DEF size
<1>23. Is(d[3], Bytes("PR", MomentSize, 8))
  <2> DEFINE name == "phi"
             size == MomentSize
  <2>1. d[3] = Field(name, "PR", 8, Even("PR", size))
    BY DEF DataFields, MomentSize
  <2>2. name \notin PlaneNames
    BY DEF PlaneNames
  <2>3. size \in Nat /\ "PR" \in Space
    BY SpacesAre, SizesType
  <2> HIDE DEF name, size, d
  <2>4. Is(d[3], Bytes("PR", size, 8))
    BY <1>1, <2>1, <2>2, <2>3, OtherSizes
  <2> QED
    BY <2>4 DEF size
<1>24. Is(d[4], Bytes("PR", MomentSize, 8))
  <2> DEFINE name == "phi_out"
             size == MomentSize
  <2>1. d[4] = Field(name, "PR", 8, Even("PR", size))
    BY DEF DataFields, MomentSize
  <2>2. name \notin PlaneNames
    BY DEF PlaneNames
  <2>3. size \in Nat /\ "PR" \in Space
    BY SpacesAre, SizesType
  <2> HIDE DEF name, size, d
  <2>4. Is(d[4], Bytes("PR", size, 8))
    BY <1>1, <2>1, <2>2, <2>3, OtherSizes
  <2> QED
    BY <2>4 DEF size
<1>25. Is(d[5], PlaneBytes(1, 2))
  <2>1. d[5] = OnFace("i_plane", 1, 2)
    BY DEF DataFields
  <2>2. "i_plane" \in PlaneNames
    BY DEF PlaneNames
  <2> QED
    BY <2>1, <2>2, PlaneSize
<1>26. Is(d[6], PlaneBytes(0, 2))
  <2>1. d[6] = OnFace("j_plane", 0, 2)
    BY DEF DataFields
  <2>2. "j_plane" \in PlaneNames
    BY DEF PlaneNames
  <2> QED
    BY <2>1, <2>2, PlaneSize
<1>27. Is(d[7], PlaneBytes(0, 1))
  <2>1. d[7] = OnFace("k_plane", 0, 1)
    BY DEF DataFields
  <2>2. "k_plane" \in PlaneNames
    BY DEF PlaneNames
  <2> QED
    BY <2>1, <2>2, PlaneSize
<1>28. Is(d[8], Bytes("NULL", ScatterSize, 8))
  <2> DEFINE name == "data/sigs"
             size == ScatterSize
  <2>1. d[8] = Field(name, "NULL", 8, Even("NULL", size))
    BY DEF DataFields, ScatterSize
  <2>2. name \notin PlaneNames
    BY DEF PlaneNames
  <2>3. size \in Nat /\ "NULL" \in Space
    BY SpacesAre, SizesType
  <2> HIDE DEF name, size, d
  <2>4. Is(d[8], Bytes("NULL", size, 8))
    BY <1>1, <2>1, <2>2, <2>3, OtherSizes
  <2> QED
    BY <2>4 DEF size
<1>29. \A i \in 1 .. 8 : Is(d[i], Sized[17 + i])
  <2>1. Is(d[1], Sized[18])
    BY <1>21 DEF Sized
  <2>2. Is(d[2], Sized[19])
    BY <1>22 DEF Sized
  <2>3. Is(d[3], Sized[20])
    BY <1>23 DEF Sized
  <2>4. Is(d[4], Sized[21])
    BY <1>24 DEF Sized
  <2>5. Is(d[5], Sized[22])
    BY <1>25 DEF Sized
  <2>6. Is(d[6], Sized[23])
    BY <1>26 DEF Sized
  <2>7. Is(d[7], Sized[24])
    BY <1>27 DEF Sized
  <2>8. Is(d[8], Sized[25])
    BY <1>28 DEF Sized
  <2> HIDE DEF Sized
  <2> SUFFICES ASSUME NEW i \in 1 .. 8
               PROVE  Is(d[i], Sized[17 + i])
    OBVIOUS
  <2>9. i = 1 \/ i = 2 \/ i = 3 \/ i = 4 \/ i = 5 \/ i = 6 \/ i = 7 \/ i = 8
    OBVIOUS
  <2> QED
    BY <2>1, <2>2, <2>3, <2>4, <2>5, <2>6, <2>7, <2>8, <2>9
<1>30. \A n \in 1 .. 25 : n \in 1 .. 7 \/ (n - 7 \in 1 .. 10 /\ n = 7 + (n - 7))
                         \/ (n - 17 \in 1 .. 8 /\ n = 17 + (n - 17))
  OBVIOUS
<1> SUFFICES ASSUME NEW n \in 1 .. 25
             PROVE  Is(PoolFields[n], Sized[n])
  OBVIOUS
<1>31. CASE n \in 1 .. 7
  BY <1>9, <1>31, FieldsAre
<1>32. CASE n - 7 \in 1 .. 10 /\ n = 7 + (n - 7)
  <2> DEFINE i == n - 7
  <2>1. i \in 1 .. 10 /\ n = 7 + i
    BY <1>32
  <2> HIDE DEF i
  <2> QED
    BY <1>20, <2>1, FieldsAre
<1>33. CASE n - 17 \in 1 .. 8 /\ n = 17 + (n - 17)
  <2> DEFINE i == n - 17
  <2>1. i \in 1 .. 8 /\ n = 17 + i
    BY <1>33
  <2> HIDE DEF i
  <2> QED
    BY <1>29, <2>1, FieldsAre
<1> QED
  BY <1>30, <1>31, <1>32, <1>33

-----------------------------------------------------------------------------
(* What has been created so far.                                           *)

(* The sums of the first elements of a sequence.                           *)
LEMMA PartialSums ==
  ASSUME NEW f, NEW N \in Nat, \A k \in 1 .. N : f[k] \in Nat
  PROVE  /\ SumFunctionOnSet(f, 1 .. 0) = 0
         /\ \A n \in 0 .. N : SumFunctionOnSet(f, 1 .. n) \in Nat
         /\ \A n \in 1 .. N :
              SumFunctionOnSet(f, 1 .. n) = SumFunctionOnSet(f, 1 .. n - 1) + f[n]
         /\ \A n \in 0 .. N : SumFunctionOnSet(f, 1 .. n) <= SumFunctionOnSet(f, 1 .. N)
<1>1. \A n \in 0 .. N : 1 .. n \subseteq 1 .. N /\ IsFiniteSet(1 .. n)
  <2>1. \A n \in 0 .. N : IsFiniteSet(1 .. n)
    BY FS_Interval
  <2> QED
    BY <2>1
<1>2. SumFunctionOnSet(f, 1 .. 0) = 0
  <2>1. 1 .. 0 = {}
    OBVIOUS
  <2> QED
    BY <2>1, SumEmpty
<1>3. \A n \in 0 .. N : SumFunctionOnSet(f, 1 .. n) \in Nat
  <2> SUFFICES ASSUME NEW n \in 0 .. N PROVE SumFunctionOnSet(f, 1 .. n) \in Nat
    OBVIOUS
  <2> QED
    BY <1>1, SumNat
<1>4. \A n \in 1 .. N :
        SumFunctionOnSet(f, 1 .. n) = SumFunctionOnSet(f, 1 .. n - 1) + f[n]
  <2> SUFFICES ASSUME NEW n \in 1 .. N
               PROVE  SumFunctionOnSet(f, 1 .. n) = SumFunctionOnSet(f, 1 .. n - 1) + f[n]
    OBVIOUS
  <2> DEFINE S == 1 .. n - 1
  <2>1. 1 .. n = S \cup {n} /\ n \notin S /\ n - 1 \in 0 .. N
    OBVIOUS
  <2>2. IsFiniteSet(S) /\ SumFunctionOnSet(f, S) \in Nat
    BY <1>1, <1>3, <2>1
  <2>3. \A y \in S \cup {n} : f[y] \in Int
    OBVIOUS
  <2> HIDE DEF S
  <2>4. SumFunctionOnSet(f, S \cup {n}) = f[n] + SumFunctionOnSet(f, S)
    BY <2>1, <2>2, <2>3, SumAdd
  <2>5. SumFunctionOnSet(f, 1 .. n) = SumFunctionOnSet(f, S) + f[n]
    <3>1. f[n] \in Nat
      OBVIOUS
    <3> DEFINE a == SumFunctionOnSet(f, S)
               b == SumFunctionOnSet(f, 1 .. n)
    <3>2. b = SumFunctionOnSet(f, S \cup {n})
      BY <2>1, Zenon
    <3>3. b = f[n] + a /\ a \in Nat
      BY <2>2, <2>4, <3>2
    <3> HIDE DEF a, b
    <3>4. b = a + f[n]
      BY <3>1, <3>3
    <3> QED
      BY <3>4 DEF a, b
  <2> QED
    BY <2>5 DEF S
<1>5. \A n \in 0 .. N : SumFunctionOnSet(f, 1 .. n) <= SumFunctionOnSet(f, 1 .. N)
  <2> SUFFICES ASSUME NEW n \in 0 .. N
               PROVE  SumFunctionOnSet(f, 1 .. n) <= SumFunctionOnSet(f, 1 .. N)
    OBVIOUS
  <2> DEFINE S == 1 .. N
             A == 1 .. n
  <2>1. A \subseteq S /\ IsFiniteSet(S) /\ SumFunctionOnSet(f, A) \in Nat
    BY <1>1, <1>3
  <2>2. \A x \in S : f[x] \in Nat /\ f[x] \in Int
    OBVIOUS
  <2> HIDE DEF S, A
  <2>3. SumFunctionOnSet(f, S) = SumFunctionOnSet(f, A) + SumFunctionOnSet(f, S \ A)
    BY <2>1, <2>2, SumUnion
  <2>4. IsFiniteSet(S \ A)
    BY <2>1, FS_Subset
  <2>5. \A x \in S \ A : f[x] \in Nat
    BY <2>2
  <2>6. SumFunctionOnSet(f, S \ A) \in Nat
    BY <2>4, <2>5, SumNat
  <2>7. SumFunctionOnSet(f, A) <= SumFunctionOnSet(f, S)
    BY <2>1, <2>3, <2>6
  <2> QED
    BY <2>7 DEF S, A
<1> QED
  BY <1>2, <1>3, <1>4, <1>5

(* The bytes of the first n fields, and of the first n old planes.         *)
FieldSizes == [n \in 1 .. 25 |-> BytesOf(PoolFields[n])]

OldSizes == [n \in 1 .. 3 |-> BytesOf(OldPlanes[n])]

UsedBy(n) == SumFunctionOnSet(FieldSizes, 1 .. n)

OldBy(n) == SumFunctionOnSet(OldSizes, 1 .. n)

LEMMA FieldsAdd ==
  ASSUME input \in Inputs
  PROVE  /\ UsedBy(0) = 0
         /\ \A n \in 0 .. 25 : UsedBy(n) \in Nat /\ UsedBy(n) <= UsedBy(25)
         /\ \A n \in 1 .. 25 : /\ UsedBy(n) = UsedBy(n - 1) + BytesOf(PoolFields[n])
                               /\ BytesOf(PoolFields[n]) = Sized[n]
                               /\ Sized[n] \in Nat
<1> DEFINE f == FieldSizes
           N == 25
<1>1. N \in Nat /\ \A k \in 1 .. N : f[k] = BytesOf(PoolFields[k]) /\ f[k] \in Nat
  BY FieldBytes DEF FieldSizes
<1>2. /\ SumFunctionOnSet(f, 1 .. 0) = 0
      /\ \A n \in 0 .. N : SumFunctionOnSet(f, 1 .. n) \in Nat
      /\ \A n \in 1 .. N :
           SumFunctionOnSet(f, 1 .. n) = SumFunctionOnSet(f, 1 .. n - 1) + f[n]
      /\ \A n \in 0 .. N : SumFunctionOnSet(f, 1 .. n) <= SumFunctionOnSet(f, 1 .. N)
  <2> HIDE DEF f, N
  <2> QED
    BY <1>1, PartialSums
<1>3. \A n \in 1 .. 25 : BytesOf(PoolFields[n]) = Sized[n] /\ Sized[n] \in Nat
  BY FieldBytes
<1>4. \A n \in 1 .. 25 : f[n] = BytesOf(PoolFields[n])
  BY <1>1
<1> HIDE DEF f
<1> QED
  BY <1>2, <1>3, <1>4 DEF UsedBy, f

LEMMA OldPlanesAdd ==
  ASSUME input \in Inputs
  PROVE  /\ OldBy(0) = 0 /\ OldBy(3) \in Nat
         /\ \A n \in 0 .. 3 : OldBy(n) \in Nat /\ OldBy(n) <= OldBy(3)
         /\ \A n \in 1 .. 3 : OldBy(n) = OldBy(n - 1) + BytesOf(OldPlanes[n])
         /\ OldBy(3) = PlaneBytes(1, 2) + PlaneBytes(0, 2) + PlaneBytes(0, 1)
         /\ OldPlaneBytes = OldBy(3)
<1> DEFINE f == OldSizes
           N == 3
<1>1. /\ f[1] = PlaneBytes(1, 2) /\ PlaneBytes(1, 2) \in Nat
      /\ f[2] = PlaneBytes(0, 2) /\ PlaneBytes(0, 2) \in Nat
      /\ f[3] = PlaneBytes(0, 1) /\ PlaneBytes(0, 1) \in Nat
  <2>1. /\ OldPlanes[1] = OnFace("old_i_plane", 1, 2)
        /\ OldPlanes[2] = OnFace("old_j_plane", 0, 2)
        /\ OldPlanes[3] = OnFace("old_k_plane", 0, 1)
    BY DEF OldPlanes
  <2>2. /\ "old_i_plane" \in PlaneNames /\ "old_j_plane" \in PlaneNames
        /\ "old_k_plane" \in PlaneNames
    BY DEF PlaneNames
  <2>3. \A n \in 1 .. 3 : f[n] = BytesOf(OldPlanes[n])
    BY DEF OldSizes
  <2> HIDE DEF f
  <2>4. f[1] = PlaneBytes(1, 2) /\ PlaneBytes(1, 2) \in Nat
    BY <2>1, <2>2, <2>3, PlaneSize
  <2>5. f[2] = PlaneBytes(0, 2) /\ PlaneBytes(0, 2) \in Nat
    BY <2>1, <2>2, <2>3, PlaneSize
  <2>6. f[3] = PlaneBytes(0, 1) /\ PlaneBytes(0, 1) \in Nat
    BY <2>1, <2>2, <2>3, PlaneSize
  <2> QED
    BY <2>4, <2>5, <2>6
<1>2. N \in Nat /\ N = 3 /\ \A k \in 1 .. N : f[k] \in Nat
  <2>1. \A k \in 1 .. N : k = 1 \/ k = 2 \/ k = 3
    OBVIOUS
  <2> HIDE DEF f
  <2> QED
    BY <1>1, <2>1
<1>3. /\ SumFunctionOnSet(f, 1 .. 0) = 0
      /\ \A n \in 0 .. N : SumFunctionOnSet(f, 1 .. n) \in Nat
      /\ \A n \in 1 .. N :
           SumFunctionOnSet(f, 1 .. n) = SumFunctionOnSet(f, 1 .. n - 1) + f[n]
      /\ \A n \in 0 .. N : SumFunctionOnSet(f, 1 .. n) <= SumFunctionOnSet(f, 1 .. N)
  <2> HIDE DEF f, N
  <2> QED
    BY <1>2, PartialSums
<1>4. \A n \in 1 .. 3 : f[n] = BytesOf(OldPlanes[n])
  BY DEF OldSizes
<1>5. OldPlaneBytes = OldBy(3)
  <2>1. DOMAIN OldPlanes = 1 .. 3
    BY DEF OldPlanes
  <2>2. OldPlaneBytes = SumFunction(f)
    BY <2>1, Zenon DEF OldPlaneBytes, OldSizes
  <2>3. DOMAIN f = 1 .. 3
    BY DEF OldSizes
  <2> HIDE DEF f
  <2>4. OldPlaneBytes = SumFunctionOnSet(f, 1 .. 3)
    BY <2>2, <2>3 DEF SumFunction
  <2> QED
    BY <2>4 DEF OldBy, f
<1> HIDE DEF f
<1>6. /\ OldBy(0) = 0
      /\ \A n \in 0 .. 3 : OldBy(n) \in Nat /\ OldBy(n) <= OldBy(3)
      /\ \A n \in 1 .. 3 : OldBy(n) = OldBy(n - 1) + f[n]
  BY <1>3 DEF OldBy, f
<1>7. OldBy(3) = PlaneBytes(1, 2) + PlaneBytes(0, 2) + PlaneBytes(0, 1)
  <2>1. OldBy(1) = 0 + f[1] /\ OldBy(2) = OldBy(1) + f[2] /\ OldBy(3) = OldBy(2) + f[3]
    <3>1. OldBy(1) = OldBy(1 - 1) + f[1] /\ OldBy(2) = OldBy(2 - 1) + f[2]
          /\ OldBy(3) = OldBy(3 - 1) + f[3]
      BY <1>6
    <3>2. 1 - 1 = 0 /\ 2 - 1 = 1 /\ 3 - 1 = 2
      OBVIOUS
    <3> QED
      BY <1>6, <3>1, <3>2
  <2> QED
    BY <1>1, <2>1
<1> QED
  BY <1>4, <1>5, <1>6, <1>7

(* The generators' fields, added up.                                       *)
LEMMA AllFields ==
  ASSUME input \in Inputs
  PROVE  UsedBy(25) = Sized[1] + Sized[2] + Sized[3] + Sized[4] + Sized[5] + Sized[6] + Sized[7]
           + Sized[8] + Sized[9] + Sized[10] + Sized[11] + Sized[12]
           + Sized[13] + Sized[14] + Sized[15] + Sized[16] + Sized[17]
           + Sized[18] + Sized[19] + Sized[20] + Sized[21] + Sized[22] + Sized[23] + Sized[24] + Sized[25]
<1> DEFINE U(n) == UsedBy(n)
           s == Sized
<1>1. /\ U(1) = U(1 - 1) + s[1]
      /\ U(2) = U(2 - 1) + s[2]
      /\ U(3) = U(3 - 1) + s[3]
      /\ U(4) = U(4 - 1) + s[4]
      /\ U(5) = U(5 - 1) + s[5]
      /\ U(6) = U(6 - 1) + s[6]
      /\ U(7) = U(7 - 1) + s[7]
      /\ U(8) = U(8 - 1) + s[8]
      /\ U(9) = U(9 - 1) + s[9]
      /\ U(10) = U(10 - 1) + s[10]
      /\ U(11) = U(11 - 1) + s[11]
      /\ U(12) = U(12 - 1) + s[12]
      /\ U(13) = U(13 - 1) + s[13]
      /\ U(14) = U(14 - 1) + s[14]
      /\ U(15) = U(15 - 1) + s[15]
      /\ U(16) = U(16 - 1) + s[16]
      /\ U(17) = U(17 - 1) + s[17]
      /\ U(18) = U(18 - 1) + s[18]
      /\ U(19) = U(19 - 1) + s[19]
      /\ U(20) = U(20 - 1) + s[20]
      /\ U(21) = U(21 - 1) + s[21]
      /\ U(22) = U(22 - 1) + s[22]
      /\ U(23) = U(23 - 1) + s[23]
      /\ U(24) = U(24 - 1) + s[24]
      /\ U(25) = U(25 - 1) + s[25]
  <2>1. \A n \in 1 .. 25 : U(n) = U(n - 1) + s[n]
    BY FieldsAdd
  <2> HIDE DEF U, s
  <2> QED
    BY <2>1
<1>2. /\ 1 - 1 = 0 /\ 2 - 1 = 1 /\ 3 - 1 = 2 /\ 4 - 1 = 3 /\ 5 - 1 = 4
      /\ 6 - 1 = 5 /\ 7 - 1 = 6 /\ 8 - 1 = 7 /\ 9 - 1 = 8 /\ 10 - 1 = 9
      /\ 11 - 1 = 10 /\ 12 - 1 = 11 /\ 13 - 1 = 12 /\ 14 - 1 = 13 /\ 15 - 1 = 14
      /\ 16 - 1 = 15 /\ 17 - 1 = 16 /\ 18 - 1 = 17 /\ 19 - 1 = 18 /\ 20 - 1 = 19
      /\ 21 - 1 = 20 /\ 22 - 1 = 21 /\ 23 - 1 = 22 /\ 24 - 1 = 23 /\ 25 - 1 = 24
  OBVIOUS
<1>3. U(0) = 0 /\ \A n \in 1 .. 25 : s[n] \in Nat
  BY FieldsAdd
<1> HIDE DEF U, s
<1>4. /\ U(1) = U(0) + s[1]
      /\ U(2) = U(1) + s[2]
      /\ U(3) = U(2) + s[3]
      /\ U(4) = U(3) + s[4]
      /\ U(5) = U(4) + s[5]
      /\ U(6) = U(5) + s[6]
      /\ U(7) = U(6) + s[7]
      /\ U(8) = U(7) + s[8]
      /\ U(9) = U(8) + s[9]
      /\ U(10) = U(9) + s[10]
      /\ U(11) = U(10) + s[11]
      /\ U(12) = U(11) + s[12]
      /\ U(13) = U(12) + s[13]
      /\ U(14) = U(13) + s[14]
      /\ U(15) = U(14) + s[15]
      /\ U(16) = U(15) + s[16]
      /\ U(17) = U(16) + s[17]
      /\ U(18) = U(17) + s[18]
      /\ U(19) = U(18) + s[19]
      /\ U(20) = U(19) + s[20]
      /\ U(21) = U(20) + s[21]
      /\ U(22) = U(21) + s[22]
      /\ U(23) = U(22) + s[23]
      /\ U(24) = U(23) + s[24]
      /\ U(25) = U(24) + s[25]
  BY <1>1, <1>2
<1>5. /\ s[1] \in Nat /\ s[2] \in Nat /\ s[3] \in Nat /\ s[4] \in Nat /\ s[5] \in Nat
      /\ s[6] \in Nat /\ s[7] \in Nat /\ s[8] \in Nat /\ s[9] \in Nat /\ s[10] \in Nat
      /\ s[11] \in Nat /\ s[12] \in Nat /\ s[13] \in Nat /\ s[14] \in Nat /\ s[15] \in Nat
      /\ s[16] \in Nat /\ s[17] \in Nat /\ s[18] \in Nat /\ s[19] \in Nat /\ s[20] \in Nat
      /\ s[21] \in Nat /\ s[22] \in Nat /\ s[23] \in Nat /\ s[24] \in Nat /\ s[25] \in Nat
  BY <1>3
<1>6. U(8) = s[1] + s[2] + s[3] + s[4] + s[5] + s[6] + s[7] + s[8] /\ U(8) \in Nat
  BY <1>3, <1>4, <1>5
<1>7. U(17) = U(8) + s[9] + s[10] + s[11] + s[12] + s[13] + s[14] + s[15] + s[16] + s[17]
      /\ U(17) \in Nat
  <2>1. U(13) = U(8) + s[9] + s[10] + s[11] + s[12] + s[13] /\ U(13) \in Nat
    BY <1>4, <1>5, <1>6
  <2>2. U(17) = U(13) + s[14] + s[15] + s[16] + s[17] /\ U(17) \in Nat
    BY <1>4, <1>5, <2>1
  <2> QED
    BY <1>5, <1>6, <2>1, <2>2
<1>8. U(25) = U(17) + s[18] + s[19] + s[20] + s[21] + s[22] + s[23] + s[24] + s[25]
  BY <1>4, <1>5, <1>7
<1>9. U(25) = s[1] + s[2] + s[3] + s[4] + s[5] + s[6] + s[7] + s[8]
              + s[9] + s[10] + s[11] + s[12] + s[13] + s[14] + s[15] + s[16] + s[17]
              + s[18] + s[19] + s[20] + s[21] + s[22] + s[23] + s[24] + s[25]
  BY <1>5, <1>6, <1>7, <1>8
<1> QED
  BY <1>9 DEF U, s

-----------------------------------------------------------------------------
(* The count of main.                                                      *)

(* A group of arrays that main counts together.                            *)
LEMMA AddIs ==
  ASSUME NEW space \in Space, NEW elements, NEW bytes
  PROVE  Add(NumSubdomains(space), elements, bytes) = Bytes(space, elements, bytes)
BY DEF Add, Bytes

LEMMA AddMore ==
  ASSUME NEW space \in Space, NEW elements \in Nat, NEW bytes \in Nat, NEW k \in Nat
  PROVE  Add(k * NumSubdomains(space), elements, bytes) = k * Bytes(space, elements, bytes)
<1> DEFINE a == AlignQuickPoolRequest(elements * bytes)
           n == NumSubdomains(space)
<1>1. a \in Nat
  <2>1. elements * bytes \in Nat
    OBVIOUS
  <2> QED
    BY <2>1, AlignType
<1>2. n \in Nat
  BY ChunksType
<1>3. \A x, y, z \in Nat : (x * y) * z = x * (y * z)
  OBVIOUS
<1> HIDE DEF a, n
<1>4. (k * n) * a = k * (n * a)
  BY <1>1, <1>2, <1>3
<1> QED
  BY <1>4 DEF Add, Bytes, a, n

(* The planes, as many times over as there are copies of them.             *)
LEMMA PlanesCounted ==
  ASSUME input \in Inputs, method \in Methods, ~ direct,
         NEW a \in 0 .. 2, NEW b \in 0 .. 2
  PROVE  LET R == NumLocal[2] * NumLocal[3] * NumLocal[4]
         IN  Add(PlaneCopies * NumLocal[0] * NumLocal[1] * R, FaceSize(a, b), 8)
               = (IF method = "bj" THEN 2 ELSE 1) * PlaneBytes(a, b)
<1> DEFINE R == NumLocal[2] * NumLocal[3] * NumLocal[4]
           size == FaceSize(a, b)
           k == IF method = "bj" THEN 2 ELSE 1
           p == NumLocal[0]
           q == NumLocal[1]
<1>1. size \in Nat
  <2>1. \A x, y \in Nat : x * y \in Nat
    OBVIOUS
  <2>2. input.zones[a] \in Nat /\ input.zones[b] \in Nat
    BY ProblemType
  <2> QED
    BY <2>1, <2>2, ProblemType DEF FaceSize
<1>2. k \in Nat
  OBVIOUS
<1>3. p \in Nat /\ q \in Nat /\ R \in Nat /\ NumSubdomains("PQR") = p * q * R
  BY SpaceSizes
<1>4. PlaneCopies = k
  BY DEF PlaneCopies
<1>5. "PQR" \in Space /\ 8 \in Nat
  BY DEF Space, AxesOf
<1>6. PlaneBytes(a, b) = Bytes("PQR", size, 8)
  BY DEF PlaneBytes
<1> HIDE DEF R, size, k, p, q
<1>7. Add(k * NumSubdomains("PQR"), size, 8) = k * Bytes("PQR", size, 8)
  BY <1>1, <1>2, <1>5, AddMore
<1>8. k * p * q * R = k * (p * q * R)
  <2>1. \A x, y, z \in Nat : (x * y) * z = x * (y * z) /\ x * y \in Nat
    OBVIOUS
  <2>2. k * p * q * R = (k * (p * q)) * R
    BY <1>2, <1>3, <2>1
  <2>3. (k * (p * q)) * R = k * ((p * q) * R)
    BY <1>2, <1>3, <2>1
  <2> QED
    BY <2>2, <2>3
<1>9. Add(k * p * q * R, size, 8) = k * PlaneBytes(a, b)
  BY <1>3, <1>6, <1>7, <1>8
<1> QED
  BY <1>4, <1>9 DEF R, size, k, p, q

(* Main counts what the generators create, and what block Jacobi adds.     *)
LEMMA CountIsExact ==
  ASSUME input \in Inputs, method \in Methods,
         direct \in BOOLEAN
  PROVE  PoolBytes = UsedBy(25) + (IF method = "bj" THEN OldBy(3) ELSE 0)
<1> DEFINE R == NumLocal[2] * NumLocal[3] * NumLocal[4]
           PQR == NumLocal[0] * NumLocal[1] * R
           k == IF method = "bj" THEN 2 ELSE 1
           e1 == Bytes("NULL", Moments, 8)
           e2 == Bytes("Q", input.directions, 8)
           e3 == Bytes("Q", CoefficientSize, 8)
           e4 == Bytes("RX", input.zones[0], 8)
           e5 == Bytes("RY", input.zones[1], 8)
           e6 == Bytes("RZ", input.zones[2], 8)
           e7 == Bytes("R", Zones, 8)
           e9 == Bytes("R", Zones, 4)
           e10 == Bytes("PR", GroupSize, 8)
           e11 == Bytes("PQR", FluxSize, 8)
           e12 == Bytes("PR", MomentSize, 8)
           e13 == Bytes("NULL", ScatterSize, 8)
           e8 == SumFunction(MixSizes)
           p1 == PlaneBytes(1, 2)
           p2 == PlaneBytes(0, 2)
           p3 == PlaneBytes(0, 1)
           t1 == Add(1, Moments, 8)
           t2 == Add(4 * NumLocal[1], input.directions, 8)
           t3 == Add(2 * NumLocal[1], CoefficientSize, 8)
           t4 == Add(NumLocal[2], input.zones[0], 8)
           t5 == Add(NumLocal[3], input.zones[1], 8)
           t6 == Add(NumLocal[4], input.zones[2], 8)
           t7 == Add(R, Zones, 8)
           t8 == SumFunction([c \in Chunks("R") |-> 3 * Add(1, input.mixed[c], 8)])
           t9 == Add(R, Zones, 4)
           t10 == Add(NumLocal[0] * R, GroupSize, 8)
           t11 == Add(2 * PQR, FluxSize, 8)
           t12 == Add(2 * NumLocal[0] * R, MomentSize, 8)
           t13 == Add(1, ScatterSize, 8)
           t14 == IF direct THEN 0
                  ELSE Add(PlaneCopies * NumLocal[0] * NumLocal[1] * R, FaceSize(1, 2), 8)
                       + Add(PlaneCopies * NumLocal[0] * NumLocal[1] * R, FaceSize(0, 2), 8)
                       + Add(PlaneCopies * NumLocal[0] * NumLocal[1] * R, FaceSize(0, 1), 8)
<1>1. AllocatableBytes = t1 + t2 + t3 + t4 + t5 + t6 + t7 + t8 + t9 + t7 + t10
                                + (t11 + t12) + t13 + t14
  BY Zenon
     DEF AllocatableBytes, FluxBytes, CoefficientSize, GroupSize, FluxSize, MomentSize,
         ScatterSize, FaceSize
<1>2. /\ NumLocal[1] = NumSubdomains("Q") /\ 1 = NumSubdomains("NULL")
      /\ NumLocal[2] = NumSubdomains("RX") /\ NumLocal[3] = NumSubdomains("RY")
      /\ NumLocal[4] = NumSubdomains("RZ") /\ R = NumSubdomains("R")
      /\ NumLocal[0] * R = NumSubdomains("PR") /\ PQR = NumSubdomains("PQR")
      /\ 2 * NumLocal[0] * R = 2 * NumSubdomains("PR")
  <2>1. \A x, y \in Nat : (2 * x) * y = 2 * (x * y)
    OBVIOUS
  <2> QED
    BY <2>1, SpaceSizes
<1>3. \A space \in {"NULL", "Q", "RX", "RY", "RZ", "R", "PR", "PQR"} : space \in Space
  BY DEF Space, AxesOf
<1>4. input.directions \in Nat /\ CoefficientSize \in Nat /\ FluxSize \in Nat
      /\ MomentSize \in Nat
  BY ProblemType, SizesType
<1>5. /\ t1 = e1 /\ t4 = e4 /\ t5 = e5 /\ t6 = e6 /\ t7 = e7 /\ t9 = e9 /\ t10 = e10
      /\ t13 = e13
  <2>1. t1 = e1
    BY <1>2, <1>3, AddIs
  <2>2. t4 = e4
    BY <1>2, <1>3, AddIs
  <2>3. t5 = e5
    BY <1>2, <1>3, AddIs
  <2>4. t6 = e6
    BY <1>2, <1>3, AddIs
  <2>5. t7 = e7
    BY <1>2, <1>3, AddIs
  <2>6. t9 = e9
    BY <1>2, <1>3, AddIs
  <2>7. t10 = e10
    BY <1>2, <1>3, AddIs
  <2>8. t13 = e13
    BY <1>2, <1>3, AddIs
  <2> QED
    BY <2>1, <2>2, <2>3, <2>4, <2>5, <2>6, <2>7, <2>8
<1>6. t2 = 4 * e2 /\ t3 = 2 * e3 /\ t11 = 2 * e11 /\ t12 = 2 * e12
  <2>0. 4 \in Nat /\ 2 \in Nat /\ 8 \in Nat
    OBVIOUS
  <2>1. t2 = 4 * e2
    BY <1>2, <1>3, <1>4, <2>0, AddMore
  <2>2. t3 = 2 * e3
    BY <1>2, <1>3, <1>4, <2>0, AddMore
  <2>3. t11 = 2 * e11
    BY <1>2, <1>3, <1>4, <2>0, AddMore
  <2>4. t12 = 2 * e12
    BY <1>2, <1>3, <1>4, <2>0, AddMore
  <2> QED
    BY <2>1, <2>2, <2>3, <2>4
<1>7. t8 = 3 * e8 /\ e8 \in Nat
  BY MixBytes
<1>8. p1 \in Nat /\ p2 \in Nat /\ p3 \in Nat
  <2>1. 1 \in 0 .. 2 /\ 2 \in 0 .. 2 /\ 0 \in 0 .. 2 /\ "i_plane" \in PlaneNames
    BY DEF PlaneNames
  <2> QED
    BY <2>1, PlaneSize
<1>9. t14 = k * p1 + k * p2 + k * p3
  <2>1. CASE direct
    <3>1. t14 = 0 /\ p1 = 0 /\ p2 = 0 /\ p3 = 0 /\ k \in Nat
      BY <2>1 DEF PlaneBytes
    <3> HIDE DEF t14, p1, p2, p3, k
    <3> QED
      BY <3>1
  <2>2. CASE ~ direct
    <3>1. 1 \in 0 .. 2 /\ 2 \in 0 .. 2 /\ 0 \in 0 .. 2
      OBVIOUS
    <3>2. Add(PlaneCopies * NumLocal[0] * NumLocal[1] * R, FaceSize(1, 2), 8) = k * p1
      BY <2>2, <3>1, PlanesCounted
    <3>3. Add(PlaneCopies * NumLocal[0] * NumLocal[1] * R, FaceSize(0, 2), 8) = k * p2
      BY <2>2, <3>1, PlanesCounted
    <3>4. Add(PlaneCopies * NumLocal[0] * NumLocal[1] * R, FaceSize(0, 1), 8) = k * p3
      BY <2>2, <3>1, PlanesCounted
    <3> HIDE DEF p1, p2, p3, k
    <3> QED
      BY <2>2, <3>2, <3>3, <3>4
  <2> QED
    BY <2>1, <2>2
<1>10. /\ Sized[1] = e1 /\ Sized[1] \in Nat
       /\ Sized[2] = e2 /\ Sized[2] \in Nat
       /\ Sized[3] = e2 /\ Sized[3] \in Nat
       /\ Sized[4] = e2 /\ Sized[4] \in Nat
       /\ Sized[5] = e2 /\ Sized[5] \in Nat
       /\ Sized[6] = e3 /\ Sized[6] \in Nat
       /\ Sized[7] = e3 /\ Sized[7] \in Nat
       /\ Sized[8] = e4 /\ Sized[8] \in Nat
       /\ Sized[9] = e5 /\ Sized[9] \in Nat
       /\ Sized[10] = e6 /\ Sized[10] \in Nat
       /\ Sized[11] = e7 /\ Sized[11] \in Nat
       /\ Sized[12] = e8 /\ Sized[12] \in Nat
       /\ Sized[13] = e8 /\ Sized[13] \in Nat
       /\ Sized[14] = e8 /\ Sized[14] \in Nat
       /\ Sized[15] = e9 /\ Sized[15] \in Nat
       /\ Sized[16] = e7 /\ Sized[16] \in Nat
       /\ Sized[17] = e10 /\ Sized[17] \in Nat
       /\ Sized[18] = e11 /\ Sized[18] \in Nat
       /\ Sized[19] = e11 /\ Sized[19] \in Nat
       /\ Sized[20] = e12 /\ Sized[20] \in Nat
       /\ Sized[21] = e12 /\ Sized[21] \in Nat
       /\ Sized[22] = p1 /\ Sized[22] \in Nat
       /\ Sized[23] = p2 /\ Sized[23] \in Nat
       /\ Sized[24] = p3 /\ Sized[24] \in Nat
       /\ Sized[25] = e13 /\ Sized[25] \in Nat
  <2>1. \A n \in 1 .. 25 : Sized[n] \in Nat
    BY FieldBytes
  <2>2. Sized[1] = e1
    BY DEF Sized
  <2>3. Sized[2] = e2
    BY DEF Sized
  <2>4. Sized[3] = e2
    BY DEF Sized
  <2>5. Sized[4] = e2
    BY DEF Sized
  <2>6. Sized[5] = e2
    BY DEF Sized
  <2>7. Sized[6] = e3
    BY DEF Sized
  <2>8. Sized[7] = e3
    BY DEF Sized
  <2>9. Sized[8] = e4
    BY DEF Sized
  <2>10. Sized[9] = e5
    BY DEF Sized
  <2>11. Sized[10] = e6
    BY DEF Sized
  <2>12. Sized[11] = e7
    BY DEF Sized
  <2>13. Sized[12] = e8
    BY DEF Sized
  <2>14. Sized[13] = e8
    BY DEF Sized
  <2>15. Sized[14] = e8
    BY DEF Sized
  <2>16. Sized[15] = e9
    BY DEF Sized
  <2>17. Sized[16] = e7
    BY DEF Sized
  <2>18. Sized[17] = e10
    BY DEF Sized
  <2>19. Sized[18] = e11
    BY DEF Sized
  <2>20. Sized[19] = e11
    BY DEF Sized
  <2>21. Sized[20] = e12
    BY DEF Sized
  <2>22. Sized[21] = e12
    BY DEF Sized
  <2>23. Sized[22] = p1
    BY DEF Sized
  <2>24. Sized[23] = p2
    BY DEF Sized
  <2>25. Sized[24] = p3
    BY DEF Sized
  <2>26. Sized[25] = e13
    BY DEF Sized
  <2> HIDE DEF Sized, e1, e2, e3, e4, e5, e6, e7, e8, e9, e10, e11, e12, e13, p1, p2, p3
  <2> QED
    BY <2>1, <2>2, <2>3, <2>4, <2>5, <2>6, <2>7, <2>8, <2>9, <2>10, <2>11, <2>12, <2>13,
       <2>14, <2>15, <2>16, <2>17, <2>18, <2>19, <2>20, <2>21, <2>22, <2>23, <2>24, <2>25, <2>26
<1>11. OldBy(3) = p1 + p2 + p3
  BY OldPlanesAdd
<1>12. k = (IF method = "bj" THEN 2 ELSE 1)
  OBVIOUS
<1>13. UsedBy(25) = Sized[1] + Sized[2] + Sized[3] + Sized[4] + Sized[5] + Sized[6] + Sized[7]
                    + Sized[8] + Sized[9] + Sized[10] + Sized[11] + Sized[12]
                    + Sized[13] + Sized[14] + Sized[15] + Sized[16] + Sized[17]
                    + Sized[18] + Sized[19] + Sized[20] + Sized[21] + Sized[22] + Sized[23] + Sized[24] + Sized[25]
  BY AllFields
<1>14. t1 \in Nat /\ t1 > 0
  <2>1. Moments * 8 \in Nat \ {0}
    BY ProblemType
  <2>2. \A x \in Nat \ {0} : ((x + 15) \div 16) * 16 > 0
    OBVIOUS
  <2>3. AlignQuickPoolRequest(Moments * 8) > 0
        /\ AlignQuickPoolRequest(Moments * 8) \in Nat
    BY <2>1, <2>2, AlignType DEF AlignQuickPoolRequest
  <2> QED
    BY <2>3 DEF Add
<1> HIDE DEF R, PQR, k, e1, e2, e3, e4, e5, e6, e7, e8, e9, e10, e11, e12, e13,
         p1, p2, p3, t1, t2, t3, t4, t5, t6, t7, t8, t9, t10, t11, t12, t13, t14
<1>15. /\ e1 \in Nat /\ e2 \in Nat /\ e3 \in Nat /\ e4 \in Nat /\ e5 \in Nat /\ e6 \in Nat
       /\ e7 \in Nat /\ e9 \in Nat /\ e10 \in Nat /\ e11 \in Nat /\ e12 \in Nat /\ e13 \in Nat
  BY <1>10
<1>16. UsedBy(25) = e1 + e2 + e2 + e2 + e2 + e3 + e3 + e4
           + e5 + e6 + e7 + e8 + e8 + e8 + e9 + e7 + e10
           + e11 + e11 + e12 + e12 + p1 + p2 + p3 + e13
  BY <1>10, <1>13
<1>17. /\ UsedBy(25) = e1 + 4 * e2 + 2 * e3 + e4 + e5 + e6 + 2 * e7 + 3 * e8 + e9 + e10
                        + 2 * e11 + 2 * e12 + e13 + p1 + p2 + p3
  BY <1>7, <1>8, <1>15, <1>16
<1>18. AllocatableBytes = e1 + 4 * e2 + 2 * e3 + e4 + e5 + e6 + e7 + 3 * e8 + e9 + e7 + e10
                                 + (2 * e11 + 2 * e12) + e13 + (k * p1 + k * p2 + k * p3)
  BY <1>1, <1>5, <1>6, <1>7, <1>9
<1>19. AllocatableBytes = UsedBy(25) + (IF method = "bj" THEN OldBy(3) ELSE 0)
  <2>1. CASE method = "bj"
    <3>1. k = 2
      BY <1>12, <2>1
    <3>2. OldBy(3) \in Nat /\ (IF method = "bj" THEN OldBy(3) ELSE 0) = OldBy(3)
      BY <1>8, <1>11, <2>1
    <3> QED
      BY <1>7, <1>8, <1>11, <1>15, <1>17, <1>18, <3>1, <3>2
  <2>2. CASE method # "bj"
    <3>1. k = 1 /\ (IF method = "bj" THEN OldBy(3) ELSE 0) = 0
      BY <1>12, <2>2
    <3> QED
      BY <1>7, <1>8, <1>15, <1>17, <1>18, <3>1
  <2> QED
    BY <2>1, <2>2
<1>20. AllocatableBytes \in Nat /\ AllocatableBytes > 0
  <2>1. k \in Nat
    BY <1>12
  <2>2. k * p1 \in Nat /\ k * p2 \in Nat /\ k * p3 \in Nat
    BY <1>8, <2>1
  <2> QED
    BY <1>5, <1>7, <1>14, <1>15, <1>18, <2>2
<1>21. PoolBytes = AllocatableBytes
  BY <1>20 DEF PoolBytes, RequestedPoolBytes
<1> QED
  BY <1>19, <1>21

-----------------------------------------------------------------------------
(* What is still to do.                                                    *)

Remains(s, n, t) ==
  /\ t \in Seq(Range(s))
  /\ Len(t) = Len(s) - n
  /\ \A k \in 1 .. Len(s) - n : t[k] = s[n + k]

LEMMA RemainsAll ==
  ASSUME NEW s, s \in Seq(Range(s))
  PROVE  Remains(s, 0, s)
<1>1. Len(s) \in Nat
  BY LenProperties
<1>2. \A k \in 1 .. Len(s) - 0 : 0 + k = k
  BY <1>1
<1> QED
  BY <1>1, <1>2 DEF Remains

LEMMA RemainsNone ==
  ASSUME NEW s, s \in Seq(Range(s)), NEW n \in Nat, n <= Len(s), NEW t, Remains(s, n, t)
  PROVE  t = << >> <=> n = Len(s)
<1>1. Len(s) \in Nat /\ t \in Seq(Range(s)) /\ Len(t) = Len(s) - n
  BY LenProperties DEF Remains
<1>2. t = << >> <=> Len(t) = 0
  BY <1>1, EmptySeq
<1> QED
  BY <1>1, <1>2

LEMMA RemainsNext ==
  ASSUME NEW s, s \in Seq(Range(s)), NEW n \in Nat, n < Len(s), NEW t, Remains(s, n, t)
  PROVE  Head(t) = s[n + 1] /\ Remains(s, n + 1, Tail(t))
<1>1. Len(s) \in Nat /\ t \in Seq(Range(s)) /\ Len(t) = Len(s) - n
  BY LenProperties DEF Remains
<1>2. \A k \in 1 .. Len(s) - n : t[k] = s[n + k]
  BY DEF Remains
<1>3. Len(t) > 0 /\ t # << >>
  BY <1>1, EmptySeq
<1>4. Head(t) = t[1] /\ Tail(t) \in Seq(Range(s)) /\ Len(Tail(t)) = Len(t) - 1
      /\ \A i \in 1 .. Len(Tail(t)) : Tail(t)[i] = t[i + 1]
  BY <1>1, <1>3, HeadTailProperties
<1>5. 1 \in 1 .. Len(s) - n
  BY <1>1
<1>6. Head(t) = s[n + 1]
  BY <1>2, <1>4, <1>5
<1>7. Len(Tail(t)) = Len(s) - (n + 1)
  BY <1>1, <1>4
<1>8. ASSUME NEW k \in 1 .. Len(s) - (n + 1)
      PROVE  Tail(t)[k] = s[(n + 1) + k]
  <2>1. k \in 1 .. Len(Tail(t)) /\ k + 1 \in 1 .. Len(s) - n /\ n + (k + 1) = (n + 1) + k
    BY <1>1, <1>7
  <2>2. Tail(t)[k] = t[k + 1]
    BY <1>4, <2>1
  <2>3. t[k + 1] = s[n + (k + 1)]
    BY <1>2, <2>1
  <2> QED
    BY <2>1, <2>2, <2>3
<1> QED
  BY <1>4, <1>6, <1>7, <1>8 DEF Remains

LEMMA PlanesAre ==
  /\ OldPlanes \in Seq(Range(OldPlanes)) /\ Len(OldPlanes) = 3
  /\ NamesOf(OldPlanes) = {OldName[k] : k \in 1 .. 3}
<1> DEFINE p == OldPlanes
<1>1. p \in Seq(Range(p)) /\ Len(p) = 3 /\ DOMAIN p = 1 .. 3
  BY DEF OldPlanes, Range
<1> HIDE DEF p
<1>2. \A k \in 1 .. 3 : p[k].name = OldName[k]
  BY NamesAre DEF p
<1>3. NamesOf(p) = {OldName[k] : k \in 1 .. 3}
  BY <1>1, <1>2 DEF NamesOf
<1> QED
  BY <1>1, <1>3 DEF p

-----------------------------------------------------------------------------
(* The inductive invariant.                                                *)

(* What block Jacobi leaves behind with every sweep.                       *)
Left == IF method = "bj" THEN OldBy(3) ELSE 0

FirstNames(n) == {FieldName[k] : k \in 1 .. n}

FirstOldNames(n) == {OldName[k] : k \in 1 .. n}

PoolTypes ==
  /\ input \in Inputs
  /\ method \in Methods
  /\ direct \in BOOLEAN
  /\ iter \in Nat /\ iter <= NumIter

(* The generators are at work; n fields are there.                         *)
Generating(n) ==
  /\ phase = "generate" /\ iter = 0
  /\ Remains(PoolFields, n, todo)
  /\ names = FirstNames(n)
  /\ used = UsedBy(n)

(* Between two sweeps, and after the last.                                 *)
Between ==
  /\ phase = "generate" /\ iter > 0
  /\ todo = << >>
  /\ names = FirstNames(25)
  /\ used = UsedBy(25) + iter * Left

(* The communicator is created; n of its planes are there.                 *)
AddingPlanes(n) ==
  /\ phase = "bj" /\ method = "bj" /\ iter < NumIter
  /\ Remains(OldPlanes, n, todo)
  /\ names = FirstNames(25) \cup FirstOldNames(n)
  /\ used = UsedBy(25) + iter * Left + OldBy(n)

Sweeping ==
  /\ phase = "sweep" /\ iter < NumIter
  /\ todo = << >>
  /\ names = FirstNames(25) \cup (IF method = "bj" THEN FirstOldNames(3) ELSE {})
  /\ used = UsedBy(25) + (iter + 1) * Left

PoolInv ==
  /\ PoolTypes
  /\ \/ \E n \in 0 .. 25 : Generating(n)
     \/ Between
     \/ \E n \in 0 .. 3 : AddingPlanes(n)
     \/ Sweeping

LEMMA LeftType ==
  ASSUME PoolTypes
  PROVE  /\ Left \in Nat /\ iter * Left \in Nat
         /\ (iter + 1) * Left = iter * Left + Left
<1>1. input \in Inputs /\ iter \in Nat
  BY DEF PoolTypes
<1>2. Left \in Nat
  BY <1>1, OldPlanesAdd DEF Left
<1>3. \A x, y \in Nat : x * y \in Nat /\ (x + 1) * y = x * y + y
  OBVIOUS
<1> QED
  BY <1>1, <1>2, <1>3

(* The sizes do not change.                                                *)
LEMMA SizesStay ==
  ASSUME UNCHANGED <<input, method, direct>>
  PROVE  /\ PoolFields' = PoolFields /\ OldPlanes' = OldPlanes /\ Left' = Left
         /\ \A n : UsedBy(n)' = UsedBy(n) /\ OldBy(n)' = OldBy(n)
<1>1. input' = input /\ method' = method /\ direct' = direct
  OBVIOUS
<1>2. Zones' = Zones /\ Moments' = Moments
  BY <1>1 DEF Zones, Moments
<1>3. QuadratureFields' = QuadratureFields
  BY <1>1, <1>2 DEF QuadratureFields, ByDirection
<1>4. SpaceFields' = SpaceFields
  BY <1>1, <1>2 DEF SpaceFields, ByMixElem
<1>5. DataFields' = DataFields
  BY <1>1, <1>2 DEF DataFields, OnFace
<1>6. PoolFields' = PoolFields
  BY <1>3, <1>4, <1>5 DEF PoolFields
<1>7. OldPlanes' = OldPlanes
  BY <1>1 DEF OldPlanes, OnFace
<1>8. FieldSizes' = FieldSizes
  BY <1>1, <1>6 DEF FieldSizes, BytesOf, InPool
<1>9. OldSizes' = OldSizes
  BY <1>1, <1>7 DEF OldSizes, BytesOf, InPool
<1>10. \A n : UsedBy(n)' = UsedBy(n) /\ OldBy(n)' = OldBy(n)
  BY <1>8, <1>9 DEF UsedBy, OldBy
<1>11. Left' = Left
  BY <1>1, <1>10 DEF Left
<1> QED
  BY <1>6, <1>7, <1>10, <1>11

LEMMA OldBytesType ==
  ASSUME input \in Inputs
  PROVE  \A k \in 1 .. 3 : BytesOf(OldPlanes[k]) \in Nat
<1>1. /\ OldPlanes[1] = OnFace("old_i_plane", 1, 2)
      /\ OldPlanes[2] = OnFace("old_j_plane", 0, 2)
      /\ OldPlanes[3] = OnFace("old_k_plane", 0, 1)
  BY DEF OldPlanes
<1>2. /\ "old_i_plane" \in PlaneNames /\ "old_j_plane" \in PlaneNames
      /\ "old_k_plane" \in PlaneNames
  BY DEF PlaneNames
<1>3. BytesOf(OldPlanes[1]) \in Nat
  BY <1>1, <1>2, PlaneSize
<1>4. BytesOf(OldPlanes[2]) \in Nat
  BY <1>1, <1>2, PlaneSize
<1>5. BytesOf(OldPlanes[3]) \in Nat
  BY <1>1, <1>2, PlaneSize
<1>6. \A k \in 1 .. 3 : k = 1 \/ k = 2 \/ k = 3
  OBVIOUS
<1> QED
  BY <1>3, <1>4, <1>5, <1>6

LEMMA PoolStarts ==
  ASSUME PoolInit
  PROVE  PoolInv
<1>1. PoolTypes
  BY PoolAssumption DEF PoolInit, PoolTypes
<1>2. Remains(PoolFields, 0, todo)
  BY FieldsAre, RemainsAll DEF PoolInit, PoolFields
<1>3. names = FirstNames(0)
  BY DEF PoolInit, FirstNames
<1>4. used = UsedBy(0)
  BY <1>1, FieldsAdd DEF PoolInit, PoolTypes
<1>5. 0 \in 0 .. 25 /\ Generating(0)
  BY <1>2, <1>3, <1>4 DEF PoolInit, Generating
<1> QED
  BY <1>1, <1>5 DEF PoolInv

LEMMA CreateFieldKeeps ==
  ASSUME PoolInv, CreateField
  PROVE  PoolInv'
<1>1. /\ phase \in {"generate", "bj"} /\ todo # << >>
      /\ used' = used + BytesOf(Head(todo))
      /\ Head(todo).name \notin names =>
           names' = names \cup {Head(todo).name} /\ phase' = phase
      /\ todo' = Tail(todo)
      /\ UNCHANGED <<input, method, direct, iter>>
  BY DEF CreateField
<1>2. PoolTypes /\ PoolTypes'
  BY <1>1 DEF PoolInv, PoolTypes
<1>3. PoolFields' = PoolFields /\ OldPlanes' = OldPlanes /\ Left' = Left
      /\ \A n : UsedBy(n)' = UsedBy(n) /\ OldBy(n)' = OldBy(n)
  BY <1>1, SizesStay
<1>4. ~ Between /\ ~ Sweeping
  BY <1>1 DEF Between, Sweeping
<1>5. ASSUME NEW n \in 0 .. 25, Generating(n)
      PROVE  PoolInv'
  <2> DEFINE m == n + 1
             N == 25
  <2>1. /\ phase = "generate" /\ iter = 0 /\ Remains(PoolFields, n, todo)
        /\ names = FirstNames(n) /\ used = UsedBy(n)
    BY <1>5 DEF Generating
  <2>2. PoolFields \in Seq(Range(PoolFields)) /\ Len(PoolFields) = N /\ n \in Nat /\ n <= N
    BY FieldsAre
  <2>3. n < N /\ m \in 1 .. 25 /\ m - 1 = n /\ N = 25
    <3>1. todo # << >> /\ n <= Len(PoolFields) /\ n \in Nat /\ Remains(PoolFields, n, todo)
      BY <1>1, <2>1, <2>2
    <3>2. PoolFields \in Seq(Range(PoolFields))
      BY <2>2
    <3>3. todo = << >> <=> n = Len(PoolFields)
      BY <3>1, <3>2, RemainsNone
    <3> QED
      BY <2>2, <3>1, <3>3
  <2> HIDE DEF N
  <2>4. Head(todo) = PoolFields[m] /\ Remains(PoolFields, m, Tail(todo))
    BY <2>1, <2>2, <2>3, RemainsNext
  <2>5. 1 .. m = (1 .. n) \cup {m} /\ m \notin 1 .. n /\ 1 .. m \subseteq 1 .. 25
    BY <2>3
  <2> HIDE DEF m
  <2>6. Head(todo).name = FieldName[m]
    BY <2>3, <2>4, NamesAre
  <2>7. FieldName[m] \notin FirstNames(n)
    <3>1. \A k \in 1 .. n : k \in 1 .. 25 /\ k # m
      BY <2>5
    <3> QED
      BY <2>3, <3>1, NamesAre DEF FirstNames
  <2>8. names' = FirstNames(m) /\ phase' = "generate"
    <3>1. FirstNames(m) = FirstNames(n) \cup {FieldName[m]}
      BY <2>5 DEF FirstNames
    <3> QED
      BY <1>1, <2>1, <2>6, <2>7, <3>1
  <2>9. used' = UsedBy(m)
    <3>1. UsedBy(m) = UsedBy(n) + BytesOf(PoolFields[m])
      BY <1>2, <2>3, FieldsAdd DEF PoolTypes
    <3> QED
      BY <1>1, <2>1, <2>4, <3>1
  <2>10. Generating(m)'
    BY <1>1, <1>3, <2>1, <2>4, <2>8, <2>9 DEF Generating, Remains, FirstNames
  <2>11. m \in 0 .. 25
    BY <2>3
  <2> QED
    BY <1>2, <2>10, <2>11 DEF PoolInv
<1>6. ASSUME NEW n \in 0 .. 3, AddingPlanes(n)
      PROVE  PoolInv'
  <2> DEFINE m == n + 1
             N == 3
  <2>1. /\ phase = "bj" /\ method = "bj" /\ iter < NumIter
        /\ Remains(OldPlanes, n, todo)
        /\ names = FirstNames(25) \cup FirstOldNames(n)
        /\ used = UsedBy(25) + iter * Left + OldBy(n)
    BY <1>6 DEF AddingPlanes
  <2>2. OldPlanes \in Seq(Range(OldPlanes)) /\ Len(OldPlanes) = N
        /\ n \in Nat /\ n <= N
    BY PlanesAre
  <2>3. n < N /\ m \in 1 .. 3 /\ m - 1 = n /\ N = 3
    <3>1. todo # << >> /\ n <= Len(OldPlanes) /\ n \in Nat
          /\ Remains(OldPlanes, n, todo)
      BY <1>1, <2>1, <2>2
    <3>2. OldPlanes \in Seq(Range(OldPlanes))
      BY <2>2
    <3>3. todo = << >> <=> n = Len(OldPlanes)
      BY <3>1, <3>2, RemainsNone
    <3> QED
      BY <2>2, <3>1, <3>3
  <2> HIDE DEF N
  <2>4. Head(todo) = OldPlanes[m] /\ Remains(OldPlanes, m, Tail(todo))
    BY <2>1, <2>2, <2>3, RemainsNext
  <2>5. 1 .. m = (1 .. n) \cup {m} /\ m \notin 1 .. n /\ 1 .. m \subseteq 1 .. 3
    BY <2>3
  <2> HIDE DEF m
  <2>6. Head(todo).name = OldName[m]
    BY <2>3, <2>4, NamesAre
  <2>7. OldName[m] \notin FirstNames(25) \cup FirstOldNames(n)
    <3>1. \A k \in 1 .. n : k \in 1 .. 3 /\ k # m
      BY <2>5
    <3>2. OldName[m] \notin FirstOldNames(n)
      BY <2>3, <3>1, NamesAre DEF FirstOldNames
    <3>3. OldName[m] \notin FirstNames(25)
      BY <2>3, NamesAre DEF FirstNames
    <3> QED
      BY <3>2, <3>3
  <2>8. names' = FirstNames(25) \cup FirstOldNames(m) /\ phase' = "bj"
    <3>1. FirstOldNames(m) = FirstOldNames(n) \cup {OldName[m]}
      BY <2>5 DEF FirstOldNames
    <3> QED
      BY <1>1, <2>1, <2>6, <2>7, <3>1
  <2>9. used' = UsedBy(25) + iter * Left + OldBy(m)
    <3>1. OldBy(m) = OldBy(n) + BytesOf(OldPlanes[m]) /\ OldBy(n) \in Nat
          /\ OldBy(m) \in Nat
      BY <1>2, <2>3, OldPlanesAdd DEF PoolTypes
    <3>2. UsedBy(25) \in Nat /\ iter * Left \in Nat
      BY <1>2, FieldsAdd, LeftType DEF PoolTypes
    <3>3. used' = UsedBy(25) + iter * Left + OldBy(n) + BytesOf(OldPlanes[m])
      BY <1>1, <2>1, <2>4
    <3> DEFINE a == UsedBy(25)
               b == iter * Left
               c == OldBy(n)
               d == BytesOf(OldPlanes[m])
               e == OldBy(m)
    <3>4. n \in 0 .. 3 /\ m \in 1 .. 3
      BY <2>3
    <3>5. d \in Int
      <4>1. \A k \in 1 .. 3 : BytesOf(OldPlanes[k]) \in Nat
        BY <1>2, OldBytesType DEF PoolTypes
      <4> QED
        BY <2>3, <4>1
    <3>6. a \in Nat /\ b \in Nat /\ c \in Nat /\ e = c + d /\ used' = a + b + c + d
      BY <3>1, <3>2, <3>3
    <3> HIDE DEF a, b, c, d, e
    <3>7. used' = a + b + e
      BY <3>5, <3>6
    <3> QED
      BY <3>7 DEF a, b, e
  <2>10. AddingPlanes(m)'
    BY <1>1, <1>3, <2>1, <2>4, <2>8, <2>9 DEF AddingPlanes, Remains, FirstNames, FirstOldNames
  <2>11. m \in 0 .. 3
    BY <2>3
  <2> QED
    BY <1>2, <2>10, <2>11 DEF PoolInv
<1> QED
  BY <1>4, <1>5, <1>6 DEF PoolInv

LEMMA BeginSweepKeeps ==
  ASSUME PoolInv, BeginSweep
  PROVE  PoolInv'
<1>1. /\ phase = "generate" /\ todo = << >> /\ iter < NumIter
      /\ IF method = "bj"
           THEN phase' = "bj" /\ todo' = OldPlanes
           ELSE phase' = "sweep" /\ todo' = todo
      /\ UNCHANGED <<input, method, direct, iter, names, used>>
  BY DEF BeginSweep
<1>2. PoolTypes /\ PoolTypes'
  BY <1>1 DEF PoolInv, PoolTypes
<1>3. PoolFields' = PoolFields /\ OldPlanes' = OldPlanes /\ Left' = Left
      /\ \A n : UsedBy(n)' = UsedBy(n) /\ OldBy(n)' = OldBy(n)
  BY <1>1, SizesStay
<1>4. UsedBy(25) \in Nat /\ Left \in Nat /\ iter * Left \in Nat /\ 0 * Left = 0
      /\ (iter + 1) * Left = iter * Left + Left
  BY <1>2, FieldsAdd, LeftType DEF PoolTypes
<1>5. names = FirstNames(25) /\ used = UsedBy(25) + iter * Left
  <2>1. ~ Sweeping /\ \A n \in 0 .. 3 : ~ AddingPlanes(n)
    BY <1>1 DEF Sweeping, AddingPlanes
  <2>2. ASSUME NEW n \in 0 .. 25, Generating(n)
        PROVE  n = 25 /\ iter = 0
    <3>1. Remains(PoolFields, n, todo) /\ iter = 0
      BY <2>2 DEF Generating
    <3>2. PoolFields \in Seq(Range(PoolFields)) /\ Len(PoolFields) = 25 /\ n \in Nat /\ n <= 25
      BY FieldsAre
    <3>3. n = Len(PoolFields)
      BY <1>1, <3>1, <3>2, RemainsNone
    <3> QED
      BY <3>1, <3>2, <3>3
  <2>3. CASE \E n \in 0 .. 25 : Generating(n)
    <3>1. Generating(25) /\ iter = 0
      BY <2>2, <2>3
    <3>2. names = FirstNames(25) /\ used = UsedBy(25)
      BY <3>1 DEF Generating
    <3> HIDE DEF Left
    <3> QED
      BY <1>4, <3>1, <3>2
  <2>4. CASE Between
    BY <2>4 DEF Between
  <2> QED
    BY <2>1, <2>3, <2>4 DEF PoolInv
<1>6. CASE method = "bj"
  <2>1. Remains(OldPlanes, 0, todo')
    BY <1>1, <1>6, PlanesAre, RemainsAll
  <2>2. OldBy(0) = 0
    BY <1>2, OldPlanesAdd DEF PoolTypes
  <2>3. used = UsedBy(25) + iter * Left + OldBy(0)
    <3> DEFINE a == UsedBy(25)
               b == iter * Left
    <3>1. a \in Nat /\ b \in Nat /\ used = a + b
      BY <1>4, <1>5
    <3> HIDE DEF a, b
    <3>2. used = a + b + 0
      BY <3>1
    <3> QED
      BY <2>2, <3>2 DEF a, b
  <2>4. FirstNames(25) = FirstNames(25) \cup FirstOldNames(0)
    BY DEF FirstOldNames
  <2>5. AddingPlanes(0)'
    BY <1>1, <1>3, <1>5, <1>6, <2>1, <2>3, <2>4 DEF AddingPlanes, Remains, FirstNames, FirstOldNames
  <2>6. 0 \in 0 .. 3
    OBVIOUS
  <2> QED
    BY <1>2, <2>5, <2>6 DEF PoolInv
<1>7. CASE method # "bj"
  <2>1. Left = 0
    BY <1>7 DEF Left
  <2>2. used = UsedBy(25) + (iter + 1) * Left
    <3> DEFINE a == UsedBy(25)
               b == iter * Left
               c == (iter + 1) * Left
    <3>1. a \in Nat /\ b \in Nat /\ used = a + b /\ c = b + 0
      BY <1>4, <1>5, <2>1
    <3> HIDE DEF a, b, c
    <3>2. used = a + c
      BY <3>1
    <3> QED
      BY <3>2 DEF a, c
  <2>3. Sweeping'
    BY <1>1, <1>3, <1>5, <1>7, <2>2 DEF Sweeping, FirstNames, FirstOldNames
  <2> QED
    BY <1>2, <2>3 DEF PoolInv
<1> QED
  BY <1>6, <1>7

LEMMA RunSweepKeeps ==
  ASSUME PoolInv, RunSweep
  PROVE  PoolInv'
<1>1. /\ phase = "bj" /\ todo = << >> /\ phase' = "sweep"
      /\ UNCHANGED <<input, method, direct, todo, iter, names, used>>
  BY DEF RunSweep
<1>2. PoolTypes /\ PoolTypes'
  BY <1>1 DEF PoolInv, PoolTypes
<1>3. PoolFields' = PoolFields /\ OldPlanes' = OldPlanes /\ Left' = Left
      /\ \A n : UsedBy(n)' = UsedBy(n) /\ OldBy(n)' = OldBy(n)
  BY <1>1, SizesStay
<1>4. PICK n \in 0 .. 3 : AddingPlanes(n)
  BY <1>1 DEF PoolInv, Generating, Between, Sweeping
<1>5. /\ method = "bj" /\ iter < NumIter /\ Remains(OldPlanes, n, todo)
      /\ names = FirstNames(25) \cup FirstOldNames(n)
      /\ used = UsedBy(25) + iter * Left + OldBy(n)
  BY <1>4 DEF AddingPlanes
<1>6. n = 3
  <2>1. OldPlanes \in Seq(Range(OldPlanes)) /\ Len(OldPlanes) = 3
        /\ n \in Nat /\ n <= 3
    BY PlanesAre
  <2>2. n = Len(OldPlanes)
    BY <1>1, <1>5, <2>1, RemainsNone
  <2> QED
    BY <2>1, <2>2
<1>7. used = UsedBy(25) + (iter + 1) * Left
  <2> DEFINE a == UsedBy(25)
             b == iter * Left
             c == (iter + 1) * Left
             d == Left
  <2>1. a \in Nat /\ b \in Nat /\ d \in Nat /\ c = b + d
    BY <1>2, FieldsAdd, LeftType DEF PoolTypes
  <2>2. d = OldBy(n)
    BY <1>5, <1>6 DEF Left
  <2>3. used = a + b + d
    BY <1>5, <2>2
  <2> HIDE DEF a, b, c, d
  <2>4. used = a + c
    BY <2>1, <2>3
  <2> QED
    BY <2>4 DEF a, c
<1>8. Sweeping'
  BY <1>1, <1>3, <1>5, <1>6, <1>7 DEF Sweeping, FirstNames, FirstOldNames
<1> QED
  BY <1>2, <1>8 DEF PoolInv

LEMMA EndSweepKeeps ==
  ASSUME PoolInv, EndSweep
  PROVE  PoolInv'
<1>1. /\ phase = "sweep" /\ iter' = iter + 1
      /\ IF method = "bj" /\ ~ NamesOf(OldPlanes) \subseteq names
           THEN phase' = "threw" /\ UNCHANGED names
           ELSE phase' = "generate" /\ names' = names \ NamesOf(OldPlanes)
      /\ UNCHANGED <<input, method, direct, todo, used>>
  BY DEF EndSweep
<1>2. /\ iter < NumIter /\ todo = << >>
      /\ names = FirstNames(25) \cup (IF method = "bj" THEN FirstOldNames(3) ELSE {})
      /\ used = UsedBy(25) + (iter + 1) * Left
  BY <1>1 DEF PoolInv, Generating, Between, AddingPlanes, Sweeping
<1>3. PoolTypes /\ PoolTypes' /\ iter' \in Nat /\ iter' > 0
  BY <1>1, <1>2, PoolAssumption DEF PoolInv, PoolTypes
<1>4. PoolFields' = PoolFields /\ OldPlanes' = OldPlanes /\ Left' = Left
      /\ \A n : UsedBy(n)' = UsedBy(n) /\ OldBy(n)' = OldBy(n)
  BY <1>1, SizesStay
<1>5. NamesOf(OldPlanes) = FirstOldNames(3)
  BY PlanesAre DEF FirstOldNames
<1>6. FirstNames(25) \cap FirstOldNames(3) = {}
  BY NamesAre DEF FirstNames, FirstOldNames
<1>7. phase' = "generate" /\ names' = FirstNames(25)
  BY <1>1, <1>2, <1>5, <1>6
<1>8. used' = UsedBy(25) + iter' * Left
  BY <1>1, <1>2
<1>9. Between'
  BY <1>1, <1>2, <1>3, <1>4, <1>7, <1>8 DEF Between, FirstNames
<1> QED
  BY <1>3, <1>9 DEF PoolInv

LEMMA PoolStutters ==
  ASSUME PoolInv, UNCHANGED poolVars
  PROVE  PoolInv'
<1>1. UNCHANGED <<input, method, direct, phase, todo, iter, names,
                  used>>
  BY DEF poolVars
<1>2. PoolFields' = PoolFields /\ OldPlanes' = OldPlanes /\ Left' = Left
      /\ \A n : UsedBy(n)' = UsedBy(n) /\ OldBy(n)' = OldBy(n)
  BY <1>1, SizesStay
<1>3. PoolTypes'
  BY <1>1 DEF PoolInv, PoolTypes
<1>4. ASSUME NEW n, Generating(n) PROVE Generating(n)'
  BY <1>1, <1>2, <1>4 DEF Generating, Remains, FirstNames
<1>5. Between => Between'
  BY <1>1, <1>2 DEF Between, FirstNames
<1>6. ASSUME NEW n, AddingPlanes(n) PROVE AddingPlanes(n)'
  BY <1>1, <1>2, <1>6 DEF AddingPlanes, Remains, FirstNames, FirstOldNames
<1>7. Sweeping => Sweeping'
  BY <1>1, <1>2 DEF Sweeping, FirstNames, FirstOldNames
<1> QED
  BY <1>3, <1>4, <1>5, <1>6, <1>7 DEF PoolInv

(* What a rank has created at each moment, by name and by bytes, for every *)
(* problem, number of local sets, method and number of iterations.         *)
THEOREM PoolInvariant == PoolSpec => []PoolInv
<1>1. PoolInit => PoolInv
  BY PoolStarts
<1>2. PoolInv /\ [PoolNext]_poolVars => PoolInv'
  <2>1. PoolDone => UNCHANGED poolVars
    BY DEF PoolDone
  <2> QED
    BY <2>1, CreateFieldKeeps, BeginSweepKeeps, RunSweepKeeps, EndSweepKeeps, PoolStutters
       DEF PoolNext
<1> QED
  BY <1>1, <1>2, PTL DEF PoolSpec

(* The fields in use fit into the pool that main sizes, but for what block *)
(* Jacobi leaves behind: one set of old planes with each earlier sweep.    *)
THEOREM FieldsFitThePool == PoolSpec => []FitsPool
<1>1. ASSUME PoolInv PROVE FitsPool
  <2>1. PoolTypes /\ input \in Inputs
    BY <1>1 DEF PoolInv, PoolTypes
  <2>2. PoolBytes = UsedBy(25) + Left
    BY <2>1, CountIsExact DEF PoolTypes, Left
  <2>3. Abandoned = iter * Left
    <3>1. CASE method = "bj"
      BY <2>1, <3>1, OldPlanesAdd DEF Abandoned, Left
    <3>2. CASE method # "bj"
      <4>1. Left = 0 /\ Abandoned = 0 /\ iter \in Nat
        BY <2>1, <3>2 DEF Abandoned, Left, PoolTypes
      <4>2. \A x \in Nat : x * 0 = 0
        OBVIOUS
      <4> QED
        BY <4>1, <4>2
    <3> QED
      BY <3>1, <3>2
  <2> DEFINE u == UsedBy(25)
             l == Left
             a == iter * Left
             b == (iter + 1) * Left
  <2>4. u \in Nat /\ l \in Nat /\ a \in Nat /\ b = a + l
    BY <2>1, FieldsAdd, LeftType
  <2>5. \A n \in 0 .. 25 : UsedBy(n) \in Nat /\ UsedBy(n) <= u
    BY <2>1, FieldsAdd
  <2>6. \A n \in 0 .. 3 : OldBy(n) \in Nat /\ (method = "bj" => OldBy(n) <= l)
    BY <2>1, OldPlanesAdd DEF Left
  <2>7. \/ \E n \in 0 .. 25 : used = UsedBy(n)
        \/ used = u + a
        \/ \E n \in 0 .. 3 : method = "bj" /\ used = u + a + OldBy(n)
        \/ used = u + b
    BY <1>1 DEF PoolInv, Generating, Between, AddingPlanes, Sweeping
  <2> HIDE DEF u, l, a, b
  <2>8. used <= (u + l) + a
    <3>1. CASE \E n \in 0 .. 25 : used = UsedBy(n)
      BY <2>4, <2>5, <3>1
    <3>2. CASE used = u + a
      BY <2>4, <3>2
    <3>3. CASE \E n \in 0 .. 3 : method = "bj" /\ used = u + a + OldBy(n)
      BY <2>4, <2>6, <3>3
    <3>4. CASE used = u + b
      BY <2>4, <3>4
    <3> QED
      BY <2>7, <3>1, <3>2, <3>3, <3>4
  <2> QED
    BY <2>2, <2>3, <2>8 DEF FitsPool, u, l, a
<1> QED
  BY <1>1, PoolInvariant, PTL

(* In the first sweep they fill it exactly.                                *)
THEOREM FieldsFillThePool == PoolSpec => []NothingToSpare
<1>1. ASSUME PoolInv PROVE NothingToSpare
  <2> SUFFICES ASSUME phase = "sweep", iter = 0
               PROVE  used = PoolBytes
    BY DEF NothingToSpare
  <2>1. PoolTypes
    BY <1>1 DEF PoolInv
  <2>2. used = UsedBy(25) + (iter + 1) * Left
    BY <1>1 DEF PoolInv, Generating, Between, AddingPlanes, Sweeping
  <2>3. PoolBytes = UsedBy(25) + Left
    BY <2>1, CountIsExact DEF PoolTypes, Left
  <2>4. (0 + 1) * Left = Left
    <3>1. Left \in Nat
      BY <2>1, LeftType
    <3>2. \A x \in Nat : (0 + 1) * x = x
      OBVIOUS
    <3> QED
      BY <3>1, <3>2
  <2> QED
    BY <2>2, <2>3, <2>4
<1> QED
  BY <1>1, PoolInvariant, PTL

(* No name is added twice to the data store, nor deleted when it is not    *)
(* there, however often block Jacobi's communicator comes and goes.        *)
THEOREM StoreNeverThrows == PoolSpec => []NeverThrows
<1>1. PoolInv => NeverThrows
  BY DEF PoolInv, Generating, Between, AddingPlanes, Sweeping, NeverThrows
<1> QED
  BY <1>1, PoolInvariant, PTL
=============================================================================
