----------------------------- MODULE FlowProofs -----------------------------
(***************************************************************************)
(* The data flow of an iteration, for every number of subdomains of a rank *)
(* and every number of iterations: chunks of a space stand for what they   *)
(* should, and each term is added once.                                    *)
(***************************************************************************)
EXTENDS FieldFlow, SequenceTheorems, TLAPS

-----------------------------------------------------------------------------
(* Division.                                                               *)

LEMMA DivMod ==
  ASSUME NEW a \in Int, NEW b \in Nat \ {0}
  PROVE  /\ a \div b \in Int
         /\ a % b \in 0 .. b - 1
         /\ a = b * (a \div b) + (a % b)
OBVIOUS

(* Multiples of b that are not equal are b apart.                          *)
LEMMA Apart ==
  ASSUME NEW p \in Int, NEW q \in Int, NEW b \in Nat \ {0}, p < q
  PROVE  b * p + b <= b * q
<1>1. PICK k \in Nat : q = p + 1 + k
  <2>1. q - p - 1 \in Nat
    OBVIOUS
  <2> QED
    BY <2>1
<1>2. b * q = b * (p + 1) + b * k
  BY <1>1
<1>3. b * (p + 1) = b * p + b /\ b * k >= 0
  BY <1>1
<1> QED
  BY <1>2, <1>3

(* Quotient and remainder are the only pair that adds up.                  *)
LEMMA DivModUnique ==
  ASSUME NEW a \in Int, NEW b \in Nat \ {0}, NEW q \in Int, NEW r \in 0 .. b - 1,
         a = b * q + r
  PROVE  a \div b = q /\ a % b = r
<1>1. /\ a \div b \in Int
      /\ a % b \in 0 .. b - 1
      /\ a = b * (a \div b) + (a % b)
  BY DivMod
<1> DEFINE p == a \div b
<1> HIDE DEF p
<1>2. ~ p < q
  BY <1>1, Apart DEF p
<1>3. ~ q < p
  BY <1>1, Apart DEF p
<1>4. p = q
  BY <1>1, <1>2, <1>3 DEF p
<1> QED
  BY <1>1, <1>4 DEF p

(* A number below the product of two extents has a quotient below the      *)
(* first, and the product of coordinates in range is below it.             *)
LEMMA DivInRange ==
  ASSUME NEW b \in Nat \ {0}, NEW m \in Nat \ {0}
  PROVE  /\ \A a \in 0 .. m * b - 1 : a \div b \in 0 .. m - 1
         /\ \A q \in 0 .. m - 1, r \in 0 .. b - 1 : b * q + r \in 0 .. m * b - 1
<1>1. ASSUME NEW a \in 0 .. m * b - 1
      PROVE  a \div b \in 0 .. m - 1
  <2>0. a \in Int /\ m * b \in Int /\ 0 <= a /\ a < m * b
    OBVIOUS
  <2> DEFINE p == a \div b
  <2>1. p \in Int /\ b * p <= a /\ a < b * p + b
    BY <2>0, DivMod
  <2> HIDE DEF p
  <2>2. ~ p < 0
    <3>1. SUFFICES ASSUME p < 0 PROVE FALSE
      OBVIOUS
    <3>2. b * p + b <= b * 0
      BY <2>1, <3>1, Apart
    <3> QED
      BY <2>0, <2>1, <3>2
  <2>3. p < m
    <3>1. SUFFICES ASSUME ~ p < m PROVE FALSE
      OBVIOUS
    <3>2. b * m <= b * p
      <4>1. CASE p = m
        BY <4>1
      <4>2. CASE m < p
        BY <4>2, <2>1, Apart
      <4> QED
        BY <2>1, <3>1, <4>1, <4>2
    <3>3. b * m = m * b
      OBVIOUS
    <3> QED
      BY <2>0, <2>1, <3>2, <3>3
  <2> QED
    BY <2>1, <2>2, <2>3 DEF p
<1>2. ASSUME NEW q \in 0 .. m - 1, NEW r \in 0 .. b - 1
      PROVE  b * q + r \in 0 .. m * b - 1
  <2>1. b * q + b <= b * m
    BY Apart
  <2>2. b * m = m * b /\ b * q \in Nat
    OBVIOUS
  <2> QED
    BY <2>1, <2>2
<1> QED
  BY <1>1, <1>2

(* A number whose digits are q, i in base M and t in base R.               *)
HasDigits(R, M, q, i, t, L) == L = (M * R) * q + (R * i + t)

(* A digit of a number in a mixed radix, from the number.                  *)
LEMMA DigitOf ==
  ASSUME NEW R \in Nat \ {0}, NEW M \in Nat \ {0}, NEW q \in Nat, NEW i \in 0 .. M - 1,
         NEW t \in 0 .. R - 1, NEW L, HasDigits(R, M, q, i, t, L)
  PROVE  /\ M * q + i \in Nat
         /\ L = R * (M * q + i) + t
         /\ (L \div R) % M = i
<1>1. (M * R) * q = R * (M * q) /\ M * q \in Nat /\ R * i \in Nat /\ i \in Nat /\ t \in Nat
  OBVIOUS
<1> DEFINE p == M * q + i
<1>2. R * p = R * (M * q) + R * i
  BY <1>1
<1>3. p \in Int /\ p \in Nat /\ M * q + i \in Nat
  BY <1>1
<1>4. p % M = i
  <2>1. q \in Int /\ p = M * q + i
    OBVIOUS
  <2> HIDE DEF p
  <2> QED
    BY <1>3, <2>1, DivModUnique
<1> HIDE DEF p
<1>5. L = R * p + t /\ L \in Int
  BY <1>1, <1>2, <1>3 DEF HasDigits
<1>6. L \div R = p
  BY <1>3, <1>5, DivModUnique
<1> QED
  BY <1>3, <1>4, <1>5, <1>6 DEF p

(* The number from its digits.                                             *)
LEMMA DigitsOf ==
  ASSUME NEW R \in Nat \ {0}, NEW M \in Nat \ {0}, NEW L \in Nat
  PROVE  /\ (L \div R) % M \in 0 .. M - 1
         /\ L % (M * R) = R * ((L \div R) % M) + (L % R)
<1> DEFINE q == L \div R
           t == L % R
           i == q % M
           p == q \div M
<1>1. q \in Int /\ t \in 0 .. R - 1 /\ L = R * q + t
  BY DivMod
<1>2. p \in Int /\ i \in 0 .. M - 1 /\ q = M * p + i
  BY <1>1, DivMod
<1> HIDE DEF p, i, q, t
<1>3. R * q = R * (M * p) + R * i
  BY <1>2
<1>4. R * (M * p) = (M * R) * p
  BY <1>2
<1>5. R * i + t \in 0 .. M * R - 1
  BY <1>1, <1>2, DivInRange
<1>6. M * R \in Nat \ {0}
  OBVIOUS
<1> DEFINE W == M * R
           x == R * i + t
<1> HIDE DEF W, x
<1>7. L = W * p + x
  BY <1>1, <1>2, <1>3, <1>4 DEF W, x
<1>8. x \in 0 .. W - 1 /\ W \in Nat \ {0}
  BY <1>5, <1>6 DEF W, x
<1>9. L % W = x
  BY <1>2, <1>7, <1>8, DivModUnique
<1> QED
  BY <1>2, <1>9 DEF W, x, i, q, t

-----------------------------------------------------------------------------
(* Layouts.                                                                *)

Layouts == [Axis5 -> Nat]

(* Indices within a layout; those of left out dimensions do not matter.    *)
Indices(n) == {x \in [Axis5 -> Nat] : \A a \in Axis5 : n[a] # 0 => x[a] < n[a]}

LEMMA RunFacts ==
  ASSUME NEW n \in Layouts
  PROVE  /\ \A a \in Axis5 : OrOne(n[a]) \in Nat \ {0} /\ Run(n, a) \in Nat \ {0}
         /\ Run(n, 4) = 1
         /\ Run(n, 3) = OrOne(n[4]) * Run(n, 4)
         /\ Run(n, 2) = OrOne(n[3]) * Run(n, 3)
         /\ Run(n, 1) = OrOne(n[2]) * Run(n, 2)
         /\ Run(n, 0) = OrOne(n[1]) * Run(n, 1)
         /\ Volume(n) = OrOne(n[0]) * Run(n, 0)
<1> DEFINE m(a) == OrOne(n[a])
<1>1. \A a \in Axis5 : m(a) \in Nat \ {0}
  BY DEF OrOne, Layouts
<1>2. m(0) \in Nat \ {0} /\ m(1) \in Nat \ {0} /\ m(2) \in Nat \ {0}
      /\ m(3) \in Nat \ {0} /\ m(4) \in Nat \ {0}
  BY <1>1 DEF Axis5
<1>3. \A x, y \in Nat \ {0} : x * y \in Nat \ {0}
  OBVIOUS
<1>4. \A x, y, z \in Nat : x * (y * z) = (x * y) * z
  OBVIOUS
<1>5. /\ Run(n, 4) = 1 /\ Run(n, 3) = m(4) /\ Run(n, 2) = m(3) * m(4)
      /\ Run(n, 1) = m(2) * m(3) * m(4) /\ Run(n, 0) = m(1) * m(2) * m(3) * m(4)
      /\ Volume(n) = m(0) * m(1) * m(2) * m(3) * m(4)
  <2> HIDE DEF m
  <2>1. \A x \in Nat : x * 1 = x /\ 1 * x = x
    OBVIOUS
  <2>2. /\ m(0) * m(1) \in Nat /\ m(1) * m(2) \in Nat /\ m(2) * m(3) \in Nat /\ m(3) * m(4) \in Nat
        /\ m(0) * m(1) * m(2) \in Nat /\ m(1) * m(2) * m(3) \in Nat
        /\ m(2) * m(3) * m(4) \in Nat
        /\ m(0) * m(1) * m(2) * m(3) \in Nat /\ m(1) * m(2) * m(3) * m(4) \in Nat
    BY <1>2, <1>3
  <2>3. Run(n, 4) = 1
    BY DEF Run
  <2>4. Run(n, 3) = m(4)
    BY <1>2, <2>1 DEF Run, m
  <2>5. Run(n, 2) = m(3) * m(4)
    BY <1>2, <2>1, <2>2 DEF Run, m
  <2>6. Run(n, 1) = m(2) * m(3) * m(4)
    BY <1>2, <2>1, <2>2 DEF Run, m
  <2>7. Run(n, 0) = m(1) * m(2) * m(3) * m(4)
    BY <1>2, <2>1, <2>2 DEF Run, m
  <2>8. Volume(n) = m(0) * m(1) * m(2) * m(3) * m(4)
    BY <1>2, <2>1, <2>2 DEF Run, Volume, m
  <2> QED
    BY <2>3, <2>4, <2>5, <2>6, <2>7, <2>8
<1> HIDE DEF m
<1>6. /\ m(2) * m(3) * m(4) = m(2) * (m(3) * m(4))
      /\ m(1) * m(2) * m(3) * m(4) = m(1) * (m(2) * m(3) * m(4))
      /\ m(0) * m(1) * m(2) * m(3) * m(4) = m(0) * (m(1) * m(2) * m(3) * m(4))
  BY <1>2
<1>7. /\ m(3) * m(4) \in Nat \ {0} /\ m(2) * m(3) * m(4) \in Nat \ {0}
      /\ m(1) * m(2) * m(3) * m(4) \in Nat \ {0}
  BY <1>2, <1>3
<1>8. \A a \in Axis5 : Run(n, a) \in Nat \ {0}
  <2>1. \A a \in Axis5 : a = 0 \/ a = 1 \/ a = 2 \/ a = 3 \/ a = 4
    BY DEF Axis5
  <2> QED
    BY <1>2, <1>5, <1>7, <2>1
<1>9. m(4) * 1 = m(4)
  BY <1>2
<1> QED
  BY <1>1, <1>5, <1>6, <1>8, <1>9 DEF m

(* Indices, and the number they stand for.                                 *)
LEMMA IndicesOfLinear ==
  ASSUME NEW n \in Layouts, NEW x \in Indices(n)
  PROVE  /\ Linearize(n, x) \in 0 .. Volume(n) - 1
         /\ \A a \in Axis5 : ToIndices(n, Linearize(n, x))[a] = IF n[a] = 0 THEN 0 ELSE x[a]
<1> DEFINE m(a) == OrOne(n[a])
           R(a) == Run(n, a)
           i(a) == IF n[a] = 0 THEN 0 ELSE x[a]
           t4 == R(4) * i(4) + 0
           t3 == R(3) * i(3) + t4
           t2 == R(2) * i(2) + t3
           t1 == R(1) * i(1) + t2
           t0 == R(0) * i(0) + t1
           L == Linearize(n, x)
           q0 == m(0) * 0 + i(0)
           q1 == m(1) * q0 + i(1)
           q2 == m(2) * q1 + i(2)
           q3 == m(3) * q2 + i(3)
           q4 == m(4) * q3 + i(4)
<1>1. \A a \in Axis5 : m(a) \in Nat \ {0} /\ R(a) \in Nat \ {0}
  BY RunFacts
<1>2. /\ R(4) = 1 /\ R(3) = m(4) * R(4) /\ R(2) = m(3) * R(3) /\ R(1) = m(2) * R(2)
      /\ R(0) = m(1) * R(1) /\ Volume(n) = m(0) * R(0)
  BY RunFacts
<1>3. \A a \in Axis5 : i(a) \in 0 .. m(a) - 1
  BY DEF Indices, Layouts, OrOne
<1>4. \A a \in Axis5 : Along(n, x, a) = R(a) * i(a) /\ R(a) * i(a) \in Nat
  <2> TAKE a \in Axis5
  <2>1. R(a) \in Nat /\ x[a] \in Nat /\ n[a] \in Nat
    BY <1>1 DEF Indices, Layouts
  <2>2. R(a) * 0 = 0 /\ R(a) * x[a] = x[a] * R(a) /\ R(a) * x[a] \in Nat
    BY <2>1
  <2> QED
    BY <2>2 DEF Along
<1>5. 0 \in Axis5 /\ 1 \in Axis5 /\ 2 \in Axis5 /\ 3 \in Axis5 /\ 4 \in Axis5
  BY DEF Axis5
<1> HIDE DEF m, R, i
<1>6. L = t0
  <2> DEFINE A(a) == R(a) * i(a)
  <2>1. Linearize(n, x) = A(0) + A(1) + A(2) + A(3) + A(4)
    BY <1>4, <1>5 DEF Linearize
  <2>2. t0 = A(0) + (A(1) + (A(2) + (A(3) + (A(4) + 0))))
    OBVIOUS
  <2>3. A(0) \in Nat /\ A(1) \in Nat /\ A(2) \in Nat /\ A(3) \in Nat /\ A(4) \in Nat
    BY <1>4, <1>5
  <2> HIDE DEF A, t0
  <2> QED
    BY <2>1, <2>2, <2>3
<1> HIDE DEF L
<1>7. /\ t4 \in 0 .. R(3) - 1 /\ t3 \in 0 .. R(2) - 1 /\ t2 \in 0 .. R(1) - 1
      /\ t1 \in 0 .. R(0) - 1 /\ t0 \in 0 .. Volume(n) - 1
  <2>1. ASSUME NEW a \in Axis5, NEW t \in 0 .. R(a) - 1
        PROVE  R(a) * i(a) + t \in 0 .. m(a) * R(a) - 1
    BY <1>1, <1>3, DivInRange
  <2>2. 0 \in 0 .. R(4) - 1
    BY <1>2
  <2> HIDE DEF t4, t3, t2, t1, t0
  <2>3. t4 \in 0 .. R(3) - 1
    BY <1>2, <1>5, <2>1, <2>2 DEF t4
  <2>4. t3 \in 0 .. R(2) - 1
    BY <1>2, <1>5, <2>1, <2>3 DEF t3
  <2>5. t2 \in 0 .. R(1) - 1
    BY <1>2, <1>5, <2>1, <2>4 DEF t2
  <2>6. t1 \in 0 .. R(0) - 1
    BY <1>2, <1>5, <2>1, <2>5 DEF t1
  <2>7. t0 \in 0 .. Volume(n) - 1
    BY <1>2, <1>5, <2>1, <2>6 DEF t0
  <2> QED
    BY <2>3, <2>4, <2>5, <2>6, <2>7
<1>8. ASSUME NEW a \in Axis5, NEW q \in Nat, NEW t \in 0 .. R(a) - 1, NEW W,
             W = m(a) * R(a), L = W * q + (R(a) * i(a) + t)
      PROVE  /\ m(a) * q + i(a) \in Nat
             /\ L = R(a) * (m(a) * q + i(a)) + t
             /\ (L \div R(a)) % m(a) = i(a)
  <2> DEFINE mm == m(a)
             rr == R(a)
             ii == i(a)
  <2>1. mm \in Nat \ {0} /\ rr \in Nat \ {0} /\ ii \in 0 .. mm - 1 /\ t \in 0 .. rr - 1
    BY <1>1, <1>3, <1>8
  <2>2. L = (mm * rr) * q + (rr * ii + t)
    BY <1>8
  <2> HIDE DEF mm, rr, ii
  <2>3. HasDigits(rr, mm, q, ii, t, L)
    BY <1>8, <2>1, <2>2 DEF HasDigits
  <2>4. mm * q + ii \in Nat /\ L = rr * (mm * q + ii) + t /\ (L \div rr) % mm = ii
    BY <1>8, <2>1, <2>3, DigitOf
  <2> QED
    BY <2>4 DEF mm, rr, ii
<1> HIDE DEF t4, t3, t2, t1, t0
<1>9. L = Volume(n) * 0 + t0
  BY <1>1, <1>2, <1>5, <1>6, <1>7
<1>10. q0 \in Nat /\ L = R(0) * q0 + t1 /\ (L \div R(0)) % m(0) = i(0)
  BY <1>2, <1>5, <1>7, <1>8, <1>9 DEF t0
<1> HIDE DEF q0
<1>11. q1 \in Nat /\ L = R(1) * q1 + t2 /\ (L \div R(1)) % m(1) = i(1)
  BY <1>2, <1>5, <1>7, <1>8, <1>10 DEF t1
<1> HIDE DEF q1
<1>12. q2 \in Nat /\ L = R(2) * q2 + t3 /\ (L \div R(2)) % m(2) = i(2)
  BY <1>2, <1>5, <1>7, <1>8, <1>11 DEF t2
<1> HIDE DEF q2
<1>13. q3 \in Nat /\ L = R(3) * q3 + t4 /\ (L \div R(3)) % m(3) = i(3)
  BY <1>2, <1>5, <1>7, <1>8, <1>12 DEF t3
<1> HIDE DEF q3
<1>14. (L \div R(4)) % m(4) = i(4)
  BY <1>2, <1>5, <1>8, <1>13 DEF t4
<1>15. \A a \in Axis5 : (L \div R(a)) % m(a) = i(a)
  <2>1. \A a \in Axis5 : a = 0 \/ a = 1 \/ a = 2 \/ a = 3 \/ a = 4
    BY DEF Axis5
  <2> QED
    BY <1>10, <1>11, <1>12, <1>13, <1>14, <2>1
<1>16. ASSUME NEW a \in Axis5
       PROVE  ToIndices(n, L)[a] = i(a)
  <2>1. CASE n[a] = 0
    <3>1. L \in Int /\ L \div 1 \in Int
      BY <1>6, <1>7
    <3>2. (L \div 1) % 1 = 0
      BY <3>1
    <3> QED
      BY <2>1, <3>2 DEF ToIndices, OrOne, i
  <2>2. CASE n[a] # 0
    BY <1>15, <2>2 DEF ToIndices, R, m
  <2> QED
    BY <2>1, <2>2
<1> QED
  BY <1>6, <1>7, <1>16 DEF L, i

(* A number, and the indices it stands for.                                *)
LEMMA LinearOfIndices ==
  ASSUME NEW n \in Layouts, NEW id \in 0 .. Volume(n) - 1
  PROVE  /\ ToIndices(n, id) \in Indices(n)
         /\ Linearize(n, ToIndices(n, id)) = id
<1> DEFINE m(a) == OrOne(n[a])
           R(a) == Run(n, a)
           i(a) == (id \div R(a)) % m(a)
           x == ToIndices(n, id)
<1>1. \A a \in Axis5 : m(a) \in Nat \ {0} /\ R(a) \in Nat \ {0} /\ n[a] \in Nat
  BY RunFacts DEF Layouts
<1>2. /\ R(4) = 1 /\ R(3) = m(4) * R(4) /\ R(2) = m(3) * R(3) /\ R(1) = m(2) * R(2)
      /\ R(0) = m(1) * R(1) /\ Volume(n) = m(0) * R(0)
  BY RunFacts
<1>3. id \in Nat /\ Volume(n) \in Nat \ {0} /\ id < Volume(n)
  <2>1. 0 \in Axis5
    BY DEF Axis5
  <2>2. m(0) * R(0) \in Nat
    BY <1>1, <2>1
  <2> QED
    BY <1>2, <2>2
<1>4. \A a \in Axis5 : i(a) \in 0 .. m(a) - 1
                       /\ id % (m(a) * R(a)) = R(a) * i(a) + (id % R(a))
  BY <1>1, <1>3, DigitsOf
<1>5. \A a \in Axis5 : n[a] # 0 => m(a) = n[a]
  BY DEF OrOne
<1>6. \A a \in Axis5 : n[a] = 0 => m(a) = 1
  BY DEF OrOne
<1>7. \A a \in Axis5 : x[a] = IF n[a] = 0 THEN 0 ELSE i(a)
  <2> TAKE a \in Axis5
  <2>1. CASE n[a] = 0
    <3>1. id \div 1 \in Int
      BY <1>3
    <3>2. (id \div 1) % 1 = 0
      BY <3>1
    <3> QED
      BY <2>1, <3>2 DEF ToIndices, OrOne
  <2>2. CASE n[a] # 0
    BY <2>2 DEF ToIndices
  <2> QED
    BY <2>1, <2>2
<1>8. DOMAIN x = Axis5 /\ x = [a \in Axis5 |-> x[a]]
  BY DEF ToIndices
<1> HIDE DEF m, R, i, x
<1>9. \A a \in Axis5 : x[a] \in Nat /\ (n[a] # 0 => x[a] < n[a]) /\ x[a] = i(a)
  <2> TAKE a \in Axis5
  <2>1. i(a) \in 0 .. m(a) - 1 /\ m(a) \in Nat /\ n[a] \in Nat
    BY <1>1, <1>4
  <2>2. CASE n[a] = 0
    BY <1>6, <1>7, <2>1, <2>2
  <2>3. CASE n[a] # 0
    BY <1>5, <1>7, <2>1, <2>3
  <2> QED
    BY <2>2, <2>3
<1>10. x \in Indices(n)
  BY <1>8, <1>9 DEF Indices
<1>11. \A a \in Axis5 : Along(n, x, a) = R(a) * i(a) /\ R(a) * i(a) \in Nat
  <2> TAKE a \in Axis5
  <2>1. R(a) \in Nat /\ x[a] \in Nat
    BY <1>1, <1>9
  <2>2. R(a) * 0 = 0 /\ R(a) * x[a] = x[a] * R(a) /\ R(a) * x[a] \in Nat
    BY <2>1
  <2>3. Along(n, x, a) = R(a) * x[a]
    BY <1>7, <2>2 DEF Along, R
  <2> QED
    BY <1>9, <2>2, <2>3
<1>12. 0 \in Axis5 /\ 1 \in Axis5 /\ 2 \in Axis5 /\ 3 \in Axis5 /\ 4 \in Axis5
  BY DEF Axis5
<1>13. id % Volume(n) = id
  BY <1>3
<1>14. id % R(4) = 0
  BY <1>2, <1>3
<1> DEFINE A(a) == R(a) * i(a)
           r(a) == id % R(a)
<1>15. /\ A(0) \in Nat /\ A(1) \in Nat /\ A(2) \in Nat /\ A(3) \in Nat /\ A(4) \in Nat
       /\ Linearize(n, x) = A(0) + A(1) + A(2) + A(3) + A(4)
  BY <1>11, <1>12 DEF Linearize
<1>16. /\ id = A(0) + r(0) /\ r(0) = A(1) + r(1) /\ r(1) = A(2) + r(2)
       /\ r(2) = A(3) + r(3) /\ r(3) = A(4) + 0
  BY <1>2, <1>4, <1>12, <1>13, <1>14
<1> HIDE DEF A, r
<1>17. Linearize(n, x) = id
  BY <1>3, <1>15, <1>16
<1> QED
  BY <1>10, <1>17 DEF x

-----------------------------------------------------------------------------
(* The spaces of PartitionSpace.                                           *)

LEMMA SpaceLayout ==
  ASSUME NEW space \in Space
  PROVE  /\ LocalLayout(space) \in Layouts
         /\ \A a \in Axis5 : /\ LocalLayout(space)[a] # 0 <=> a \in AxesOf[space]
                             /\ LocalLayout(space)[a] # 0 =>
                                  LocalLayout(space)[a] = LocalLayout("PQR")[a]
<1>1. "PQR" \in Space /\ AxesOf["PQR"] = Axis5
  BY DEF Space, AxesOf
<1>2. \A a \in Axis5 : NumLocal[a] \in Nat \ {0}
  BY LocalAssumption
<1> QED
  BY <1>1, <1>2 DEF LocalLayout, Layouts

(* A subdomain's coordinates are within the layout of every space.         *)
LEMMA CoordFacts ==
  ASSUME NEW space \in Space, NEW s \in LocalSdom
  PROVE  /\ Coord(s) \in Indices(LocalLayout(space))
         /\ Linearize(LocalLayout("PQR"), Coord(s)) = s
<1>1. "PQR" \in Space
  BY DEF Space, AxesOf
<1>2. /\ Coord(s) \in Indices(LocalLayout("PQR"))
      /\ Linearize(LocalLayout("PQR"), Coord(s)) = s
  BY <1>1, SpaceLayout, LinearOfIndices DEF LocalSdom, NumSubdomains, Coord, SdomIdToCoord
<1>3. Coord(s) \in Indices(LocalLayout(space))
  BY <1>2, SpaceLayout DEF Indices
<1> QED
  BY <1>2, <1>3

(* A subdomain's chunk, and the coordinates of the chunk.                  *)
LEMMA ChunkFacts ==
  ASSUME NEW space \in Space, NEW s \in LocalSdom
  PROVE  /\ ChunkOf(space, s) \in Chunks(space)
         /\ \A a \in AxesOf[space] : a \in Axis5 =>
              ToIndices(LocalLayout(space), ChunkOf(space, s))[a] = Coord(s)[a]
<1> DEFINE n == LocalLayout(space)
<1>1. n \in Layouts /\ Coord(s) \in Indices(n)
  BY SpaceLayout, CoordFacts
<1>2. ChunkOf(space, s) = Linearize(n, Coord(s)) /\ Chunks(space) = 0 .. Volume(n) - 1
  BY DEF ChunkOf, SubdomainToSpace, Coord, Chunks, NumSubdomains
<1>3. \A a \in Axis5 : n[a] # 0 <=> a \in AxesOf[space]
  BY SpaceLayout
<1> HIDE DEF n
<1>4. /\ Linearize(n, Coord(s)) \in 0 .. Volume(n) - 1
      /\ \A a \in Axis5 :
           ToIndices(n, Linearize(n, Coord(s)))[a] = IF n[a] = 0 THEN 0 ELSE Coord(s)[a]
  BY <1>1, IndicesOfLinear
<1> QED
  BY <1>2, <1>3, <1>4 DEF n

(* Subdomains share a chunk exactly if they agree in all dimensions of the *)
(* space.                                                                  *)
LEMMA SameChunk ==
  ASSUME NEW space \in Space, NEW s \in LocalSdom, NEW t \in LocalSdom
  PROVE  ChunkOf(space, s) = ChunkOf(space, t)
           <=> \A a \in AxesOf[space] : a \in Axis5 => Coord(s)[a] = Coord(t)[a]
<1>1. ASSUME ChunkOf(space, s) = ChunkOf(space, t)
      PROVE  \A a \in AxesOf[space] : a \in Axis5 => Coord(s)[a] = Coord(t)[a]
  <2> TAKE a \in AxesOf[space]
  <2> HAVE a \in Axis5
  <2>1. ToIndices(LocalLayout(space), ChunkOf(space, s))[a] = Coord(s)[a]
    BY ChunkFacts
  <2>2. ToIndices(LocalLayout(space), ChunkOf(space, t))[a] = Coord(t)[a]
    BY ChunkFacts
  <2> QED
    BY <1>1, <2>1, <2>2
<1>2. ASSUME \A a \in AxesOf[space] : a \in Axis5 => Coord(s)[a] = Coord(t)[a]
      PROVE  ChunkOf(space, s) = ChunkOf(space, t)
  <2> DEFINE n == LocalLayout(space)
  <2>1. \A a \in Axis5 : n[a] = 0 \/ Coord(s)[a] = Coord(t)[a]
    BY <1>2, SpaceLayout
  <2> HIDE DEF n
  <2>2. \A a \in Axis5 : Along(n, Coord(s), a) = Along(n, Coord(t), a)
    BY <2>1 DEF Along
  <2>3. 0 \in Axis5 /\ 1 \in Axis5 /\ 2 \in Axis5 /\ 3 \in Axis5 /\ 4 \in Axis5
    BY DEF Axis5
  <2>4. Linearize(n, Coord(s)) = Linearize(n, Coord(t))
    BY <2>2, <2>3 DEF Linearize
  <2> QED
    BY <2>4 DEF n, ChunkOf, SubdomainToSpace, Coord
<1> QED
  BY <1>1, <1>2

(* The work list of a space has a subdomain for each chunk.                *)
LEMMA WorkListFacts ==
  ASSUME NEW space \in Space, NEW c \in Chunks(space)
  PROVE  /\ WorkList(space)[c] \in LocalSdom
         /\ ChunkOf(space, WorkList(space)[c]) = c
<1> DEFINE n == LocalLayout(space)
           all == LocalLayout("PQR")
           x == ToIndices(n, c)
           s == Linearize(all, x)
<1>1. "PQR" \in Space /\ AxesOf["PQR"] = Axis5
  BY DEF Space, AxesOf
<1>2. n \in Layouts /\ all \in Layouts
      /\ \A a \in Axis5 : (n[a] # 0 => n[a] = all[a]) /\ all[a] # 0
  BY <1>1, SpaceLayout
<1>3. c \in 0 .. Volume(n) - 1
  BY DEF Chunks, NumSubdomains
<1>4. WorkList(space)[c] = s
  BY DEF WorkList, SpaceToSubdomain
<1>5. LocalSdom = 0 .. Volume(all) - 1
  BY DEF LocalSdom, NumSubdomains
<1>6. Coord(s) = ToIndices(all, s) /\ ChunkOf(space, s) = Linearize(n, Coord(s))
  BY DEF Coord, SdomIdToCoord, ChunkOf, SubdomainToSpace
<1> HIDE DEF n, all
<1>7. x \in Indices(n) /\ Linearize(n, x) = c
  BY <1>2, <1>3, LinearOfIndices
<1>8. \A a \in Axis5 : x[a] = IF n[a] = 0 THEN 0 ELSE x[a]
  <2>1. \A a \in Axis5 : ToIndices(n, Linearize(n, x))[a] = IF n[a] = 0 THEN 0 ELSE x[a]
    BY <1>2, <1>7, IndicesOfLinear
  <2> QED
    BY <1>7, <2>1
<1> HIDE DEF x
<1>9. x \in Indices(all)
  <2>1. \A a \in Axis5 : all[a] \in Nat /\ x[a] \in Nat
    BY <1>2, <1>7 DEF Layouts, Indices
  <2>2. ASSUME NEW a \in Axis5
        PROVE  x[a] < all[a]
    <3>1. CASE n[a] = 0
      BY <1>2, <1>8, <2>1, <3>1
    <3>2. CASE n[a] # 0
      BY <1>2, <1>7, <3>2 DEF Indices
    <3> QED
      BY <3>1, <3>2
  <2> QED
    BY <1>7, <2>2 DEF Indices
<1>10. s \in 0 .. Volume(all) - 1 /\ \A a \in Axis5 : ToIndices(all, s)[a] = x[a]
  BY <1>2, <1>9, IndicesOfLinear
<1> HIDE DEF s
<1>11. ToIndices(all, s) = x
  <2>1. x = [a \in Axis5 |-> x[a]]
    BY <1>7 DEF Indices
  <2>2. ToIndices(all, s) = [a \in Axis5 |-> ToIndices(all, s)[a]]
    BY DEF ToIndices
  <2> QED
    BY <1>10, <2>1, <2>2
<1> QED
  BY <1>4, <1>5, <1>6, <1>7, <1>10, <1>11

(* Space PQR has a chunk for each subdomain, in order.                     *)
LEMMA OwnChunk ==
  /\ Chunks("PQR") = LocalSdom
  /\ \A s \in LocalSdom : ChunkOf("PQR", s) = s /\ WorkList("PQR")[s] = s
<1>1. "PQR" \in Space
  BY DEF Space, AxesOf
<1>2. Chunks("PQR") = LocalSdom
  BY DEF Chunks, LocalSdom
<1>3. \A s \in LocalSdom : ChunkOf("PQR", s) = s
  BY <1>1, CoordFacts DEF ChunkOf, SubdomainToSpace, Coord
<1>4. \A s \in LocalSdom : WorkList("PQR")[s] = s
  BY <1>1, <1>2, <1>3, WorkListFacts
<1> QED
  BY <1>2, <1>3, <1>4

(* The chunks of the spaces of one dimension are its coordinates.          *)
LEMMA SetChunks ==
  ASSUME NEW s \in LocalSdom
  PROVE  ChunkOf("P", s) = Coord(s)[0] /\ ChunkOf("Q", s) = Coord(s)[1]
<1>1. "P" \in Space /\ "Q" \in Space /\ AxesOf["P"] = {0} /\ AxesOf["Q"] = {1}
  BY DEF Space, AxesOf
<1>2. \A a \in Axis5 : Coord(s)[a] \in Nat
  BY <1>1, CoordFacts DEF Indices
<1>3. /\ 0 \in Axis5 /\ 1 \in Axis5 /\ 2 \in Axis5 /\ 3 \in Axis5 /\ 4 \in Axis5
      /\ \A a \in Axis5 : NumLocal[a] \in Nat \ {0}
  BY LocalAssumption DEF Axis5
<1>4. ASSUME NEW space \in Space, NEW b \in {0, 1}, AxesOf[space] = {b}
      PROVE  ChunkOf(space, s) = Coord(s)[b]
  <2> DEFINE n == LocalLayout(space)
  <2>1. \A a \in Axis5 : n[a] = IF a = b THEN NumLocal[b] ELSE 0
    BY <1>3, <1>4 DEF LocalLayout
  <2>2. ChunkOf(space, s) = Linearize(n, Coord(s))
    BY DEF ChunkOf, SubdomainToSpace, Coord
  <2> HIDE DEF n
  <2>3. n[b] = NumLocal[b] /\ \A a \in Axis5 : a # b => n[a] = 0
    BY <1>3, <2>1
  <2>4. Run(n, b) = 1
    BY <1>3, <2>3 DEF Run, OrOne
  <2>5. Coord(s)[b] * 1 = Coord(s)[b] /\ Coord(s)[b] \in Nat
    BY <1>2, <1>3
  <2>6. Along(n, Coord(s), b) = Coord(s)[b]
    BY <1>3, <2>3, <2>4, <2>5 DEF Along
  <2>7. \A a \in Axis5 : a # b => Along(n, Coord(s), a) = 0
    BY <2>3 DEF Along
  <2> QED
    BY <1>3, <2>2, <2>5, <2>6, <2>7 DEF Linearize
<1> QED
  BY <1>1, <1>4

(* Subdomains share the moments exactly if they share groups and zones.    *)
LEMMA MomentChunks ==
  ASSUME NEW s \in LocalSdom, NEW t \in LocalSdom
  PROVE  /\ ChunkOf("PR", s) = ChunkOf("PR", t)
              <=> ChunkOf("P", s) = ChunkOf("P", t) /\ ChunkOf("R", s) = ChunkOf("R", t)
         /\ SameZones(s, t) <=> ChunkOf("R", s) = ChunkOf("R", t)
<1>1. /\ "P" \in Space /\ "R" \in Space /\ "PR" \in Space
      /\ AxesOf["P"] = {0} /\ AxesOf["R"] = {2, 3, 4} /\ AxesOf["PR"] = {0, 2, 3, 4}
  BY DEF Space, AxesOf
<1>2. 0 \in Axis5 /\ 2 \in Axis5 /\ 3 \in Axis5 /\ 4 \in Axis5
  BY DEF Axis5
<1>3. ChunkOf("P", s) = ChunkOf("P", t) <=> Coord(s)[0] = Coord(t)[0]
  BY <1>1, <1>2, SameChunk
<1>4. ChunkOf("R", s) = ChunkOf("R", t) <=> \A a \in {2, 3, 4} : Coord(s)[a] = Coord(t)[a]
  BY <1>1, <1>2, SameChunk
<1>5. ChunkOf("PR", s) = ChunkOf("PR", t)
        <=> \A a \in {0, 2, 3, 4} : Coord(s)[a] = Coord(t)[a]
  BY <1>1, <1>2, SameChunk
<1>6. SameZones(s, t) <=> \A a \in {2, 3, 4} : Coord(s)[a] = Coord(t)[a]
  BY DEF SameZones
<1> QED
  BY <1>3, <1>4, <1>5, <1>6

(* A subdomain's chunk of space R is the one in the same zones.            *)
LEMMA ZoneChunk ==
  ASSUME NEW s \in LocalSdom, NEW r \in Chunks("R")
  PROVE  ZonesOf(r, s) <=> r = ChunkOf("R", s)
<1>1. "R" \in Space /\ AxesOf["R"] = {2, 3, 4}
  BY DEF Space, AxesOf
<1>2. 2 \in Axis5 /\ 3 \in Axis5 /\ 4 \in Axis5
  BY DEF Axis5
<1>3. PICK t \in LocalSdom : ChunkOf("R", t) = r
  BY <1>1, WorkListFacts
<1>4. \A a \in {2, 3, 4} : ToIndices(LocalLayout("R"), r)[a] = Coord(t)[a]
  BY <1>1, <1>2, <1>3, ChunkFacts
<1>5. ZonesOf(r, s) <=> SameZones(s, t)
  BY <1>4 DEF ZonesOf, SameZones
<1> QED
  BY <1>3, <1>5, MomentChunks

-----------------------------------------------------------------------------
(* The inductive invariant: a field's chunks hold exactly the terms of the *)
(* entries already dispatched.                                             *)

Groups(s) == ChunkOf("P", s)

Directions(s) == ChunkOf("Q", s)

Zones(s) == ChunkOf("R", s)

(* The subdomains that dispatch the moments of a chunk of space PR.        *)
Representatives == {WorkList("PR")[c] : c \in Chunks("PR")}

Pairs == Representatives \X Representatives

Left == {todo[n] : n \in DOMAIN todo}

(* A moment of the flux of subdomain s after iteration k.                  *)
Moment(s, k) == [of |-> <<s, k>>, by |-> <<Directions(s)>>]

MomentsOf(V, k, c) == {Moment(s, k) : s \in {t \in V : ChunkOf("PR", t) = c}}

(* That moment scattered from p[1]'s groups into p[2]'s.                   *)
Scattered(s, p, k) == [of |-> <<s, k>>, by |-> <<Directions(s), Groups(p[1]), Groups(p[2])>>]

ScatteredInto(E, k, c) ==
  UNION {{Scattered(s, p, k) : s \in {t \in LocalSdom : ChunkOf("PR", t) = ChunkOf("PR", p[1])}} :
           p \in {q \in E : Zones(q[1]) = Zones(q[2]) /\ ChunkOf("PR", q[2]) = c}}

External(s) == [of |-> <<"source">>, by |-> <<Zones(s)>>]

ExternalInto(V, c) == {External(s) : s \in {t \in V : ChunkOf("PR", t) = c}}

Counted(s, k) == [of |-> <<s, k>>, by |-> <<Directions(s), Zones(s)>>]

FieldsAreFunctions ==
  /\ psi = [s \in LocalSdom |-> <<s, iter>>]
  /\ phi = [c \in Chunks("PR") |-> phi[c]]
  /\ phi_out = [c \in Chunks("PR") |-> phi_out[c]]
  /\ rhs = [s \in LocalSdom |-> rhs[s]]

(* No entry is dispatched twice.                                           *)
TodoIsLeft ==
  /\ \A m, n \in DOMAIN todo : todo[m] = todo[n] => m = n
  /\ call = "start" => todo = << >>
  /\ call \in {"LTimes", "LPlusTimes", "Population"} => todo \in Seq(LocalSdom)
  /\ call = "Scattering" => todo \in Seq(Pairs)
  /\ call = "Source" => todo \in Seq(Representatives)

FlowInv ==
  /\ iter \in Nat
  /\ call = "start" => iter = 0
  /\ FieldsAreFunctions
  /\ TodoIsLeft
  /\ call = "LTimes" =>
       phi = [c \in Chunks("PR") |-> SetToBag(MomentsOf(LocalSdom \ Left, iter, c))]
  /\ call = "Scattering" =>
       /\ phi = [c \in Chunks("PR") |-> SetToBag(MomentsOf(LocalSdom, iter, c))]
       /\ phi_out = [c \in Chunks("PR") |-> SetToBag(ScatteredInto(Pairs \ Left, iter, c))]
  /\ call = "Source" =>
       phi_out = [c \in Chunks("PR") |->
                    SetToBag(ScatteredInto(Pairs, iter, c)
                             \cup ExternalInto(Representatives \ Left, c))]
  /\ call = "LPlusTimes" =>
       /\ phi_out = [c \in Chunks("PR") |->
                       SetToBag(ScatteredInto(Pairs, iter, c)
                                \cup ExternalInto(Representatives, c))]
       /\ rhs = [s \in LocalSdom |-> IF s \in Left THEN EmptyBag ELSE FullSource(s)]
  /\ call = "Population" => part = SetToBag({Counted(s, iter) : s \in LocalSdom \ Left})

-----------------------------------------------------------------------------
(* Bags of different terms.                                                *)

LEMMA SetToBagUnion ==
  ASSUME NEW A, NEW B, \A x \in A : x \notin B
  PROVE  SetToBag(A) (+) SetToBag(B) = SetToBag(A \cup B)
BY DEF SetToBag, (+)

LEMMA AllTimesSet ==
  ASSUME NEW A, NEW f
  PROVE  AllTimes(SetToBag(A), f) = SetToBag({Times(u, f) : u \in A})
BY DEF SetToBag, AllTimes

(* A sequence is the concatenation of two if its elements are theirs.      *)
LEMMA Appended ==
  ASSUME NEW U, NEW x \in Seq(U), NEW y \in Seq(U), NEW z \in Seq(U),
         Len(z) = Len(x) + Len(y),
         \A n \in 1 .. Len(z) : z[n] = IF n <= Len(x) THEN x[n] ELSE y[n - Len(x)]
  PROVE  x \o y = z
<1> DEFINE w == x \o y
<1>1. /\ w \in Seq(U)
      /\ Len(w) = Len(x) + Len(y)
      /\ \A n \in 1 .. Len(x) + Len(y) : w[n] = IF n <= Len(x) THEN x[n] ELSE y[n - Len(x)]
  BY ConcatProperties
<1> HIDE DEF w
<1>2. \A n \in 1 .. Len(w) : w[n] = z[n]
  BY <1>1
<1>3. w = z
  BY <1>1, <1>2, SeqEqual
<1> QED
  BY <1>3 DEF w

(* The factors of a term that is multiplied.                               *)
LEMMA Factors ==
  /\ \A o, a : Times([of |-> o, by |-> << >>], <<a>>) = [of |-> o, by |-> <<a>>]
  /\ \A o, a, b : Times([of |-> o, by |-> << >>], <<a, b>>) = [of |-> o, by |-> <<a, b>>]
  /\ \A o, a, b : Times([of |-> o, by |-> <<a>>], <<b>>) = [of |-> o, by |-> <<a, b>>]
  /\ \A o, a, b, c :
       Times([of |-> o, by |-> <<a>>], <<b, c>>) = [of |-> o, by |-> <<a, b, c>>]
  /\ \A o, a, b, c, d :
       Times([of |-> o, by |-> <<a, b, c>>], <<d>>) = [of |-> o, by |-> <<a, b, c, d>>]
<1>1. ASSUME NEW a
      PROVE  << >> \o <<a>> = <<a>>
  <2> DEFINE U == {a}
             x == <<a>>
  <2>1. x \in Seq(U)
    OBVIOUS
  <2> HIDE DEF x, U
  <2>2. << >> \o x = x
    BY <2>1, ConcatEmptySeq
  <2> QED
    BY <2>2 DEF x
<1>2. ASSUME NEW a, NEW b
      PROVE  << >> \o <<a, b>> = <<a, b>>
  <2> DEFINE U == {a, b}
             x == <<a, b>>
  <2>1. x \in Seq(U)
    OBVIOUS
  <2> HIDE DEF x, U
  <2>2. << >> \o x = x
    BY <2>1, ConcatEmptySeq
  <2> QED
    BY <2>2 DEF x
<1>3. ASSUME NEW a, NEW b
      PROVE  <<a>> \o <<b>> = <<a, b>>
  <2> DEFINE U == {a, b}
             x == <<a>>
             y == <<b>>
             z == <<a, b>>
  <2>1. /\ x \in Seq(U) /\ Len(x) = 1 /\ x[1] = a
        /\ y \in Seq(U) /\ Len(y) = 1 /\ y[1] = b
        /\ z \in Seq(U) /\ Len(z) = 2 /\ z[1] = a /\ z[2] = b
    OBVIOUS
  <2> HIDE DEF x, y, z, U
  <2>2. Len(z) = Len(x) + Len(y) /\ 2 - Len(x) = 1
    BY <2>1
  <2>3. \A n \in 1 .. Len(z) : z[n] = IF n <= Len(x) THEN x[n] ELSE y[n - Len(x)]
    BY <2>1, <2>2
  <2>4. x \o y = z
    BY <2>1, <2>2, <2>3, Appended
  <2> QED
    BY <2>4 DEF x, y, z
<1>4. ASSUME NEW a, NEW b, NEW c
      PROVE  <<a>> \o <<b, c>> = <<a, b, c>>
  <2> DEFINE U == {a, b, c}
             x == <<a>>
             y == <<b, c>>
             z == <<a, b, c>>
  <2>1. /\ x \in Seq(U) /\ Len(x) = 1 /\ x[1] = a
        /\ y \in Seq(U) /\ Len(y) = 2 /\ y[1] = b /\ y[2] = c
        /\ z \in Seq(U) /\ Len(z) = 3 /\ z[1] = a /\ z[2] = b /\ z[3] = c
    OBVIOUS
  <2> HIDE DEF x, y, z, U
  <2>2. Len(z) = Len(x) + Len(y) /\ 2 - Len(x) = 1 /\ 3 - Len(x) = 2
    BY <2>1
  <2>3. \A n \in 1 .. Len(z) : z[n] = IF n <= Len(x) THEN x[n] ELSE y[n - Len(x)]
    BY <2>1, <2>2
  <2>4. x \o y = z
    BY <2>1, <2>2, <2>3, Appended
  <2> QED
    BY <2>4 DEF x, y, z
<1>5. ASSUME NEW a, NEW b, NEW c, NEW d
      PROVE  <<a, b, c>> \o <<d>> = <<a, b, c, d>>
  <2> DEFINE U == {a, b, c, d}
             x == <<a, b, c>>
             y == <<d>>
             z == <<a, b, c, d>>
  <2>1. /\ x \in Seq(U) /\ Len(x) = 3 /\ x[1] = a /\ x[2] = b /\ x[3] = c
        /\ y \in Seq(U) /\ Len(y) = 1 /\ y[1] = d
        /\ z \in Seq(U) /\ Len(z) = 4 /\ z[1] = a /\ z[2] = b /\ z[3] = c /\ z[4] = d
    OBVIOUS
  <2> HIDE DEF x, y, z, U
  <2>2. Len(z) = Len(x) + Len(y) /\ 4 - Len(x) = 1
    BY <2>1
  <2>3. \A n \in 1 .. Len(z) : z[n] = IF n <= Len(x) THEN x[n] ELSE y[n - Len(x)]
    BY <2>1, <2>2
  <2>4. x \o y = z
    BY <2>1, <2>2, <2>3, Appended
  <2> QED
    BY <2>4 DEF x, y, z
<1>6. ASSUME NEW o, NEW x, NEW f
      PROVE  Times([of |-> o, by |-> x], f) = [of |-> o, by |-> x \o f]
  BY DEF Times
<1>7. ASSUME NEW o, NEW a
      PROVE  Times([of |-> o, by |-> << >>], <<a>>) = [of |-> o, by |-> <<a>>]
  <2> DEFINE xx == << >>
             ff == <<a>>
  <2>1. xx \o ff = <<a>>
    BY <1>1
  <2> HIDE DEF xx, ff
  <2>2. Times([of |-> o, by |-> xx], ff) = [of |-> o, by |-> xx \o ff]
    BY <1>6
  <2> QED
    BY <2>1, <2>2 DEF xx, ff
<1>8. ASSUME NEW o, NEW a, NEW b
      PROVE  Times([of |-> o, by |-> << >>], <<a, b>>) = [of |-> o, by |-> <<a, b>>]
  <2> DEFINE xx == << >>
             ff == <<a, b>>
  <2>1. xx \o ff = <<a, b>>
    BY <1>2
  <2> HIDE DEF xx, ff
  <2>2. Times([of |-> o, by |-> xx], ff) = [of |-> o, by |-> xx \o ff]
    BY <1>6
  <2> QED
    BY <2>1, <2>2 DEF xx, ff
<1>9. ASSUME NEW o, NEW a, NEW b
      PROVE  Times([of |-> o, by |-> <<a>>], <<b>>) = [of |-> o, by |-> <<a, b>>]
  <2> DEFINE xx == <<a>>
             ff == <<b>>
  <2>1. xx \o ff = <<a, b>>
    BY <1>3
  <2> HIDE DEF xx, ff
  <2>2. Times([of |-> o, by |-> xx], ff) = [of |-> o, by |-> xx \o ff]
    BY <1>6
  <2> QED
    BY <2>1, <2>2 DEF xx, ff
<1>10. ASSUME NEW o, NEW a, NEW b, NEW c
      PROVE  Times([of |-> o, by |-> <<a>>], <<b, c>>) = [of |-> o, by |-> <<a, b, c>>]
  <2> DEFINE xx == <<a>>
             ff == <<b, c>>
  <2>1. xx \o ff = <<a, b, c>>
    BY <1>4
  <2> HIDE DEF xx, ff
  <2>2. Times([of |-> o, by |-> xx], ff) = [of |-> o, by |-> xx \o ff]
    BY <1>6
  <2> QED
    BY <2>1, <2>2 DEF xx, ff
<1>11. ASSUME NEW o, NEW a, NEW b, NEW c, NEW d
      PROVE  Times([of |-> o, by |-> <<a, b, c>>], <<d>>) = [of |-> o, by |-> <<a, b, c, d>>]
  <2> DEFINE xx == <<a, b, c>>
             ff == <<d>>
  <2>1. xx \o ff = <<a, b, c, d>>
    BY <1>5
  <2> HIDE DEF xx, ff
  <2>2. Times([of |-> o, by |-> xx], ff) = [of |-> o, by |-> xx \o ff]
    BY <1>6
  <2> QED
    BY <2>1, <2>2 DEF xx, ff
<1> QED
  BY <1>7, <1>8, <1>9, <1>10, <1>11

-----------------------------------------------------------------------------
(* Work lists.                                                             *)

(* The representatives are one subdomain for each chunk of moments.        *)
LEMMA RepresentativeFacts ==
  /\ Representatives \subseteq LocalSdom
  /\ \A s \in LocalSdom : \E r \in Representatives : ChunkOf("PR", r) = ChunkOf("PR", s)
  /\ \A q, r \in Representatives : ChunkOf("PR", q) = ChunkOf("PR", r) => q = r
<1>1. "PR" \in Space
  BY DEF Space, AxesOf
<1>2. \A c \in Chunks("PR") : /\ WorkList("PR")[c] \in LocalSdom
                              /\ ChunkOf("PR", WorkList("PR")[c]) = c
  BY <1>1, WorkListFacts
<1>3. \A s \in LocalSdom : ChunkOf("PR", s) \in Chunks("PR")
  BY <1>1, ChunkFacts
<1> QED
  BY <1>2, <1>3 DEF Representatives

LEMMA NumSubdomainsType ==
  ASSUME NEW space \in Space
  PROVE  NumSubdomains(space) \in Nat \ {0}
<1> DEFINE n == LocalLayout(space)
<1>1. n \in Layouts
  BY SpaceLayout
<1> HIDE DEF n
<1>2. Volume(n) = OrOne(n[0]) * Run(n, 0) /\ OrOne(n[0]) \in Nat \ {0} /\ Run(n, 0) \in Nat \ {0}
  BY <1>1, RunFacts DEF Axis5
<1>3. \A x, y \in Nat \ {0} : x * y \in Nat \ {0}
  OBVIOUS
<1> QED
  BY <1>2, <1>3 DEF NumSubdomains, n

(* The entries a loop over a work list has to dispatch, each once.         *)
LEMMA VisitsFacts ==
  ASSUME NEW space \in Space
  PROVE  /\ Visits(space) \in Seq({WorkList(space)[c] : c \in Chunks(space)})
         /\ {Visits(space)[n] : n \in DOMAIN Visits(space)}
              = {WorkList(space)[c] : c \in Chunks(space)}
         /\ \A m, n \in DOMAIN Visits(space) : Visits(space)[m] = Visits(space)[n] => m = n
<1> DEFINE N == NumSubdomains(space)
           v == Visits(space)
           W == {WorkList(space)[c] : c \in Chunks(space)}
<1>1. N \in Nat /\ Chunks(space) = 0 .. N - 1
  BY NumSubdomainsType DEF Chunks
<1>2. v = [n \in 1 .. N |-> WorkList(space)[n - 1]]
  BY DEF Visits
<1>3. \A c, d \in Chunks(space) : WorkList(space)[c] = WorkList(space)[d] => c = d
  BY WorkListFacts
<1> HIDE DEF N, v
<1>4. \A n \in 1 .. N : n - 1 \in Chunks(space)
  BY <1>1
<1>5. v \in Seq(W)
  BY <1>1, <1>2, <1>4
<1>6. \A m, n \in DOMAIN v : v[m] = v[n] => m = n
  BY <1>1, <1>2, <1>3, <1>4
<1>7. {v[n] : n \in DOMAIN v} = W
  <2>1. \A n \in DOMAIN v : v[n] \in W
    BY <1>2, <1>4
  <2>2. ASSUME NEW c \in Chunks(space)
        PROVE  \E n \in DOMAIN v : v[n] = WorkList(space)[c]
    <3>1. c + 1 \in 1 .. N /\ (c + 1) - 1 = c
      BY <1>1
    <3> QED
      BY <1>2, <3>1
  <2> QED
    BY <2>1, <2>2
<1> QED
  BY <1>5, <1>6, <1>7 DEF v

LEMMA AllVisits ==
  /\ Visits("PQR") \in Seq(LocalSdom)
  /\ {Visits("PQR")[n] : n \in DOMAIN Visits("PQR")} = LocalSdom
  /\ \A m, n \in DOMAIN Visits("PQR") : Visits("PQR")[m] = Visits("PQR")[n] => m = n
<1>1. "PQR" \in Space
  BY DEF Space, AxesOf
<1>2. {WorkList("PQR")[c] : c \in Chunks("PQR")} = LocalSdom
  BY OwnChunk
<1> QED
  BY <1>1, <1>2, VisitsFacts

(* Scattering has each pair of representatives once.                       *)
LEMMA PairsFacts ==
  /\ SourcesAndTargets \in Seq(Pairs)
  /\ {SourcesAndTargets[n] : n \in DOMAIN SourcesAndTargets} = Pairs
  /\ \A m, n \in DOMAIN SourcesAndTargets : SourcesAndTargets[m] = SourcesAndTargets[n] => m = n
<1> DEFINE N == NumSubdomains("PR")
           w == WorkList("PR")
           v == SourcesAndTargets
<1>1. "PR" \in Space
  BY DEF Space, AxesOf
<1>2. N \in Nat \ {0} /\ Chunks("PR") = 0 .. N - 1
  BY <1>1, NumSubdomainsType DEF Chunks
<1>3. v = [n \in 1 .. N * N |-> <<w[(n - 1) \div N], w[(n - 1) % N]>>]
  BY DEF SourcesAndTargets
<1>4. \A c, d \in Chunks("PR") : w[c] = w[d] => c = d
  BY <1>1, WorkListFacts
<1>5. Representatives = {w[c] : c \in Chunks("PR")}
  BY DEF Representatives
<1> HIDE DEF N, w, v
<1> DEFINE M == N * N
<1>6. M \in Nat
  BY <1>2
<1>7. ASSUME NEW n \in 1 .. M
      PROVE  /\ (n - 1) \div N \in Chunks("PR") /\ (n - 1) % N \in Chunks("PR")
             /\ n - 1 = N * ((n - 1) \div N) + ((n - 1) % N)
  <2> DEFINE k == n - 1
  <2>1. k \in 0 .. M - 1 /\ k \in Int
    BY <1>6
  <2> HIDE DEF k
  <2>2. k \div N \in 0 .. N - 1
    BY <1>2, <2>1, DivInRange
  <2>3. (k % N) \in 0 .. N - 1 /\ k = N * (k \div N) + (k % N)
    BY <1>2, <2>1, DivMod
  <2> QED
    BY <1>2, <2>2, <2>3 DEF k
<1>8. ASSUME NEW c \in Chunks("PR"), NEW d \in Chunks("PR")
      PROVE  \E n \in 1 .. M : (n - 1) \div N = c /\ (n - 1) % N = d
  <2> DEFINE k == N * c + d
  <2>1. k \in 0 .. M - 1
    BY <1>2, DivInRange
  <2>2. k \in Int /\ c \in Int /\ d \in 0 .. N - 1 /\ k = N * c + d
    BY <1>2, <1>6, <2>1
  <2> HIDE DEF k, M
  <2>3. k \div N = c /\ k % N = d
    BY <1>2, <2>2, DivModUnique
  <2>4. k + 1 \in 1 .. M /\ (k + 1) - 1 = k
    BY <1>6, <2>1, <2>2
  <2> QED
    BY <2>3, <2>4
<1> HIDE DEF M
<1>9. v = [n \in 1 .. M |-> <<w[(n - 1) \div N], w[(n - 1) % N]>>]
  BY <1>3 DEF M
<1>10. \A n \in 1 .. M : v[n] = <<w[(n - 1) \div N], w[(n - 1) % N]>> /\ v[n] \in Pairs
  BY <1>5, <1>7, <1>9 DEF Pairs
<1>11. v \in Seq(Pairs)
  BY <1>6, <1>9, <1>10
<1>12. ASSUME NEW m \in 1 .. M, NEW n \in 1 .. M, v[m] = v[n]
       PROVE  m = n
  <2>1. w[(m - 1) \div N] = w[(n - 1) \div N] /\ w[(m - 1) % N] = w[(n - 1) % N]
    BY <1>10, <1>12
  <2>2. (m - 1) \div N = (n - 1) \div N /\ (m - 1) % N = (n - 1) % N
    BY <1>4, <1>7, <2>1
  <2>3. m - 1 = n - 1
    BY <1>7, <2>2
  <2> QED
    BY <1>6, <2>3
<1>13. ASSUME NEW p \in Pairs
       PROVE  \E n \in 1 .. M : v[n] = p
  <2>1. PICK c \in Chunks("PR"), d \in Chunks("PR") : p = <<w[c], w[d]>>
    BY <1>5 DEF Pairs
  <2>2. PICK n \in 1 .. M : (n - 1) \div N = c /\ (n - 1) % N = d
    BY <1>8
  <2> QED
    BY <1>10, <2>1, <2>2
<1>14. DOMAIN v = 1 .. M
  BY <1>9
<1>15. {v[n] : n \in DOMAIN v} = Pairs
  BY <1>10, <1>13, <1>14
<1> QED
  BY <1>11, <1>12, <1>14, <1>15 DEF v

(* Dispatching the next entry.                                             *)
LEMMA TailFacts ==
  ASSUME NEW U, NEW q \in Seq(U), q # << >>,
         \A m, n \in DOMAIN q : q[m] = q[n] => m = n
  PROVE  /\ Head(q) \in U /\ Tail(q) \in Seq(U)
         /\ \A m, n \in DOMAIN Tail(q) : Tail(q)[m] = Tail(q)[n] => m = n
         /\ Head(q) \in {q[n] : n \in DOMAIN q}
         /\ {Tail(q)[n] : n \in DOMAIN Tail(q)} = {q[n] : n \in DOMAIN q} \ {Head(q)}
<1>1. Len(q) \in Nat /\ Len(q) > 0 /\ DOMAIN q = 1 .. Len(q) /\ Head(q) = q[1]
  OBVIOUS
<1>2. /\ Tail(q) \in Seq(U) /\ Len(Tail(q)) = Len(q) - 1 /\ DOMAIN Tail(q) = 1 .. Len(q) - 1
      /\ \A n \in 1 .. Len(q) - 1 : Tail(q)[n] = q[n + 1]
  OBVIOUS
<1>3. {Tail(q)[n] : n \in DOMAIN Tail(q)} \subseteq {q[n] : n \in DOMAIN q} \ {Head(q)}
  BY <1>1, <1>2
<1>4. ASSUME NEW n \in DOMAIN q, q[n] # Head(q)
      PROVE  q[n] \in {Tail(q)[k] : k \in DOMAIN Tail(q)}
  <2>1. n - 1 \in DOMAIN Tail(q) /\ Tail(q)[n - 1] = q[n]
    BY <1>1, <1>2, <1>4
  <2> QED
    BY <2>1
<1>5. Head(q) \in U
  OBVIOUS
<1>6. \A m, n \in DOMAIN Tail(q) : Tail(q)[m] = Tail(q)[n] => m = n
  BY <1>1, <1>2
<1> QED
  BY <1>1, <1>2, <1>3, <1>4, <1>5, <1>6

(* kConst reaches every chunk.                                             *)
LEMMA ClearedFacts ==
  ASSUME NEW space \in Space, NEW field, DOMAIN field = Chunks(space)
  PROVE  Cleared(field, space) = [c \in Chunks(space) |-> SetToBag({})]
<1>1. ASSUME NEW c \in Chunks(space)
      PROVE  \E n \in DOMAIN Visits(space) : ChunkOf(space, Visits(space)[n]) = c
  <2>1. WorkList(space)[c] \in {Visits(space)[n] : n \in DOMAIN Visits(space)}
    BY VisitsFacts
  <2> QED
    BY <2>1, WorkListFacts
<1> QED
  BY <1>1 DEF Cleared, EmptyBag

-----------------------------------------------------------------------------
(* The invariant is inductive: one lemma for each action.                  *)

LEMMA LeftBefore ==
  /\ todo = << >> => Left = {}
  /\ \A U : todo \in Seq(U) => Left \subseteq U
BY DEF Left

LEMMA LeftAfter ==
  ASSUME NEW U, todo \in Seq(U), todo # << >>,
         \A m, n \in DOMAIN todo : todo[m] = todo[n] => m = n,
         todo' = Tail(todo)
  PROVE  /\ Head(todo) \in U /\ Head(todo) \in Left
         /\ todo' \in Seq(U)
         /\ \A m, n \in DOMAIN todo' : todo'[m] = todo'[n] => m = n
         /\ Left' = Left \ {Head(todo)}
BY TailFacts DEF Left

LEMMA InitInd == Init => FlowInv
<1> SUFFICES ASSUME Init PROVE FlowInv
  OBVIOUS
<1>1. DOMAIN << >> = {}
  OBVIOUS
<1>2. FieldsAreFunctions
  BY OwnChunk DEF Init, FieldsAreFunctions
<1>3. TodoIsLeft
  BY <1>1 DEF Init, TodoIsLeft
<1> QED
  BY <1>2, <1>3 DEF Init, FlowInv

LEMMA StartLTimesInd == FlowInv /\ StartLTimes => FlowInv'
<1> SUFFICES ASSUME FlowInv, StartLTimes PROVE FlowInv'
  OBVIOUS
<1>1. /\ call' = "LTimes" /\ todo' = Visits("PQR")
      /\ phi' = Cleared(phi, "PR")
      /\ UNCHANGED <<iter, psi, phi_out, rhs, part>>
  BY DEF StartLTimes, Begin
<1>2. phi' = [c \in Chunks("PR") |-> SetToBag({})]
  <2>1. "PR" \in Space
    BY DEF Space, AxesOf
  <2>2. DOMAIN phi = Chunks("PR")
    BY DEF FlowInv, FieldsAreFunctions
  <2> QED
    BY <1>1, <2>1, <2>2, ClearedFacts
<1>3. Left' = LocalSdom
  BY <1>1, AllVisits DEF Left
<1>4. \A c : MomentsOf(LocalSdom \ Left', iter', c) = {}
  BY <1>3 DEF MomentsOf
<1>5. phi' = [c \in Chunks("PR") |-> SetToBag(MomentsOf(LocalSdom \ Left', iter', c))]
  BY <1>2, <1>4
<1>6. FieldsAreFunctions'
  BY <1>1, <1>2 DEF FlowInv, FieldsAreFunctions
<1>7. TodoIsLeft'
  BY <1>1, AllVisits DEF TodoIsLeft
<1> QED
  BY <1>1, <1>5, <1>6, <1>7 DEF FlowInv

LEMMA LTimesInd == FlowInv /\ LTimes => FlowInv'
<1> SUFFICES ASSUME FlowInv, LTimes PROVE FlowInv'
  OBVIOUS
<1> DEFINE s == Head(todo)
           new == Moment(s, iter)
           before(c) == MomentsOf(LocalSdom \ Left, iter, c)
           after(c) == MomentsOf(LocalSdom \ Left', iter, c)
<1>1. /\ call = "LTimes" /\ call' = "LTimes" /\ todo # << >> /\ todo' = Tail(todo)
      /\ phi' = Add(phi, "PR", s, SetToBag({Times(PsiTerm(s), <<ChunkOf("Q", s)>>)}))
      /\ UNCHANGED <<iter, psi, phi_out, rhs, part>>
  BY DEF LTimes, Dispatch
<1>2. /\ s \in LocalSdom /\ s \in Left /\ Left' = Left \ {s}
      /\ todo' \in Seq(LocalSdom)
      /\ \A m, n \in DOMAIN todo' : todo'[m] = todo'[n] => m = n
  BY <1>1, LeftAfter DEF FlowInv, TodoIsLeft
<1>3. Times(PsiTerm(s), <<ChunkOf("Q", s)>>) = new
  <2>1. PsiTerm(s) = [of |-> <<s, iter>>, by |-> << >>]
    BY <1>2, OwnChunk DEF PsiTerm, FlowInv, FieldsAreFunctions
  <2> QED
    BY <2>1, Factors DEF Moment, Directions
<1>4. phi = [c \in Chunks("PR") |-> SetToBag(before(c))]
  BY <1>1 DEF FlowInv
<1>5. phi' = [phi EXCEPT ![ChunkOf("PR", s)] = @ (+) SetToBag({new})]
  BY <1>1, <1>3 DEF Add
<1>6. ASSUME NEW c
      PROVE  after(c) = IF c = ChunkOf("PR", s) THEN before(c) \cup {new} ELSE before(c)
  BY <1>2 DEF MomentsOf
<1>7. ASSUME NEW c
      PROVE  new \notin before(c)
  <2>1. ASSUME NEW t \in LocalSdom \ Left
        PROVE  Moment(t, iter) # new
    <3>1. t # s
      BY <1>2
    <3>2. <<t, iter>> # <<s, iter>>
      BY <3>1
    <3> QED
      BY <3>2 DEF Moment
  <2> QED
    BY <2>1 DEF MomentsOf
<1> HIDE DEF s, new, before, after
<1>8. ASSUME NEW c
      PROVE  SetToBag(before(c)) (+) SetToBag({new}) = SetToBag(before(c) \cup {new})
  BY <1>7, SetToBagUnion
<1>9. phi' = [c \in Chunks("PR") |-> SetToBag(after(c))]
  BY <1>4, <1>5, <1>6, <1>8
<1>10. FieldsAreFunctions'
  BY <1>1, <1>9 DEF FlowInv, FieldsAreFunctions
<1>11. TodoIsLeft'
  BY <1>1, <1>2 DEF TodoIsLeft
<1> QED
  BY <1>1, <1>9, <1>10, <1>11 DEF FlowInv, after

LEMMA StartScatteringInd == FlowInv /\ StartScattering => FlowInv'
<1> SUFFICES ASSUME FlowInv, StartScattering PROVE FlowInv'
  OBVIOUS
<1>1. /\ call = "LTimes" /\ todo = << >>
      /\ call' = "Scattering" /\ todo' = SourcesAndTargets
      /\ phi_out' = Cleared(phi_out, "PR")
      /\ UNCHANGED <<iter, psi, phi, rhs, part>>
  BY DEF StartScattering, Begin
<1>2. phi_out' = [c \in Chunks("PR") |-> SetToBag({})]
  <2>1. "PR" \in Space
    BY DEF Space, AxesOf
  <2>2. DOMAIN phi_out = Chunks("PR")
    BY DEF FlowInv, FieldsAreFunctions
  <2> QED
    BY <1>1, <2>1, <2>2, ClearedFacts
<1>3. Left' = Pairs
  BY <1>1, PairsFacts DEF Left
<1>4. \A c : ScatteredInto(Pairs \ Left', iter', c) = {}
  BY <1>3 DEF ScatteredInto
<1>5. phi_out' = [c \in Chunks("PR") |-> SetToBag(ScatteredInto(Pairs \ Left', iter', c))]
  BY <1>2, <1>4
<1>6. phi' = [c \in Chunks("PR") |-> SetToBag(MomentsOf(LocalSdom, iter', c))]
  <2>1. Left = {} /\ LocalSdom \ Left = LocalSdom
    BY <1>1, LeftBefore
  <2> QED
    BY <1>1, <2>1 DEF FlowInv
<1>7. FieldsAreFunctions'
  BY <1>1, <1>2 DEF FlowInv, FieldsAreFunctions
<1>8. TodoIsLeft'
  BY <1>1, PairsFacts DEF TodoIsLeft
<1> QED
  BY <1>1, <1>5, <1>6, <1>7, <1>8 DEF FlowInv

(* What scattering from one subdomain's moments into another's adds.       *)
LEMMA ScatteredTerms ==
  ASSUME NEW p \in Pairs, NEW k
  PROVE  AllTimes(SetToBag(MomentsOf(LocalSdom, k, ChunkOf("PR", p[1]))),
                  <<ChunkOf("P", p[1]), ChunkOf("P", p[2])>>)
           = SetToBag({Scattered(s, p, k) :
                         s \in {t \in LocalSdom : ChunkOf("PR", t) = ChunkOf("PR", p[1])}})
<1> DEFINE f == <<ChunkOf("P", p[1]), ChunkOf("P", p[2])>>
           S == {t \in LocalSdom : ChunkOf("PR", t) = ChunkOf("PR", p[1])}
<1>1. ASSUME NEW s
      PROVE  Times(Moment(s, k), f) = Scattered(s, p, k)
  <2> DEFINE o == <<s, k>>
             a == Directions(s)
             b == ChunkOf("P", p[1])
             c == ChunkOf("P", p[2])
  <2> HIDE DEF o, a, b, c
  <2>1. Times([of |-> o, by |-> <<a>>], <<b, c>>) = [of |-> o, by |-> <<a, b, c>>]
    BY Factors
  <2> QED
    BY <2>1 DEF Moment, Scattered, Groups, o, a, b, c
<1> HIDE DEF f
<1>2. {Times(u, f) : u \in MomentsOf(LocalSdom, k, ChunkOf("PR", p[1]))}
        = {Scattered(s, p, k) : s \in S}
  BY <1>1 DEF MomentsOf
<1>3. AllTimes(SetToBag(MomentsOf(LocalSdom, k, ChunkOf("PR", p[1]))), f)
        = SetToBag({Times(u, f) : u \in MomentsOf(LocalSdom, k, ChunkOf("PR", p[1]))})
  BY AllTimesSet
<1> QED
  BY <1>2, <1>3 DEF f

LEMMA ScatteringInd == FlowInv /\ Scattering => FlowInv'
<1> SUFFICES ASSUME FlowInv, Scattering PROVE FlowInv'
  OBVIOUS
<1> DEFINE p == Head(todo)
           new == {Scattered(s, p, iter) :
                     s \in {t \in LocalSdom : ChunkOf("PR", t) = ChunkOf("PR", p[1])}}
           before(c) == ScatteredInto(Pairs \ Left, iter, c)
           after(c) == ScatteredInto(Pairs \ Left', iter, c)
<1>1. /\ call = "Scattering" /\ call' = "Scattering" /\ todo # << >> /\ todo' = Tail(todo)
      /\ UNCHANGED <<iter, psi, phi, rhs, part>>
  BY DEF Scattering, Dispatch
<1>2. /\ p \in Pairs /\ p \in Left /\ Left' = Left \ {p}
      /\ todo' \in Seq(Pairs)
      /\ \A m, n \in DOMAIN todo' : todo'[m] = todo'[n] => m = n
  BY <1>1, LeftAfter DEF FlowInv, TodoIsLeft
<1>3. p[1] \in LocalSdom /\ p[2] \in LocalSdom /\ p = <<p[1], p[2]>>
      /\ p[1] \in Representatives /\ p[2] \in Representatives
  BY <1>2, RepresentativeFacts DEF Pairs
<1>4. phi_out = [c \in Chunks("PR") |-> SetToBag(before(c))]
  BY <1>1 DEF FlowInv
<1>5. phi_out' = IF Zones(p[1]) # Zones(p[2]) THEN phi_out
                 ELSE [phi_out EXCEPT ![ChunkOf("PR", p[2])] = @ (+) SetToBag(new)]
  <2>1. phi_out' = IF Zones(p[1]) # Zones(p[2]) THEN phi_out
                   ELSE Add(phi_out, "PR", p[2],
                            AllTimes(phi[ChunkOf("PR", p[1])],
                                     <<ChunkOf("P", p[1]), ChunkOf("P", p[2])>>))
    BY DEF Scattering, Zones, ChunkOf
  <2>2. "PR" \in Space
    BY DEF Space, AxesOf
  <2>3. phi[ChunkOf("PR", p[1])] = SetToBag(MomentsOf(LocalSdom, iter, ChunkOf("PR", p[1])))
    BY <1>1, <1>3, <2>2, ChunkFacts DEF FlowInv
  <2>4. AllTimes(phi[ChunkOf("PR", p[1])], <<ChunkOf("P", p[1]), ChunkOf("P", p[2])>>)
          = SetToBag(new)
    BY <1>2, <2>3, ScatteredTerms
  <2> HIDE DEF new, p
  <2> QED
    BY <2>1, <2>4 DEF Add
<1>6. ASSUME NEW c
      PROVE  after(c) = IF Zones(p[1]) = Zones(p[2]) /\ c = ChunkOf("PR", p[2])
                          THEN before(c) \cup new ELSE before(c)
  <2>1. Pairs \ Left' = (Pairs \ Left) \cup {p}
    BY <1>2
  <2> QED
    BY <2>1 DEF ScatteredInto
<1>7. ASSUME NEW x \in before(ChunkOf("PR", p[2]))
      PROVE  x \notin new
  <2>1. PICK q \in Pairs \ Left, s \in LocalSdom :
          /\ ChunkOf("PR", q[2]) = ChunkOf("PR", p[2])
          /\ ChunkOf("PR", s) = ChunkOf("PR", q[1])
          /\ x = Scattered(s, q, iter)
    BY DEF ScatteredInto
  <2>2. q # p /\ q = <<q[1], q[2]>> /\ q[1] \in Representatives /\ q[2] \in Representatives
    BY <1>2 DEF Pairs
  <2>3. q[2] = p[2]
    BY <1>3, <2>1, <2>2, RepresentativeFacts
  <2>4. q[1] # p[1]
    BY <1>3, <2>2, <2>3
  <2>5. ChunkOf("PR", q[1]) # ChunkOf("PR", p[1])
    BY <1>3, <2>2, <2>4, RepresentativeFacts
  <2>6. ASSUME NEW t \in LocalSdom, ChunkOf("PR", t) = ChunkOf("PR", p[1])
        PROVE  Scattered(t, p, iter) # x
    <3>1. t # s
      BY <2>1, <2>5, <2>6
    <3>2. <<t, iter>> # <<s, iter>>
      BY <3>1
    <3> QED
      BY <2>1, <3>2 DEF Scattered
  <2> QED
    BY <2>6
<1> HIDE DEF p, new, before, after
<1>8. SetToBag(before(ChunkOf("PR", p[2]))) (+) SetToBag(new)
        = SetToBag(before(ChunkOf("PR", p[2])) \cup new)
  BY <1>7, SetToBagUnion
<1>9. phi_out' = [c \in Chunks("PR") |-> SetToBag(after(c))]
  BY <1>4, <1>5, <1>6, <1>8
<1>10. FieldsAreFunctions'
  BY <1>1, <1>9 DEF FlowInv, FieldsAreFunctions
<1>11. TodoIsLeft'
  BY <1>1, <1>2 DEF TodoIsLeft
<1>12. phi' = [c \in Chunks("PR") |-> SetToBag(MomentsOf(LocalSdom, iter', c))]
  BY <1>1 DEF FlowInv
<1> QED
  BY <1>1, <1>9, <1>10, <1>11, <1>12 DEF FlowInv, after

LEMMA StartSourceInd == FlowInv /\ StartSource => FlowInv'
<1> SUFFICES ASSUME FlowInv, StartSource PROVE FlowInv'
  OBVIOUS
<1>1. /\ call = "Scattering" /\ todo = << >>
      /\ call' = "Source" /\ todo' = Visits("PR")
      /\ UNCHANGED <<iter, psi, phi, phi_out, rhs, part>>
  BY DEF StartSource, Begin
<1>2. "PR" \in Space
  BY DEF Space, AxesOf
<1>3. Left' = Representatives
  BY <1>1, <1>2, VisitsFacts DEF Left, Representatives
<1>4. \A c : ExternalInto(Representatives \ Left', c) = {}
  BY <1>3 DEF ExternalInto
<1>5. phi_out = [c \in Chunks("PR") |-> SetToBag(ScatteredInto(Pairs, iter, c))]
  <2>1. Left = {} /\ Pairs \ Left = Pairs
    BY <1>1, LeftBefore
  <2> QED
    BY <1>1, <2>1 DEF FlowInv
<1>6. phi_out' = [c \in Chunks("PR") |->
                    SetToBag(ScatteredInto(Pairs, iter', c)
                             \cup ExternalInto(Representatives \ Left', c))]
  BY <1>1, <1>4, <1>5
<1>7. FieldsAreFunctions'
  BY <1>1 DEF FlowInv, FieldsAreFunctions
<1>8. TodoIsLeft'
  BY <1>1, <1>2, VisitsFacts DEF TodoIsLeft, Representatives
<1> QED
  BY <1>1, <1>6, <1>7, <1>8 DEF FlowInv

LEMMA SourceInd == FlowInv /\ Source => FlowInv'
<1> SUFFICES ASSUME FlowInv, Source PROVE FlowInv'
  OBVIOUS
<1> DEFINE s == Head(todo)
           new == External(s)
           before(c) == ScatteredInto(Pairs, iter, c) \cup ExternalInto(Representatives \ Left, c)
           after(c) == ScatteredInto(Pairs, iter, c) \cup ExternalInto(Representatives \ Left', c)
<1>1. /\ call = "Source" /\ call' = "Source" /\ todo # << >> /\ todo' = Tail(todo)
      /\ phi_out' = Add(phi_out, "PR", s, SetToBag({Times(SourceTerm, <<ChunkOf("R", s)>>)}))
      /\ UNCHANGED <<iter, psi, phi, rhs, part>>
  BY DEF Source, Dispatch
<1>2. /\ s \in Representatives /\ s \in Left /\ Left' = Left \ {s}
      /\ todo' \in Seq(Representatives)
      /\ \A m, n \in DOMAIN todo' : todo'[m] = todo'[n] => m = n
  BY <1>1, LeftAfter DEF FlowInv, TodoIsLeft
<1>3. Times(SourceTerm, <<ChunkOf("R", s)>>) = new
  BY Factors DEF SourceTerm, External, Zones
<1>4. phi_out = [c \in Chunks("PR") |-> SetToBag(before(c))]
  BY <1>1 DEF FlowInv
<1>5. phi_out' = [phi_out EXCEPT ![ChunkOf("PR", s)] = @ (+) SetToBag({new})]
  BY <1>1, <1>3 DEF Add
<1>6. ASSUME NEW c
      PROVE  after(c) = IF c = ChunkOf("PR", s) THEN before(c) \cup {new} ELSE before(c)
  <2>1. ExternalInto(Representatives \ Left', c)
          = IF c = ChunkOf("PR", s) THEN ExternalInto(Representatives \ Left, c) \cup {new}
            ELSE ExternalInto(Representatives \ Left, c)
    BY <1>2 DEF ExternalInto
  <2> HIDE DEF new
  <2> QED
    BY <2>1
<1>7. new \notin before(ChunkOf("PR", s))
  <2>1. ASSUME NEW t, NEW q
        PROVE  Scattered(t, q, iter) # new
    <3>1. <<t, iter>> # <<"source">>
      OBVIOUS
    <3> QED
      BY <3>1 DEF Scattered, External
  <2>2. new \notin ScatteredInto(Pairs, iter, ChunkOf("PR", s))
    <3> HIDE DEF new
    <3> QED
      BY <2>1 DEF ScatteredInto
  <2>3. \A t \in Representatives \ Left : ChunkOf("PR", t) # ChunkOf("PR", s)
    BY <1>2, RepresentativeFacts
  <2>4. ExternalInto(Representatives \ Left, ChunkOf("PR", s)) = {}
    BY <2>3 DEF ExternalInto
  <2> QED
    BY <2>2, <2>4
<1> HIDE DEF s, new, before, after
<1>8. SetToBag(before(ChunkOf("PR", s))) (+) SetToBag({new})
        = SetToBag(before(ChunkOf("PR", s)) \cup {new})
  BY <1>7, SetToBagUnion
<1>9. phi_out' = [c \in Chunks("PR") |-> SetToBag(after(c))]
  BY <1>4, <1>5, <1>6, <1>8
<1>10. FieldsAreFunctions'
  BY <1>1, <1>9 DEF FlowInv, FieldsAreFunctions
<1>11. TodoIsLeft'
  BY <1>1, <1>2 DEF TodoIsLeft
<1> QED
  BY <1>1, <1>9, <1>10, <1>11 DEF FlowInv, after

LEMMA StartLPlusTimesInd == FlowInv /\ StartLPlusTimes => FlowInv'
<1> SUFFICES ASSUME FlowInv, StartLPlusTimes PROVE FlowInv'
  OBVIOUS
<1>1. /\ call = "Source" /\ todo = << >>
      /\ call' = "LPlusTimes" /\ todo' = Visits("PQR")
      /\ rhs' = Cleared(rhs, "PQR")
      /\ UNCHANGED <<iter, psi, phi, phi_out, part>>
  BY DEF StartLPlusTimes, Begin
<1>2. rhs' = [s \in LocalSdom |-> EmptyBag]
  <2>1. "PQR" \in Space
    BY DEF Space, AxesOf
  <2>2. DOMAIN rhs = Chunks("PQR")
    BY OwnChunk DEF FlowInv, FieldsAreFunctions
  <2>3. rhs' = [s \in Chunks("PQR") |-> SetToBag({})]
    BY <1>1, <2>1, <2>2, ClearedFacts
  <2> QED
    BY <2>3, OwnChunk DEF EmptyBag
<1>3. Left' = LocalSdom
  BY <1>1, AllVisits DEF Left
<1>4. rhs' = [s \in LocalSdom |-> IF s \in Left' THEN EmptyBag ELSE FullSource(s)']
  BY <1>2, <1>3
<1>5. phi_out' = [c \in Chunks("PR") |->
                    SetToBag(ScatteredInto(Pairs, iter', c) \cup ExternalInto(Representatives, c))]
  <2>1. Left = {} /\ Representatives \ Left = Representatives
    BY <1>1, LeftBefore
  <2> QED
    BY <1>1, <2>1 DEF FlowInv
<1>6. FieldsAreFunctions'
  BY <1>1, <1>2 DEF FlowInv, FieldsAreFunctions
<1>7. TodoIsLeft'
  BY <1>1, AllVisits DEF TodoIsLeft
<1> QED
  BY <1>1, <1>4, <1>5, <1>6, <1>7 DEF FlowInv

(* The moments a subdomain reads, through its own directions, are its      *)
(* full source.                                                            *)
LEMMA SourceOfMoments ==
  ASSUME NEW s \in LocalSdom
  PROVE  AllTimes(SetToBag(ScatteredInto(Pairs, iter, ChunkOf("PR", s))
                           \cup ExternalInto(Representatives, ChunkOf("PR", s))),
                  <<ChunkOf("Q", s)>>) = FullSource(s)
<1> DEFINE k == iter
           f == <<ChunkOf("Q", s)>>
           Through(t) == [of |-> <<t, k>>,
                          by |-> <<Coord(t)[1], Coord(t)[0], Coord(s)[0], Coord(s)[1]>>]
           Outside(r) == [of |-> <<"source">>, by |-> <<r, Coord(s)[1]>>]
           scattered == {Through(t) : t \in {u \in LocalSdom : SameZones(u, s)}}
           external == {Outside(r) : r \in {q \in Chunks("R") : ZonesOf(q, s)}}
           A == ScatteredInto(Pairs, k, ChunkOf("PR", s))
           B == ExternalInto(Representatives, ChunkOf("PR", s))
<1>1. "PR" \in Space /\ "R" \in Space
  BY DEF Space, AxesOf
<1>2. ASSUME NEW t \in LocalSdom, NEW p \in Pairs,
             Zones(p[1]) = Zones(p[2]),
             ChunkOf("PR", p[2]) = ChunkOf("PR", s), ChunkOf("PR", t) = ChunkOf("PR", p[1])
      PROVE  SameZones(t, s) /\ Times(Scattered(t, p, k), f) = Through(t)
  <2>1. p[1] \in LocalSdom /\ p[2] \in LocalSdom
    BY RepresentativeFacts DEF Pairs
  <2>2. /\ ChunkOf("P", p[2]) = ChunkOf("P", s) /\ ChunkOf("R", p[2]) = ChunkOf("R", s)
        /\ ChunkOf("P", t) = ChunkOf("P", p[1]) /\ ChunkOf("R", t) = ChunkOf("R", p[1])
    BY <1>2, <2>1, MomentChunks
  <2>3. SameZones(t, s)
    BY <1>2, <2>2, MomentChunks DEF Zones
  <2>4. /\ Directions(t) = Coord(t)[1] /\ Groups(p[1]) = Coord(t)[0]
        /\ Groups(p[2]) = Coord(s)[0] /\ ChunkOf("Q", s) = Coord(s)[1]
    BY <2>2, SetChunks DEF Groups, Directions
  <2> DEFINE o == <<t, k>>
             a == Coord(t)[1]
             b == Coord(t)[0]
             c == Coord(s)[0]
             d == Coord(s)[1]
  <2>5. Scattered(t, p, k) = [of |-> o, by |-> <<a, b, c>>] /\ f = <<d>>
    BY <2>4 DEF Scattered
  <2>6. Through(t) = [of |-> o, by |-> <<a, b, c, d>>]
    OBVIOUS
  <2> HIDE DEF o, a, b, c, d, f, Through
  <2>7. Times([of |-> o, by |-> <<a, b, c>>], <<d>>) = [of |-> o, by |-> <<a, b, c, d>>]
    BY Factors
  <2> QED
    BY <2>3, <2>5, <2>6, <2>7
<1>3. ASSUME NEW t \in LocalSdom, SameZones(t, s)
      PROVE  \E p \in Pairs : /\ Zones(p[1]) = Zones(p[2])
                              /\ ChunkOf("PR", p[2]) = ChunkOf("PR", s)
                              /\ ChunkOf("PR", t) = ChunkOf("PR", p[1])
  <2>1. PICK q \in Representatives, r \in Representatives :
          ChunkOf("PR", q) = ChunkOf("PR", t) /\ ChunkOf("PR", r) = ChunkOf("PR", s)
    BY RepresentativeFacts
  <2>2. q \in LocalSdom /\ r \in LocalSdom
    BY RepresentativeFacts
  <2>3. Zones(q) = Zones(r)
    BY <1>3, <2>1, <2>2, MomentChunks DEF Zones
  <2>4. <<q, r>> \in Pairs /\ <<q, r>>[1] = q /\ <<q, r>>[2] = r
    BY DEF Pairs
  <2> QED
    BY <2>1, <2>3, <2>4
<1>4. {Times(u, f) : u \in A} = scattered
  <2> HIDE DEF f, Through
  <2>1. ASSUME NEW u \in A
        PROVE  Times(u, f) \in scattered
    <3>1. PICK p \in Pairs, t \in LocalSdom :
            /\ Zones(p[1]) = Zones(p[2])
            /\ ChunkOf("PR", p[2]) = ChunkOf("PR", s) /\ ChunkOf("PR", t) = ChunkOf("PR", p[1])
            /\ u = Scattered(t, p, k)
      BY DEF ScatteredInto
    <3> QED
      BY <1>2, <3>1
  <2>2. ASSUME NEW t \in LocalSdom, SameZones(t, s)
        PROVE  \E u \in A : Times(u, f) = Through(t)
    <3>1. PICK p \in Pairs : /\ Zones(p[1]) = Zones(p[2])
                             /\ ChunkOf("PR", p[2]) = ChunkOf("PR", s)
                             /\ ChunkOf("PR", t) = ChunkOf("PR", p[1])
      BY <1>3, <2>2
    <3>2. Scattered(t, p, k) \in A
      BY <3>1 DEF ScatteredInto
    <3> QED
      BY <1>2, <3>1, <3>2
  <2> QED
    BY <2>1, <2>2
<1>5. {Times(u, f) : u \in B} = external
  <2>1. ASSUME NEW r \in Representatives, ChunkOf("PR", r) = ChunkOf("PR", s)
        PROVE  Times(External(r), f) = Outside(ChunkOf("R", s))
    <3>1. ChunkOf("R", r) = ChunkOf("R", s)
      BY <2>1, RepresentativeFacts, MomentChunks
    <3> DEFINE o == <<"source">>
               a == ChunkOf("R", s)
               b == Coord(s)[1]
    <3>2. External(r) = [of |-> o, by |-> <<a>>] /\ f = <<b>>
      BY <3>1, SetChunks DEF External, Zones
    <3>3. Outside(ChunkOf("R", s)) = [of |-> o, by |-> <<a, b>>]
      OBVIOUS
    <3> HIDE DEF o, a, b, f, Outside
    <3>4. Times([of |-> o, by |-> <<a>>], <<b>>) = [of |-> o, by |-> <<a, b>>]
      BY Factors
    <3> QED
      BY <3>2, <3>3, <3>4
  <2>2. PICK r \in Representatives : ChunkOf("PR", r) = ChunkOf("PR", s)
    BY RepresentativeFacts
  <2>3. {q \in Chunks("R") : ZonesOf(q, s)} = {ChunkOf("R", s)}
    BY <1>1, ZoneChunk, ChunkFacts
  <2> HIDE DEF f, Outside
  <2>4. external = {Outside(ChunkOf("R", s))}
    BY <2>3
  <2> QED
    BY <2>1, <2>2, <2>4 DEF ExternalInto
<1>6. FullSource(s) = SetToBag(scattered \cup external)
  BY DEF FullSource
<1> HIDE DEF A, B, f, scattered, external
<1>7. {Times(u, f) : u \in A \cup B} = scattered \cup external
  BY <1>4, <1>5
<1>8. AllTimes(SetToBag(A \cup B), f) = SetToBag(scattered \cup external)
  BY <1>7, AllTimesSet
<1> QED
  BY <1>6, <1>8 DEF A, B, f

LEMMA LPlusTimesInd == FlowInv /\ LPlusTimes => FlowInv'
<1> SUFFICES ASSUME FlowInv, LPlusTimes PROVE FlowInv'
  OBVIOUS
<1> DEFINE s == Head(todo)
<1>1. /\ call = "LPlusTimes" /\ call' = "LPlusTimes" /\ todo # << >> /\ todo' = Tail(todo)
      /\ rhs' = Add(rhs, "PQR", s, AllTimes(phi_out[ChunkOf("PR", s)], <<ChunkOf("Q", s)>>))
      /\ UNCHANGED <<iter, psi, phi, phi_out, part>>
  BY DEF LPlusTimes, Dispatch
<1>2. /\ s \in LocalSdom /\ s \in Left /\ Left' = Left \ {s}
      /\ todo' \in Seq(LocalSdom)
      /\ \A m, n \in DOMAIN todo' : todo'[m] = todo'[n] => m = n
  BY <1>1, LeftAfter DEF FlowInv, TodoIsLeft
<1>3. rhs = [t \in LocalSdom |-> IF t \in Left THEN EmptyBag ELSE FullSource(t)]
  BY <1>1 DEF FlowInv
<1>4. AllTimes(phi_out[ChunkOf("PR", s)], <<ChunkOf("Q", s)>>) = FullSource(s)
  <2>1. "PR" \in Space
    BY DEF Space, AxesOf
  <2>2. phi_out[ChunkOf("PR", s)]
          = SetToBag(ScatteredInto(Pairs, iter, ChunkOf("PR", s))
                     \cup ExternalInto(Representatives, ChunkOf("PR", s)))
    BY <1>1, <1>2, <2>1, ChunkFacts DEF FlowInv
  <2> QED
    BY <1>2, <2>2, SourceOfMoments
<1>5. EmptyBag (+) FullSource(s) = FullSource(s)
  <2>1. \A A : SetToBag({}) (+) SetToBag(A) = SetToBag({} \cup A) /\ {} \cup A = A
    BY SetToBagUnion
  <2>2. \E A : FullSource(s) = SetToBag(A)
    BY DEF FullSource
  <2> QED
    BY <2>1, <2>2 DEF EmptyBag
<1>6. rhs' = [rhs EXCEPT ![s] = @ (+) FullSource(s)]
  BY <1>1, <1>2, <1>4, OwnChunk DEF Add
<1>7. \A t \in LocalSdom : FullSource(t)' = FullSource(t)
  BY <1>1 DEF FullSource
<1> HIDE DEF s
<1>8. rhs' = [t \in LocalSdom |-> IF t \in Left' THEN EmptyBag ELSE FullSource(t)]
  BY <1>2, <1>3, <1>5, <1>6
<1>9. rhs' = [t \in LocalSdom |-> IF t \in Left' THEN EmptyBag ELSE FullSource(t)']
  BY <1>7, <1>8
<1>10. FieldsAreFunctions'
  BY <1>1, <1>8 DEF FlowInv, FieldsAreFunctions
<1>11. TodoIsLeft'
  BY <1>1, <1>2 DEF TodoIsLeft
<1>12. phi_out' = [c \in Chunks("PR") |->
                     SetToBag(ScatteredInto(Pairs, iter', c) \cup ExternalInto(Representatives, c))]
  BY <1>1 DEF FlowInv
<1> QED
  BY <1>1, <1>9, <1>10, <1>11, <1>12 DEF FlowInv

LEMMA SweepInd == FlowInv /\ Sweep => FlowInv'
<1> SUFFICES ASSUME FlowInv, Sweep PROVE FlowInv'
  OBVIOUS
<1>1. /\ call' = "Population" /\ todo' = Visits("PQR")
      /\ iter' = iter + 1 /\ part' = EmptyBag
      /\ UNCHANGED <<phi, phi_out, rhs>>
  BY DEF Sweep, Begin
<1>2. psi' = [s \in LocalSdom |-> <<s, iter'>>]
  BY <1>1, OwnChunk DEF Sweep, FlowInv, FieldsAreFunctions
<1>3. Left' = LocalSdom
  BY <1>1, AllVisits DEF Left
<1>4. {Counted(s, iter') : s \in LocalSdom \ Left'} = {}
  BY <1>3
<1>5. part' = SetToBag({Counted(s, iter') : s \in LocalSdom \ Left'})
  BY <1>1, <1>4 DEF EmptyBag
<1>6. FieldsAreFunctions'
  BY <1>1, <1>2 DEF FlowInv, FieldsAreFunctions
<1>7. TodoIsLeft'
  BY <1>1, AllVisits DEF TodoIsLeft
<1>8. iter' \in Nat
  BY <1>1 DEF FlowInv
<1> QED
  BY <1>1, <1>5, <1>6, <1>7, <1>8 DEF FlowInv

LEMMA PopulationInd == FlowInv /\ Population => FlowInv'
<1> SUFFICES ASSUME FlowInv, Population PROVE FlowInv'
  OBVIOUS
<1> DEFINE s == Head(todo)
           new == Counted(s, iter)
           before == {Counted(t, iter) : t \in LocalSdom \ Left}
           after == {Counted(t, iter) : t \in LocalSdom \ Left'}
<1>1. /\ call = "Population" /\ call' = "Population" /\ todo # << >> /\ todo' = Tail(todo)
      /\ part' = part (+) SetToBag({Times(PsiTerm(s), <<ChunkOf("Q", s), ChunkOf("R", s)>>)})
      /\ UNCHANGED <<iter, psi, phi, phi_out, rhs>>
  BY DEF Population, Dispatch
<1>2. /\ s \in LocalSdom /\ s \in Left /\ Left' = Left \ {s}
      /\ todo' \in Seq(LocalSdom)
      /\ \A m, n \in DOMAIN todo' : todo'[m] = todo'[n] => m = n
  BY <1>1, LeftAfter DEF FlowInv, TodoIsLeft
<1>3. Times(PsiTerm(s), <<ChunkOf("Q", s), ChunkOf("R", s)>>) = new
  <2> DEFINE o == <<s, iter>>
             a == ChunkOf("Q", s)
             b == ChunkOf("R", s)
  <2>1. PsiTerm(s) = [of |-> o, by |-> << >>]
    BY <1>2, OwnChunk DEF PsiTerm, FlowInv, FieldsAreFunctions
  <2>2. new = [of |-> o, by |-> <<a, b>>]
    BY DEF Counted, Directions, Zones
  <2> HIDE DEF o, a, b, new
  <2>3. Times([of |-> o, by |-> << >>], <<a, b>>) = [of |-> o, by |-> <<a, b>>]
    BY Factors
  <2> QED
    BY <2>1, <2>2, <2>3 DEF a, b
<1>4. part = SetToBag(before)
  BY <1>1 DEF FlowInv
<1>5. new \notin before
  <2>1. ASSUME NEW t \in LocalSdom \ Left
        PROVE  Counted(t, iter) # new
    <3>1. t # s
      BY <1>2
    <3>2. <<t, iter>> # <<s, iter>>
      BY <3>1
    <3> QED
      BY <3>2 DEF Counted
  <2> QED
    BY <2>1
<1>6. after = before \cup {new}
  BY <1>2
<1> HIDE DEF new, before, after
<1>7. SetToBag(before) (+) SetToBag({new}) = SetToBag(before \cup {new})
  BY <1>5, SetToBagUnion
<1>8. part' = SetToBag(after)
  BY <1>1, <1>3, <1>4, <1>6, <1>7
<1>9. FieldsAreFunctions'
  BY <1>1 DEF FlowInv, FieldsAreFunctions
<1>10. TodoIsLeft'
  BY <1>1, <1>2 DEF TodoIsLeft
<1> QED
  BY <1>1, <1>8, <1>9, <1>10 DEF FlowInv, after

LEMMA UnchangedInd == FlowInv /\ UNCHANGED vars => FlowInv'
<1> SUFFICES ASSUME FlowInv, UNCHANGED vars PROVE FlowInv'
  OBVIOUS
<1>1. UNCHANGED <<iter, call, todo, psi, phi, phi_out, rhs, part>>
  BY DEF vars
<1>2. FieldsAreFunctions' /\ TodoIsLeft' /\ Left' = Left
  BY <1>1 DEF FlowInv, FieldsAreFunctions, TodoIsLeft, Left
<1>3. \A s \in LocalSdom : FullSource(s)' = FullSource(s)
  BY <1>1 DEF FullSource
<1> QED
  BY <1>1, <1>2, <1>3 DEF FlowInv

-----------------------------------------------------------------------------
(* Theorems.                                                               *)

(* At each moment of an iteration the chunks of every field hold the terms *)
(* of the work list entries already dispatched, each once: kernels of      *)
(* different spaces share chunks, clear them and add to them, and none is  *)
(* cleared late, skipped or added to twice.                                *)
THEOREM FlowInvariant == Spec => []FlowInv
<1>1. ASSUME FlowInv, [Next]_vars
      PROVE  FlowInv'
  <2>1. CASE Next
    BY <1>1, <2>1, StartLTimesInd, LTimesInd, StartScatteringInd, ScatteringInd,
       StartSourceInd, SourceInd, StartLPlusTimesInd, LPlusTimesInd, SweepInd, PopulationInd,
       UnchangedInd DEF Next, Done
  <2>2. CASE UNCHANGED vars
    BY <1>1, <2>2, UnchangedInd
  <2> QED
    BY <1>1, <2>1, <2>2
<1> QED
  BY InitInd, <1>1, PTL DEF Spec

(* The right hand side a sweep starts with is the scattered flux of the    *)
(* last iteration and the source, each term once.                          *)
THEOREM SweepsWhatScatters == Spec => SweepsFullSource
<1>1. ASSUME FlowInv, [Next]_vars
      PROVE  [iter' # iter => \A s \in LocalSdom : rhs[ChunkOf("PQR", s)] = FullSource(s)]_vars
  <2>1. CASE Sweep
    <3>1. call = "LPlusTimes" /\ todo = << >>
      BY <2>1 DEF Sweep, Begin
    <3>2. Left = {}
      BY <3>1, LeftBefore
    <3>3. rhs = [s \in LocalSdom |-> IF s \in Left THEN EmptyBag ELSE FullSource(s)]
      BY <1>1, <3>1 DEF FlowInv
    <3> QED
      BY <3>2, <3>3, OwnChunk
  <2>2. CASE ~ Sweep
    <3>1. iter' = iter
      BY <1>1, <2>2 DEF Next, vars, StartLTimes, LTimes, StartScattering, Scattering,
         StartSource, Source, StartLPlusTimes, LPlusTimes, Population, Done
    <3> QED
      BY <3>1
  <2> QED
    BY <2>1, <2>2
<1> QED
  BY FlowInvariant, <1>1, PTL DEF Spec, SweepsFullSource

(* Every subdomain's new flux is counted once, with the weights and the    *)
(* volumes that are its own.                                               *)
THEOREM FluxIsCounted == Spec => []CountsAllFlux
<1>1. ASSUME FlowInv
      PROVE  CountsAllFlux
  <2> SUFFICES ASSUME call = "Population", todo = << >>
               PROVE  part = SetToBag({[of |-> <<p[1], iter>>, by |-> <<Coord(p[1])[1], p[2]>>] :
                                p \in {q \in LocalSdom \X Chunks("R") : ZonesOf(q[2], q[1])}})
    BY DEF CountsAllFlux
  <2> DEFINE Pair(p) == [of |-> <<p[1], iter>>, by |-> <<Coord(p[1])[1], p[2]>>]
             E == {q \in LocalSdom \X Chunks("R") : ZonesOf(q[2], q[1])}
  <2>1. Left = {}
    BY LeftBefore
  <2>2. part = SetToBag({Counted(s, iter) : s \in LocalSdom})
    <3>1. LocalSdom \ Left = LocalSdom
      BY <2>1
    <3> QED
      BY <1>1, <3>1 DEF FlowInv
  <2>3. "R" \in Space
    BY DEF Space, AxesOf
  <2>4. ASSUME NEW s \in LocalSdom
        PROVE  <<s, Zones(s)>> \in E /\ Counted(s, iter) = Pair(<<s, Zones(s)>>)
    <3>1. Zones(s) \in Chunks("R") /\ ZonesOf(Zones(s), s)
      BY <2>3, ChunkFacts, ZoneChunk DEF Zones
    <3>2. Directions(s) = Coord(s)[1]
      BY SetChunks DEF Directions
    <3> QED
      BY <3>1, <3>2 DEF Counted
  <2>5. ASSUME NEW p \in E
        PROVE  p[1] \in LocalSdom /\ p = <<p[1], Zones(p[1])>>
    BY ZoneChunk DEF Zones
  <2> HIDE DEF Pair, E
  <2>6. {Counted(s, iter) : s \in LocalSdom} = {Pair(p) : p \in E}
    <3>1. \A s \in LocalSdom : Counted(s, iter) \in {Pair(p) : p \in E}
      BY <2>4
    <3>2. ASSUME NEW p \in E
          PROVE  \E s \in LocalSdom : Pair(p) = Counted(s, iter)
      <4> DEFINE s == p[1]
      <4>1. s \in LocalSdom /\ p = <<s, Zones(s)>>
        BY <2>5
      <4> HIDE DEF s
      <4> QED
        BY <2>4, <4>1
    <3> QED
      BY <3>1, <3>2
  <2> QED
    BY <2>2, <2>6 DEF Pair, E
<1> QED
  BY FlowInvariant, <1>1, PTL

=============================================================================
