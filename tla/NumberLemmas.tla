---------------------------- MODULE NumberLemmas -----------------------------
(***************************************************************************)
(* Induction, quotients, products and sums of numbers: what the proofs of  *)
(* several components need of them.                                        *)
(***************************************************************************)
EXTENDS Integers, FiniteSets, Functions, FiniteSetTheorems, WellFoundedInduction, TLAPS

(* Induction over the natural numbers, as a fact about sets of them.       *)
LEMMA NatSetInduction ==
  ASSUME NEW T \in SUBSET Nat, 0 \in T, \A n \in T : n + 1 \in T
  PROVE  \A n \in Nat : n \in T
<1> SUFFICES ASSUME NEW b \in Nat \ T PROVE FALSE
  OBVIOUS
<1> DEFINE R == OpToRel(<, Nat)
           Rest == Nat \ T
<1>1. IsWellFoundedOn(R, Nat)
  BY NatLessThanWellFounded
<1>2. \A x, y \in Nat : <<x, y>> \in R <=> x < y
  BY DEF OpToRel
<1> HIDE DEF R
<1>3. PICK m \in Rest : \A k \in Rest : ~ (<<k, m>> \in R)
  <2>1. Rest \subseteq Nat /\ Rest # {}
    OBVIOUS
  <2> HIDE DEF Rest
  <2> QED BY <1>1, <2>1, WFMin
<1>4. m \in Nat /\ m # 0 /\ m - 1 \in Nat /\ m - 1 < m
  OBVIOUS
<1>5. m - 1 \in T
  BY <1>2, <1>3, <1>4
<1>6. (m - 1) + 1 = m
  BY <1>4
<1> QED BY <1>3, <1>5, <1>6

-----------------------------------------------------------------------------
(* Quotients and remainders.                                               *)

(* What a quotient and a remainder are.                                    *)
LEMMA Division ==
  ASSUME NEW a \in Nat, NEW m \in Nat \ {0}
  PROVE  a \div m \in Nat /\ a % m \in 0 .. m - 1 /\ a = m * (a \div m) + (a % m)
BY Z3

(* A number is at most a multiple of it.                                   *)
LEMMA Multiple ==
  ASSUME NEW m \in Nat \ {0}, NEW k \in Nat \ {0}
  PROVE  m * k \in Nat /\ m * k >= m /\ m * k >= k
<1>1. m * k = m + m * (k - 1) /\ k - 1 \in Nat
  BY Z3
<1>2. m * (k - 1) \in Nat
  BY <1>1
<1>3. m * k = k + k * (m - 1) /\ m - 1 \in Nat
  BY Z3
<1>4. k * (m - 1) \in Nat
  BY <1>3
<1> DEFINE p == m * k
           x == m * (k - 1)
           y == k * (m - 1)
<1>5. p = m + x /\ p = k + y /\ x \in Nat /\ y \in Nat
  BY <1>1, <1>2, <1>3, <1>4
<1> HIDE DEF p, x, y
<1>6. p \in Nat /\ p >= m /\ p >= k
  BY <1>5
<1> QED BY <1>6 DEF p

(* And there are no others.                                                *)
LEMMA DivisionUnique ==
  ASSUME NEW m \in Nat \ {0}, NEW a \in Nat, NEW q \in Nat, NEW s \in 0 .. m - 1,
         a = m * q + s
  PROVE  a \div m = q /\ a % m = s
<1> DEFINE t == a \div m
           w == a % m
<1>1. t \in Nat /\ w \in 0 .. m - 1 /\ a = m * t + w
  BY Division
<1> HIDE DEF t, w
<1>2. ASSUME NEW x \in Nat, NEW y \in Nat, NEW u \in 0 .. m - 1, NEW v \in 0 .. m - 1,
             m * x + u = m * y + v
      PROVE  ~ (x < y)
  <2> SUFFICES ASSUME x < y PROVE FALSE
    OBVIOUS
  <2>1. y - x \in Nat \ {0}
    OBVIOUS
  <2>2. m * (y - x) >= m
    BY <2>1, Multiple
  <2>3. m * y = m * x + m * (y - x)
    BY Z3
  <2> DEFINE X == m * x
             Y == m * y
             D == m * (y - x)
  <2>4. X \in Nat /\ Y = X + D /\ D >= m /\ D \in Int /\ X + u = Y + v
    BY <1>2, <2>2, <2>3
  <2> HIDE DEF X, Y, D
  <2> QED BY <2>4
<1>3. t = q
  <2>1. ~ (t < q) /\ ~ (q < t)
    BY <1>1, <1>2
  <2> QED BY <1>1, <2>1
<1>4. w = s
  <2> DEFINE z == m * q
  <2>1. z + w = z + s /\ z \in Int
    BY <1>1, <1>3
  <2> HIDE DEF z
  <2> QED BY <1>1, <2>1
<1> QED BY <1>3, <1>4 DEF t, w

(* To divide by two numbers is to divide by their product.                 *)
LEMMA DivisionTwice ==
  ASSUME NEW a \in Nat, NEW m \in Nat \ {0}, NEW r \in Nat \ {0}
  PROVE  m * r \in Nat \ {0} /\ a \div (m * r) = (a \div m) \div r
<1> DEFINE q == a \div m
           s == a % m
           t == q \div r
           u == q % r
<1>1. q \in Nat /\ s \in 0 .. m - 1 /\ a = m * q + s
  BY Division
<1> HIDE DEF q, s
<1>2. t \in Nat /\ u \in 0 .. r - 1 /\ q = r * t + u
  BY <1>1, Division
<1> HIDE DEF t, u
<1> DEFINE n == m * r
           v == m * u + s
<1>3. n \in Nat \ {0}
  BY Multiple
<1>4. m * q = n * t + m * u
  <2>1. m * (r * t + u) = (m * r) * t + m * u
    BY <1>2, Z3
  <2> QED BY <1>2, <2>1
<1>5. v \in 0 .. n - 1
  <2>1. m * (r - u) >= m
    BY <1>2, Multiple
  <2>2. m * r = m * u + m * (r - u)
    BY <1>2, Z3
  <2> DEFINE A == m * u
             B == m * (r - u)
  <2>3. A \in Nat /\ B >= m /\ B \in Int /\ n = A + B /\ v = A + s
    BY <1>2, <2>1, <2>2
  <2> HIDE DEF A, B, n, v
  <2> QED BY <1>1, <2>3
<1>6. a = n * t + v
  <2> DEFINE A == n * t
             B == m * u
             C == m * q
  <2>1. C = A + B /\ a = C + s /\ v = B + s /\ A \in Int /\ B \in Int
    BY <1>1, <1>2, <1>3, <1>4
  <2> HIDE DEF A, B, C, v
  <2>2. a = A + v
    BY <1>1, <2>1
  <2> QED BY <2>2 DEF A
<1> HIDE DEF n, v
<1>7. a \div n = t
  BY <1>2, <1>3, <1>5, <1>6, DivisionUnique
<1> QED BY <1>3, <1>7 DEF n, t, q

(* The quotient of a number less than the divisor, and of a multiple.      *)
LEMMA DivisionSimple ==
  ASSUME NEW m \in Nat \ {0}
  PROVE  /\ \A a \in 0 .. m - 1 : a \div m = 0 /\ a % m = a
         /\ \A q \in Nat : m * q \in Nat /\ (m * q) \div m = q /\ (m * q) % m = 0
<1>1. ASSUME NEW a \in 0 .. m - 1 PROVE a \div m = 0 /\ a % m = a
  <2>1. a = m * 0 + a
    OBVIOUS
  <2> QED BY <2>1, DivisionUnique
<1>2. ASSUME NEW q \in Nat PROVE m * q \in Nat /\ (m * q) \div m = q /\ (m * q) % m = 0
  <2> DEFINE p == m * q
  <2>1. p \in Nat /\ p = m * q + 0 /\ 0 \in 0 .. m - 1
    OBVIOUS
  <2> HIDE DEF p
  <2>2. p \div m = q /\ p % m = 0
    BY <2>1, DivisionUnique
  <2> QED BY <2>1, <2>2 DEF p
<1> QED BY <1>1, <1>2

-----------------------------------------------------------------------------
(* Products.                                                               *)

(* There is a function with the products of all numbers from a place on.   *)
LEMMA ProductsExist ==
  ASSUME NEW n \in Nat, NEW radix, \A l \in 0 .. n - 1 : radix[l] \in Nat
  PROVE  \E f : f = [l \in 0 .. n |-> IF l = n THEN 1 ELSE f[l + 1] * radix[l]]
<1> DEFINE Rule(f, l) == f[l] = IF l = n THEN 1 ELSE f[l + 1] * radix[l]
           T == {k \in Nat : \E f \in [0 .. n -> Nat] : \A l \in 0 .. n : l >= n - k => Rule(f, l)}
<1>1. 0 \in T
  <2> DEFINE f == [l \in 0 .. n |-> 1]
  <2>1. f \in [0 .. n -> Nat] /\ \A l \in 0 .. n : l >= n - 0 => Rule(f, l)
    OBVIOUS
  <2> QED BY <2>1
<1>2. ASSUME NEW k \in T PROVE k + 1 \in T
  <2>1. k \in Nat /\ k + 1 \in Nat
    OBVIOUS
  <2>2. PICK f \in [0 .. n -> Nat] : \A l \in 0 .. n : l >= n - k => Rule(f, l)
    OBVIOUS
  <2>3. CASE n - (k + 1) \notin 0 .. n
    <3>1. \A l \in 0 .. n : l >= n - k
      BY <2>1, <2>3
    <3>2. \A l \in 0 .. n : l >= n - (k + 1) => Rule(f, l)
      BY <2>2, <3>1
    <3> QED BY <2>1, <3>2
  <2>4. CASE n - (k + 1) \in 0 .. n
    <3> DEFINE m == n - (k + 1)
               new == f[m + 1] * radix[m]
               h == [f EXCEPT ![m] = new]
    <3>1. m \in 0 .. n - 1 /\ m + 1 \in 0 .. n /\ m # n
      BY <2>1, <2>4
    <3>2. new \in Nat
      <4> DEFINE x == f[m + 1]
                 y == radix[m]
      <4>1. x \in Nat /\ y \in Nat
        BY <3>1
      <4> HIDE DEF x, y
      <4>2. x * y \in Nat
        BY <4>1
      <4> QED BY <4>2 DEF x, y
    <3>3. new = f[m + 1] * radix[m] /\ m = n - (k + 1)
      OBVIOUS
    <3> HIDE DEF new, m
    <3>4. h \in [0 .. n -> Nat] /\ h[m] = new /\ \A l \in 0 .. n : l # m => h[l] = f[l]
      BY <3>1, <3>2
    <3> HIDE DEF h
    <3>5. ASSUME NEW l \in 0 .. n, l >= n - (k + 1) PROVE Rule(h, l)
      <4>1. CASE l = m
        <5>1. h[m + 1] = f[m + 1] /\ h[l] = new
          BY <3>1, <3>4, <4>1
        <5> QED BY <3>1, <3>3, <4>1, <5>1
      <4>2. CASE l # m
        <5>1. l >= n - k /\ l > m
          BY <2>1, <3>1, <3>3, <3>5, <4>2
        <5>2. Rule(f, l) /\ h[l] = f[l]
          BY <2>2, <3>4, <4>2, <5>1
        <5>3. l # n => l + 1 \in 0 .. n /\ l + 1 # m
          BY <3>1, <5>1
        <5>4. l # n => h[l + 1] = f[l + 1]
          BY <3>4, <5>3
        <5> QED BY <5>2, <5>4
      <4> QED BY <4>1, <4>2
    <3> QED BY <2>1, <3>4, <3>5
  <2> QED BY <2>3, <2>4
<1>3. n \in T
  <2> HIDE DEF T
  <2>1. T \in SUBSET Nat
    BY DEF T
  <2> QED BY <1>1, <1>2, <2>1, NatSetInduction
<1>4. PICK f \in [0 .. n -> Nat] : \A l \in 0 .. n : Rule(f, l)
  <2>1. \A l \in 0 .. n : l >= n - n
    OBVIOUS
  <2>2. PICK f \in [0 .. n -> Nat] : \A l \in 0 .. n : l >= n - n => Rule(f, l)
    BY <1>3
  <2> QED BY <2>1, <2>2
<1>5. f = [l \in 0 .. n |-> IF l = n THEN 1 ELSE f[l + 1] * radix[l]]
  BY <1>4
<1> QED BY <1>5

(* They are positive if the numbers are.                                   *)
LEMMA ProductsPositive ==
  ASSUME NEW n \in Nat, NEW first \in 0 .. n, NEW radix, \A l \in first .. n - 1 : radix[l] \in Nat \ {0},
         NEW g, \A l \in 0 .. n : g[l] = IF l = n THEN 1 ELSE g[l + 1] * radix[l]
  PROVE  \A l \in first .. n : g[l] \in Nat \ {0}
<1>7. \A l \in 0 .. n : g[l] = IF l = n THEN 1 ELSE g[l + 1] * radix[l]
  OBVIOUS
<1> DEFINE U == {k \in Nat : k <= n - first => g[n - k] \in Nat \ {0}}
<1>8. 0 \in U
  BY <1>7
<1>9. ASSUME NEW k \in U PROVE k + 1 \in U
  <2> SUFFICES ASSUME k + 1 <= n - first PROVE g[n - (k + 1)] \in Nat \ {0}
    OBVIOUS
  <2> DEFINE m == n - (k + 1)
  <2>1. m \in first .. n - 1 /\ m + 1 = n - k /\ k <= n - first /\ m # n
    OBVIOUS
  <2>2. m = n - (k + 1)
    OBVIOUS
  <2>6. g[n - k] \in Nat \ {0}
    BY <1>9, <2>1
  <2> HIDE DEF m
  <2>7. m \in 0 .. n
    BY <2>1
  <2>8. g[m] = IF m = n THEN 1 ELSE g[m + 1] * radix[m]
    BY <1>7, <2>7
  <2>3. g[m] = g[m + 1] * radix[m] /\ g[m + 1] \in Nat \ {0} /\ radix[m] \in Nat \ {0}
    BY <2>1, <2>6, <2>8
  <2> DEFINE x == g[m + 1]
             y == radix[m]
  <2>4. x \in Nat \ {0} /\ y \in Nat \ {0} /\ g[m] = x * y
    BY <2>3
  <2> HIDE DEF x, y
  <2>5. g[m] \in Nat \ {0}
    BY <2>4, Multiple
  <2> QED BY <2>2, <2>5
<1>10. \A k \in Nat : k \in U
  <2> HIDE DEF U
  <2>1. U \in SUBSET Nat
    BY DEF U
  <2> QED BY <1>8, <1>9, <2>1, NatSetInduction
<1>11. ASSUME NEW l \in first .. n PROVE g[l] \in Nat \ {0}
  <2>1. n - l \in Nat /\ n - l <= n - first /\ n - (n - l) = l
    OBVIOUS
  <2>2. n - l \in U
    BY <1>10, <2>1
  <2> QED BY <2>1, <2>2
<1> QED BY <1>11

-----------------------------------------------------------------------------
(* Sums.                                                                   *)

(* The recursion of SumFunction: one number after the other, in an order   *)
(* that is not known.                                                      *)
Pick(s) == CHOOSE x \in s : TRUE
SumUp(f, s, sums) == IF s = {} THEN 0 ELSE f[Pick(s)] + sums[s \ {Pick(s)}]
Sums(f, S) == CHOOSE sums : sums = [s \in SUBSET S |-> SumUp(f, s, sums)]
SumOver(f, S) == Sums(f, S)[S]

(* A sum obeys its recursion, and is a number.                             *)
LEMMA SumRecursion ==
  ASSUME NEW T \in {Nat, Int}, NEW S, IsFiniteSet(S), NEW q, \A x \in S : q[x] \in T
  PROVE  /\ Sums(q, S) = [s \in SUBSET S |-> SumUp(q, s, Sums(q, S))]
         /\ \A s \in SUBSET S : Sums(q, S)[s] \in T
<1> DEFINE UpTo(n, sums) ==
             \A s \in SUBSET S : Cardinality(s) <= n => sums[s] = SumUp(q, s, sums)
           Reached == {n \in Nat : \E sums \in [SUBSET S -> T] : UpTo(n, sums)}
<1>1. ASSUME NEW s \in SUBSET S
      PROVE  /\ Cardinality(s) \in Nat
             /\ Cardinality(s) <= 0 => s = {}
             /\ s # {} => /\ Pick(s) \in s /\ Pick(s) \in S /\ s \ {Pick(s)} \in SUBSET S
                          /\ Cardinality(s \ {Pick(s)}) = Cardinality(s) - 1
  <2>1. IsFiniteSet(s)
    BY FS_Subset
  <2>2. Cardinality(s) \in Nat
    BY <2>1, FS_CardinalityType
  <2>5. Cardinality(s) = 0 => s = {}
    BY <2>1, FS_EmptySet
  <2>6. Cardinality(s) <= 0 => s = {}
    BY <2>2, <2>5
  <2>3. ASSUME s # {} PROVE Pick(s) \in s
    BY <2>3 DEF Pick
  <2>4. ASSUME s # {} PROVE Cardinality(s \ {Pick(s)}) = Cardinality(s) - 1
    BY <2>1, <2>3, <2>4, FS_RemoveElement
  <2> QED BY <2>2, <2>3, <2>4, <2>6
<1>2. ASSUME NEW sums, NEW s \in SUBSET S, s # {} => sums[s \ {Pick(s)}] \in T
      PROVE  SumUp(q, s, sums) \in T
  <2>1. CASE s = {}
    BY <2>1 DEF SumUp
  <2>2. CASE s # {}
    <3>1. q[Pick(s)] \in T /\ sums[s \ {Pick(s)}] \in T
      BY <1>1, <1>2, <2>2
    <3>2. q[Pick(s)] + sums[s \ {Pick(s)}] \in T
      BY <3>1
    <3> QED BY <2>2, <3>2 DEF SumUp
  <2> QED BY <2>1, <2>2
<1>3. 0 \in Reached
  <2> DEFINE none == [s \in SUBSET S |-> 0]
  <2>1. none \in [SUBSET S -> T]
    OBVIOUS
  <2>2. ASSUME NEW s \in SUBSET S, Cardinality(s) <= 0 PROVE none[s] = SumUp(q, s, none)
    <3>1. s = {}
      BY <1>1, <2>2
    <3> QED BY <3>1 DEF SumUp
  <2> QED BY <2>1, <2>2
<1>4. ASSUME NEW n \in Reached PROVE n + 1 \in Reached
  <2>1. n \in Nat
    OBVIOUS
  <2>2. PICK sums \in [SUBSET S -> T] : UpTo(n, sums)
    OBVIOUS
  <2> DEFINE more == [s \in SUBSET S |-> SumUp(q, s, sums)]
  <2>3. more \in [SUBSET S -> T]
    <3>1. ASSUME NEW s \in SUBSET S PROVE SumUp(q, s, sums) \in T
      <4>1. s # {} => sums[s \ {Pick(s)}] \in T
        BY <1>1
      <4> QED BY <1>2, <4>1
    <3> QED BY <3>1
  <2>4. ASSUME NEW s \in SUBSET S, Cardinality(s) <= n + 1
        PROVE  more[s] = SumUp(q, s, more)
    <3>1. CASE s = {}
      BY <3>1 DEF SumUp
    <3>2. CASE s # {}
      <4>1. s \ {Pick(s)} \in SUBSET S /\ Cardinality(s \ {Pick(s)}) <= n
        BY <1>1, <2>1, <2>4, <3>2
      <4>2. more[s \ {Pick(s)}] = sums[s \ {Pick(s)}]
        BY <2>2, <4>1
      <4> QED BY <3>2, <4>2 DEF SumUp
    <3> QED BY <3>1, <3>2
  <2> HIDE DEF more
  <2>5. UpTo(n + 1, more)
    BY <2>4
  <2> QED BY <2>1, <2>3, <2>5
<1>5. Sums(q, S) = [s \in SUBSET S |-> SumUp(q, s, Sums(q, S))]
  <2>1. Cardinality(S) \in Reached
    <3>1. Reached \in SUBSET Nat
      OBVIOUS
    <3> HIDE DEF Reached
    <3> QED BY <1>1, <1>3, <1>4, <3>1, NatSetInduction
  <2>2. PICK sums \in [SUBSET S -> T] : UpTo(Cardinality(S), sums)
    BY <2>1
  <2>3. ASSUME NEW s \in SUBSET S PROVE sums[s] = SumUp(q, s, sums)
    BY <2>2, FS_Subset
  <2>4. sums = [s \in SUBSET S |-> SumUp(q, s, sums)]
    BY <2>3
  <2> QED BY <2>4 DEF Sums
<1>6. \A n \in Nat : n \in {k \in Nat : \A s \in SUBSET S : Cardinality(s) <= k => Sums(q, S)[s] \in T}
  <2> DEFINE Typed == {k \in Nat : \A s \in SUBSET S : Cardinality(s) <= k => Sums(q, S)[s] \in T}
  <2>1. 0 \in Typed
    <3>1. ASSUME NEW s \in SUBSET S, Cardinality(s) <= 0 PROVE Sums(q, S)[s] \in T
      <4>1. s = {}
        BY <1>1, <3>1
      <4>2. Sums(q, S)[s] = SumUp(q, s, Sums(q, S))
        BY <1>5
      <4> QED BY <1>2, <4>1, <4>2
    <3> QED BY <3>1
  <2>2. ASSUME NEW n \in Typed PROVE n + 1 \in Typed
    <3>1. ASSUME NEW s \in SUBSET S, Cardinality(s) <= n + 1 PROVE Sums(q, S)[s] \in T
      <4>1. ASSUME s # {} PROVE Sums(q, S)[s \ {Pick(s)}] \in T
        <5>1. s \ {Pick(s)} \in SUBSET S /\ Cardinality(s \ {Pick(s)}) <= n
          BY <1>1, <3>1, <4>1
        <5> QED BY <5>1
      <4>2. Sums(q, S)[s] = SumUp(q, s, Sums(q, S))
        BY <1>5
      <4> QED BY <1>2, <4>1, <4>2
    <3> QED BY <3>1
  <2>3. Typed \in SUBSET Nat
    OBVIOUS
  <2> HIDE DEF Typed
  <2>4. \A n \in Nat : n \in Typed
    BY <2>1, <2>2, <2>3, NatSetInduction
  <2> QED BY <2>4 DEF Typed
<1>7. ASSUME NEW s \in SUBSET S PROVE Sums(q, S)[s] \in T
  <2>1. Cardinality(s) \in Nat
    BY <1>1
  <2>2. Cardinality(s) <= Cardinality(s)
    BY <2>1
  <2> QED BY <1>6, <2>1, <2>2
<1> QED BY <1>5, <1>7

(* SumFunctionOnSet() is the sum over the set.                             *)
LEMMA SumIs == ASSUME NEW q, NEW S PROVE SumFunctionOnSet(q, S) = SumOver(q, S)
BY DEF SumFunctionOnSet, FoldFunctionOnSet, MapThenFoldSet, SumOver, Sums, SumUp, Pick

(* It is a number, a natural one if they all are.                          *)
LEMMA SumType ==
  ASSUME NEW T \in {Nat, Int}, NEW S, IsFiniteSet(S), NEW fun, \A x \in S : fun[x] \in T
  PROVE  SumFunctionOnSet(fun, S) \in T
<1>1. S \in SUBSET S
  OBVIOUS
<1>2. SumOver(fun, S) \in T
  BY <1>1, SumRecursion DEF SumOver
<1> QED BY <1>2, SumIs

(* Subsets, one element smaller.                                           *)
LEMMA PickSmaller ==
  ASSUME NEW S, IsFiniteSet(S), NEW s \in SUBSET S, NEW x \in s
  PROVE  /\ s \ {x} \in SUBSET S
         /\ Cardinality(s) \in Nat /\ Cardinality(s \ {x}) = Cardinality(s) - 1
<1>1. IsFiniteSet(s)
  BY FS_Subset
<1>2. Cardinality(s) \in Nat /\ Cardinality(s \ {x}) = Cardinality(s) - 1
  BY <1>1, FS_CardinalityType, FS_RemoveElement
<1> QED BY <1>2

(* Sums over the same numbers agree, whatever else there is.               *)
LEMMA SameSum ==
  ASSUME NEW S, IsFiniteSet(S), NEW q, \A x \in S : q[x] \in Int,
         NEW U, IsFiniteSet(U), NEW r, \A x \in U : r[x] \in Int,
         NEW V \in SUBSET S, V \in SUBSET U, \A x \in V : q[x] = r[x]
  PROVE  Sums(q, S)[V] = Sums(r, U)[V]
<1> DEFINE Same == {n \in Nat : \A s \in SUBSET V :
                      Cardinality(s) <= n => Sums(q, S)[s] = Sums(r, U)[s]}
<1>1. /\ Sums(q, S) = [s \in SUBSET S |-> SumUp(q, s, Sums(q, S))]
      /\ Sums(r, U) = [s \in SUBSET U |-> SumUp(r, s, Sums(r, U))]
  BY SumRecursion
<1>2. IsFiniteSet(V)
  BY FS_Subset
<1>3. ASSUME NEW s \in SUBSET V,
             s # {} => Sums(q, S)[s \ {Pick(s)}] = Sums(r, U)[s \ {Pick(s)}]
      PROVE  Sums(q, S)[s] = Sums(r, U)[s]
  <2>1. Sums(q, S)[s] = SumUp(q, s, Sums(q, S)) /\ Sums(r, U)[s] = SumUp(r, s, Sums(r, U))
    BY <1>1
  <2>2. CASE s = {}
    BY <2>1, <2>2 DEF SumUp
  <2>3. CASE s # {}
    <3>1. Pick(s) \in V
      BY <2>3 DEF Pick
    <3>2. q[Pick(s)] = r[Pick(s)]
      BY <3>1
    <3> QED BY <1>3, <2>1, <2>3, <3>2 DEF SumUp
  <2> QED BY <2>2, <2>3
<1>4. 0 \in Same
  <2>1. ASSUME NEW s \in SUBSET V, Cardinality(s) <= 0 PROVE Sums(q, S)[s] = Sums(r, U)[s]
    <3>1. ASSUME NEW x \in s PROVE FALSE
      <4>1. /\ Cardinality(s) \in Nat /\ Cardinality(s \ {x}) = Cardinality(s) - 1
            /\ s \ {x} \in SUBSET V
        BY <1>2, PickSmaller
      <4>2. Cardinality(s \ {x}) \in Nat
        BY <1>2, <4>1, FS_Subset, FS_CardinalityType
      <4> QED BY <2>1, <4>1, <4>2
    <3>2. s = {}
      BY <3>1
    <3> QED BY <1>3, <3>2
  <2> QED BY <2>1
<1>5. ASSUME NEW n \in Same PROVE n + 1 \in Same
  <2>1. n \in Nat
    OBVIOUS
  <2>2. ASSUME NEW s \in SUBSET V, Cardinality(s) <= n + 1 PROVE Sums(q, S)[s] = Sums(r, U)[s]
    <3>1. ASSUME s # {} PROVE Sums(q, S)[s \ {Pick(s)}] = Sums(r, U)[s \ {Pick(s)}]
      <4>1. Pick(s) \in s
        BY <3>1 DEF Pick
      <4>2. /\ s \ {Pick(s)} \in SUBSET V /\ Cardinality(s) \in Nat
            /\ Cardinality(s \ {Pick(s)}) = Cardinality(s) - 1
        BY <1>2, <4>1, PickSmaller
      <4>3. Cardinality(s \ {Pick(s)}) <= n
        BY <2>1, <2>2, <4>2
      <4> QED BY <4>2, <4>3
    <3> QED BY <1>3, <3>1
  <2> QED BY <2>1, <2>2
<1>6. Cardinality(V) \in Same
  <2>1. Same \in SUBSET Nat
    OBVIOUS
  <2> HIDE DEF Same
  <2> QED BY <1>2, <1>4, <1>5, <2>1, NatSetInduction, FS_CardinalityType
<1>7. Cardinality(V) \in Nat
  BY <1>2, FS_CardinalityType
<1>8. Cardinality(V) <= Cardinality(V)
  BY <1>7
<1> QED BY <1>6, <1>8

(* Any number may be taken first.                                          *)
LEMMA SumWithout ==
  ASSUME NEW S, IsFiniteSet(S), NEW q, \A x \in S : q[x] \in Int, NEW x \in S
  PROVE  SumOver(q, S) = SumOver(q, S \ {x}) + q[x]
<1> DEFINE sum(s) == Sums(q, S)[s]
           Splits == {n \in Nat : \A s \in SUBSET S : Cardinality(s) <= n =>
                        \A y \in s : sum(s) = sum(s \ {y}) + q[y]}
<1>1. /\ Sums(q, S) = [s \in SUBSET S |-> SumUp(q, s, Sums(q, S))]
      /\ \A s \in SUBSET S : Sums(q, S)[s] \in Int
  BY SumRecursion
<1>2. ASSUME NEW s \in SUBSET S, s # {}
      PROVE  Pick(s) \in s /\ sum(s) = sum(s \ {Pick(s)}) + q[Pick(s)]
  <2>1. Pick(s) \in s
    BY <1>2 DEF Pick
  <2>2. Sums(q, S)[s] = SumUp(q, s, Sums(q, S))
    BY <1>1
  <2>3. sum(s) = q[Pick(s)] + sum(s \ {Pick(s)})
    BY <1>2, <2>1, <2>2 DEF SumUp
  <2>4. sum(s \ {Pick(s)}) \in Int /\ q[Pick(s)] \in Int
    BY <1>1, <2>1
  <2> HIDE DEF sum
  <2> QED BY <2>1, <2>3, <2>4
<1>3. \A s \in SUBSET S : sum(s) \in Int
  BY <1>1
<1> HIDE DEF sum
<1>4. 0 \in Splits
  <2>1. ASSUME NEW s \in SUBSET S, Cardinality(s) <= 0, NEW y \in s PROVE FALSE
    <3>1. /\ Cardinality(s) \in Nat /\ Cardinality(s \ {y}) = Cardinality(s) - 1
          /\ s \ {y} \in SUBSET S
      BY PickSmaller
    <3>2. Cardinality(s \ {y}) \in Nat
      BY <3>1, FS_Subset, FS_CardinalityType
    <3> QED BY <2>1, <3>1, <3>2
  <2> QED BY <2>1
<1>5. ASSUME NEW n \in Splits PROVE n + 1 \in Splits
  <2>1. n \in Nat
    OBVIOUS
  <2>2. ASSUME NEW s \in SUBSET S, Cardinality(s) <= n + 1, NEW y \in s
        PROVE  sum(s) = sum(s \ {y}) + q[y]
    <3> DEFINE z == Pick(s)
               both == (s \ {y}) \ {z}
    <3>1. z \in s /\ sum(s) = sum(s \ {z}) + q[z]
      BY <1>2
    <3>2. CASE y = z
      BY <3>1, <3>2
    <3>3. CASE y # z
      <4>1. ASSUME NEW w \in s
            PROVE  s \ {w} \in SUBSET S /\ Cardinality(s \ {w}) <= n
        <5>1. /\ Cardinality(s) \in Nat /\ Cardinality(s \ {w}) = Cardinality(s) - 1
              /\ s \ {w} \in SUBSET S
          BY PickSmaller
        <5> QED BY <2>1, <2>2, <5>1
      <4>2. both \in SUBSET S /\ both = (s \ {z}) \ {y} /\ y \in s \ {z} /\ z \in s \ {y}
        BY <3>1, <3>3
      <4> HIDE DEF z
      <4>3. sum(s \ {y}) = sum(both) + q[z]
        BY <3>1, <4>1, <4>2
      <4>4. sum(s \ {z}) = sum((s \ {z}) \ {y}) + q[y]
        BY <3>1, <4>1, <4>2
      <4>5. sum(s \ {z}) = sum(both) + q[y]
        BY <4>2, <4>4
      <4> HIDE DEF both
      <4>6. sum(both) \in Int /\ q[y] \in Int /\ q[z] \in Int
        BY <1>3, <3>1, <4>2
      <4>7. sum(s) = (sum(both) + q[y]) + q[z]
        BY <3>1, <4>5
      <4>8. (sum(both) + q[y]) + q[z] = (sum(both) + q[z]) + q[y]
        BY ONLY <4>6
      <4> QED BY <4>3, <4>7, <4>8
    <3> QED BY <3>2, <3>3
  <2> QED BY <2>1, <2>2
<1>6. Cardinality(S) \in Splits /\ Cardinality(S) \in Nat
  <2>1. Splits \in SUBSET Nat
    OBVIOUS
  <2> HIDE DEF Splits
  <2> QED BY <1>4, <1>5, <2>1, NatSetInduction, FS_CardinalityType
<1>7. sum(S) = sum(S \ {x}) + q[x]
  <2>1. Cardinality(S) <= Cardinality(S) /\ S \in SUBSET S
    BY <1>6
  <2> QED BY <1>6, <2>1
<1>8. sum(S \ {x}) = SumOver(q, S \ {x})
  <2>1. S \ {x} \in SUBSET S
    OBVIOUS
  <2>2. IsFiniteSet(S \ {x}) /\ \A y \in S \ {x} : q[y] \in Int
    BY <2>1, FS_Subset
  <2> QED BY <2>1, <2>2, SameSum DEF sum, SumOver
<1> QED BY <1>7, <1>8 DEF sum, SumOver

=============================================================================
