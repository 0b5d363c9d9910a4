---------------------------- MODULE NumberLemmas ----------------------------
(***************************************************************************)
(* Facts about integers that the proofs of several components rest on:     *)
(* remainders by a modulus that is not known, numbers written with two     *)
(* digits, and functions defined by recursion on 0 .. N.                   *)
(***************************************************************************)
EXTENDS Integers, WellFoundedInduction, TLAPS

(* Quotient and remainder: the equation, and that it determines them. *)
LEMMA DivMod ==
  ASSUME NEW p \in Nat \ {0}, NEW a \in Int
  PROVE  /\ a % p \in 0 .. p-1
         /\ a \div p \in Int
         /\ a = (p * (a \div p)) + (a % p)
OBVIOUS

LEMMA ModUnique ==
  ASSUME NEW p \in Nat \ {0}, NEW r \in 0 .. p-1, NEW q \in Int
  PROVE  ((p * q) + r) % p = r
OBVIOUS

LEMMA ModShift ==
  ASSUME NEW p \in Nat \ {0}, NEW a \in Int, NEW k \in Int
  PROVE  (a + (p * k)) % p = a % p
<1> DEFINE q == a \div p
           r == a % p
<1>1. r \in 0 .. p-1 /\ q \in Int /\ a = (p * q) + r
  BY DivMod
<1> HIDE DEF q, r
<1>2. a + (p * k) = (p * (q + k)) + r /\ q + k \in Int
  BY <1>1
<1>3. ((p * (q + k)) + r) % p = r
  BY <1>1, <1>2, ModUnique
<1> QED
  BY <1>2, <1>3 DEF r

LEMMA ModAdd ==
  ASSUME NEW p \in Nat \ {0}, NEW a \in Int, NEW b \in Int
  PROVE  ((a % p) + (b % p)) % p = (a + b) % p
<1> DEFINE qa == a \div p
           ra == a % p
           qb == b \div p
           rb == b % p
<1>1. /\ ra \in Int /\ qa \in Int /\ a = (p * qa) + ra
      /\ rb \in Int /\ qb \in Int /\ b = (p * qb) + rb
  BY DivMod
<1> HIDE DEF qa, ra, qb, rb
<1>2. /\ a + b = (ra + rb) + (p * (qa + qb))
      /\ ra + rb \in Int /\ qa + qb \in Int
  BY <1>1
<1>3. ((ra + rb) + (p * (qa + qb))) % p = (ra + rb) % p
  BY <1>2, ModShift
<1> QED
  BY <1>2, <1>3 DEF ra, rb

LEMMA ModMul ==
  ASSUME NEW p \in Nat \ {0}, NEW a \in Int, NEW b \in Int
  PROVE  ((a % p) * b) % p = (a * b) % p
<1> DEFINE q == a \div p
           r == a % p
<1>1. r \in Int /\ q \in Int /\ a = (p * q) + r
  BY DivMod
<1> HIDE DEF q, r
<1>2. a * b = (r * b) + (p * (q * b)) /\ q * b \in Int /\ r * b \in Int
  BY <1>1
<1>3. ((r * b) + (p * (q * b))) % p = (r * b) % p
  BY <1>2, ModShift
<1> QED
  BY <1>2, <1>3 DEF r
LEMMA DivUnique ==
  ASSUME NEW p \in Nat \ {0}, NEW r \in 0 .. p-1, NEW q \in Int
  PROVE  ((p * q) + r) \div p = q
OBVIOUS

(***************************************************************************)
(* Row b and column a of a table with s columns have a place of their own, *)
(* within the table, and every place is that of a row and a column.        *)
(***************************************************************************)
LEMMA PlaceUnique ==
  ASSUME NEW s \in Nat \ {0}, NEW a \in 0 .. s-1, NEW c \in 0 .. s-1,
         NEW b \in Int, NEW d \in Int, a + (s * b) = c + (s * d)
  PROVE  a = c /\ b = d
<1>1. ((s * b) + a) % s = a /\ ((s * d) + c) % s = c
  BY ModUnique
<1>2. ((s * b) + a) \div s = b /\ ((s * d) + c) \div s = d
  BY DivUnique
<1>3. (s * b) + a = (s * d) + c
  OBVIOUS
<1> QED
  BY <1>1, <1>2, <1>3

LEMMA PlaceInside ==
  ASSUME NEW s \in Nat, NEW a \in 0 .. s-1, NEW b \in Nat, NEW t \in Nat, b < t
  PROVE  a + (s * b) \in Nat /\ a + (s * b) < s * t
<1>1. PICK d \in Nat : t = b + 1 + d
  <2>1. t - b - 1 \in Nat /\ t = b + 1 + (t - b - 1)
    OBVIOUS
  <2> QED
    BY <2>1
<1>2. s * t = (s * b) + s + (s * d) /\ s * b \in Nat /\ s * d \in Nat
  BY <1>1
<1> QED
  BY <1>2

LEMMA PlaceExists ==
  ASSUME NEW s \in Nat, NEW t \in Nat, NEW n \in Nat, n < s * t
  PROVE  \E a \in 0 .. s-1, b \in 0 .. t-1 : n = a + (s * b)
<1>1. s # 0
  OBVIOUS
<1> DEFINE a == n % s
           b == n \div s
<1>2. a \in 0 .. s-1 /\ b \in Int /\ n = (s * b) + a
  BY <1>1, DivMod
<1> HIDE DEF a, b
<1>3. b >= 0
  <2>1. SUFFICES ASSUME b < 0 PROVE FALSE
    BY <1>2
  <2>2. PICK d \in Nat : b = -1 - d
    <3>1. -1 - b \in Nat /\ b = -1 - (-1 - b)
      BY <1>2, <2>1
    <3> QED
      BY <3>1
  <2>3. s * b = -s - (s * d) /\ s * d \in Nat
    BY <2>2
  <2> QED
    BY <1>2, <2>3
<1>4. b < t
  <2>1. SUFFICES ASSUME b >= t PROVE FALSE
    BY <1>2
  <2>2. PICK d \in Nat : b = t + d
    <3>1. b - t \in Nat /\ b = t + (b - t)
      BY <1>2, <2>1
    <3> QED
      BY <3>1
  <2>3. s * b = (s * t) + (s * d) /\ s * d \in Nat
    BY <2>2
  <2> QED
    BY <1>2, <2>3
<1>5. b \in 0 .. t-1 /\ n = a + (s * b)
  BY <1>2, <1>3, <1>4
<1> QED
  BY <1>2, <1>5
-----------------------------------------------------------------------------
(***************************************************************************)
(* Induction, on sets of numbers rather than on predicates: the least      *)
(* number outside S cannot exist.                                          *)
(***************************************************************************)
LEMMA SetInduction ==
  ASSUME NEW S, 0 \in S, \A n \in Nat : n \in S => n+1 \in S
  PROVE  Nat \subseteq S
<1> DEFINE T == {n \in Nat : n \notin S}
           R == OpToRel(<, Nat)
<1>1. SUFFICES ASSUME T # {} PROVE FALSE
  OBVIOUS
<1>2. IsWellFoundedOn(R, Nat)
  BY NatLessThanWellFounded
<1>3. T \subseteq Nat
  OBVIOUS
<1>4. \A a, b \in Nat : a < b => <<a, b>> \in R
  BY DEF OpToRel
<1> HIDE DEF T, R
<1>5. \E x \in T : \A y \in T : ~ (<<y, x>> \in R)
  BY <1>1, <1>2, <1>3, WFMin
<1> USE DEF T
<1>6. PICK x \in T : \A y \in T : ~ (y < x)
  BY <1>5, <1>4
<1> QED
  BY <1>6

(* The same up to a bound. *)
LEMMA BoundedInduction ==
  ASSUME NEW N \in Nat, NEW S, 0 \in S,
         \A n \in 0 .. N-1 : n \in S => n+1 \in S
  PROVE  0 .. N \subseteq S
<1> DEFINE T == {n \in Nat : n <= N => n \in S}
<1>1. 0 \in T
  OBVIOUS
<1>2. ASSUME NEW n \in Nat, n \in T PROVE n+1 \in T
  <2>1. CASE n+1 > N
    BY <2>1
  <2>2. CASE n+1 <= N
    <3>1. n \in 0 .. N-1 /\ n \in S
      BY <1>2, <2>2
    <3> QED
      BY <3>1
  <2> QED
    BY <2>1, <2>2
<1> HIDE DEF T
<1>3. Nat \subseteq T
  BY <1>1, <1>2, SetInduction
<1> QED
  BY <1>3 DEF T

(***************************************************************************)
(* f is the function on 0 .. n that starts at a and goes on by step; there *)
(* is one for every n.                                                     *)
(***************************************************************************)
Iterates(f, n, D, a, step) ==
  /\ f \in [0 .. n -> D]
  /\ f[0] = a
  /\ \A l \in 1 .. n : f[l] = step[<<l, f[l-1]>>]

LEMMA Recursion ==
  ASSUME NEW N \in Nat, NEW D, NEW a \in D, NEW step \in [(1 .. N) \X D -> D]
  PROVE  \E f : Iterates(f, N, D, a, step)
<1> DEFINE S == {n \in Nat : n > N \/ \E f : Iterates(f, n, D, a, step)}
<1>1. 0 \in S
  <2> DEFINE f == [l \in 0 .. 0 |-> a]
  <2>1. Iterates(f, 0, D, a, step)
    BY DEF Iterates
  <2> HIDE DEF f
  <2> QED
    BY <2>1
<1>2. ASSUME NEW n \in Nat, n \in S PROVE n+1 \in S
  <2>1. CASE n+1 > N
    BY <2>1
  <2>2. CASE n+1 <= N
    <3>1. PICK f : Iterates(f, n, D, a, step)
      BY <1>2, <2>2
    <3> DEFINE last == step[<<n+1, f[n]>>]
               g == [l \in 0 .. n+1 |-> IF l = n+1 THEN last ELSE f[l]]
    <3>2. last \in D
      <4>1. <<n+1, f[n]>> \in (1 .. N) \X D
        BY <2>2, <3>1 DEF Iterates
      <4> QED
        BY <4>1
    <3>3. g[n+1] = last /\ \A l \in 0 .. n : g[l] = f[l]
      OBVIOUS
    <3>4. g \in [0 .. n+1 -> D]
      BY <3>1, <3>2 DEF Iterates
    <3>5. last = step[<<n+1, f[n]>>]
      OBVIOUS
    <3> HIDE DEF g, last
    <3>6. ASSUME NEW l \in 1 .. n+1 PROVE g[l] = step[<<l, g[l-1]>>]
      <4>1. l-1 \in 0 .. n /\ g[l-1] = f[l-1]
        BY <3>3
      <4>2. CASE l = n+1
        <5>1. l-1 = n
          BY <4>2
        <5> QED
          BY <4>1, <4>2, <5>1, <3>3, <3>5
      <4>3. CASE l # n+1
        BY <4>1, <4>3, <3>1, <3>3 DEF Iterates
      <4> QED
        BY <4>2, <4>3
    <3>7. Iterates(g, n+1, D, a, step)
      BY <3>1, <3>3, <3>4, <3>6 DEF Iterates
    <3> QED
      BY <3>7
  <2> QED
    BY <2>1, <2>2
<1> HIDE DEF S
<1>3. N \in S
  BY <1>1, <1>2, SetInduction
<1> QED
  BY <1>3 DEF S
=============================================================================
