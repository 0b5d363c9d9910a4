-------------------------- MODULE CudaMinerProofs --------------------------
(***************************************************************************)
(* For every launch configuration, every set of calls and every field: the *)
(* kernel stores inside its buffer, the thread groups of one row of blocks *)
(* never meet, and a launch that covers the chunk finds its planets.       *)
(***************************************************************************)
EXTENDS CudaMiner, NumberLemmas, FiniteSetTheorems, SequenceTheorems, TLAPS

LEMMA Numbers ==
  /\ P \in Nat /\ P > 0 /\ Word \in Nat /\ Word > 1 /\ Word <= P
  /\ LimbCount \in Nat
  /\ ThreadWorkSize \in Nat /\ ThreadWorkSize < Word
  /\ BlockSize \in Nat /\ BlockSize < Word
BY CallAssumption, LaunchAssumption, NumberAssumption
-----------------------------------------------------------------------------
(***************************************************************************)
(* Limbs.  What is left of a number after each limb, by the recursion of   *)
(* WithoutLimbs; it grows with the number, so that whatever is at most P   *)
(* fits, and survives the way to the device and back.                      *)
(***************************************************************************)
LEMMA WithoutLimbsDef ==
  ASSUME NEW n \in Nat
  PROVE  /\ WithoutLimbs(n)[0] = n
         /\ \A l \in 0 .. LimbCount-1 :
              WithoutLimbs(n)[l+1] = WithoutLimbs(n)[l] \div Word
         /\ \A l \in 0 .. LimbCount : WithoutLimbs(n)[l] \in Nat
<1> USE Numbers
<1> DEFINE step == [p \in (1 .. LimbCount) \X Nat |-> p[2] \div Word]
           Eq(f) == f = [l \in 0 .. LimbCount |->
                           IF l = 0 THEN n ELSE f[l-1] \div Word]
<1>1. step \in [(1 .. LimbCount) \X Nat -> Nat]
  OBVIOUS
<1> HIDE DEF step
<1>2. PICK f : Iterates(f, LimbCount, Nat, n, step)
  BY <1>1, Recursion
<1>3. Eq(f)
  <2>1. f \in [0 .. LimbCount -> Nat] /\ f[0] = n
    BY <1>2 DEF Iterates
  <2>2. ASSUME NEW l \in 0 .. LimbCount
        PROVE  f[l] = IF l = 0 THEN n ELSE f[l-1] \div Word
    <3>1. CASE l = 0
      BY <2>1, <3>1
    <3>2. CASE l # 0
      <4>1. l \in 1 .. LimbCount /\ <<l, f[l-1]>> \in (1 .. LimbCount) \X Nat
        BY <3>2, <2>1
      <4>2. f[l] = step[<<l, f[l-1]>>]
        BY <4>1, <1>2 DEF Iterates
      <4>3. step[<<l, f[l-1]>>] = f[l-1] \div Word
        BY <4>1 DEF step
      <4> QED
        BY <4>2, <4>3, <3>2
    <3> QED
      BY <3>1, <3>2
  <2> QED
    BY <2>1, <2>2
<1>4. Eq(WithoutLimbs(n))
  BY <1>3, Zenon DEF WithoutLimbs
<1> DEFINE w == WithoutLimbs(n)
<1>5. w[0] = n /\ \A l \in 0 .. LimbCount-1 : w[l+1] = w[l] \div Word
  <2>1. ASSUME NEW l \in 0 .. LimbCount-1 PROVE w[l+1] = w[l] \div Word
    <3>1. PICK m \in 0 .. LimbCount : m = l+1
      OBVIOUS
    <3>2. w[m] = w[m-1] \div Word /\ m-1 = l
      BY <3>1, <1>4
    <3> QED
      BY <3>1, <3>2
  <2> QED
    BY <2>1, <1>4
<1> HIDE DEF w
<1>6. \A l \in 0 .. LimbCount : w[l] \in Nat
  <2> DEFINE S == {l \in 0 .. LimbCount : w[l] \in Nat}
  <2>1. 0 \in S
    BY <1>5
  <2>2. ASSUME NEW l \in 0 .. LimbCount-1, l \in S PROVE l+1 \in S
    BY <1>5, <2>2
  <2> HIDE DEF S
  <2>3. 0 .. LimbCount \subseteq S
    BY <2>1, <2>2, BoundedInduction
  <2> QED
    BY <2>3 DEF S
<1> QED
  BY <1>5, <1>6 DEF w

LEMMA DivMonotone ==
  ASSUME NEW p \in Nat, p > 0, NEW a \in Nat, NEW b \in Nat, a <= b
  PROVE  a \div p <= b \div p
<1> DEFINE qa == a \div p
           qb == b \div p
           ra == a % p
           rb == b % p
<1>1. /\ ra \in 0 .. p-1 /\ qa \in Int /\ a = (p * qa) + ra
      /\ rb \in 0 .. p-1 /\ qb \in Int /\ b = (p * qb) + rb
  BY DivMod
<1> HIDE DEF qa, qb, ra, rb
<1>2. SUFFICES ASSUME qa > qb PROVE FALSE
  BY <1>1 DEF qa, qb
<1>3. PICK d \in Nat : qa = qb + 1 + d
  <2>1. qa - qb - 1 \in Nat /\ qa = qb + 1 + (qa - qb - 1)
    BY <1>1, <1>2
  <2> QED
    BY <2>1
<1>4. p * qa = (p * qb) + p + (p * d) /\ p * d \in Nat /\ p * qb \in Int
  BY <1>1, <1>3
<1> QED
  BY <1>1, <1>4

LEMMA Fits ==
  ASSUME NEW n \in 0 .. P
  PROVE  WithoutLimbs(n)[LimbCount] = 0
<1> USE Numbers
<1> DEFINE S == {l \in 0 .. LimbCount : WithoutLimbs(n)[l] <= WithoutLimbs(P)[l]}
<1>1. 0 \in S
  BY WithoutLimbsDef
<1>2. ASSUME NEW l \in 0 .. LimbCount-1, l \in S PROVE l+1 \in S
  <2>1. /\ WithoutLimbs(n)[l] \in Nat /\ WithoutLimbs(P)[l] \in Nat
        /\ WithoutLimbs(n)[l+1] = WithoutLimbs(n)[l] \div Word
        /\ WithoutLimbs(P)[l+1] = WithoutLimbs(P)[l] \div Word
    BY WithoutLimbsDef
  <2>2. WithoutLimbs(n)[l] <= WithoutLimbs(P)[l]
    BY <1>2
  <2>3. WithoutLimbs(n)[l] \div Word <= WithoutLimbs(P)[l] \div Word
    BY <2>1, <2>2, DivMonotone
  <2> QED
    BY <2>1, <2>3
<1> HIDE DEF S
<1>3. LimbCount \in S
  BY <1>1, <1>2, BoundedInduction
<1>4. WithoutLimbs(n)[LimbCount] <= 0
  BY <1>3, NumberAssumption DEF S
<1>5. WithoutLimbs(n)[LimbCount] \in Nat
  BY WithoutLimbsDef
<1> QED
  BY <1>4, <1>5

LEMMA RoundTrip ==
  ASSUME NEW n \in 0 .. P
  PROVE  /\ FromMpz(n) \in [1 .. LimbCount -> 0 .. Word-1]
         /\ ToMpz(FromMpz(n)) = n
<1> USE Numbers
<1> DEFINE w == WithoutLimbs(n)
           b == FromMpz(n)
           Eq(f) == f = [l \in 0 .. LimbCount |->
                           IF l = 0 THEN 0
                           ELSE (f[l-1] * Word) + b[(LimbCount - l) + 1]]
           up == [l \in 0 .. LimbCount |-> w[LimbCount - l]]
           value == CHOOSE f : Eq(f)
<1>1. /\ w[0] = n /\ w[LimbCount] = 0
      /\ \A l \in 0 .. LimbCount-1 : w[l+1] = w[l] \div Word
      /\ \A l \in 0 .. LimbCount : w[l] \in Nat
  BY WithoutLimbsDef, Fits
<1> HIDE DEF w
<1>2. b = [l \in 1 .. LimbCount |-> w[l-1] % Word]
  BY DEF FromMpz, w
<1> HIDE DEF b
<1>3. b \in [1 .. LimbCount -> 0 .. Word-1]
  <2>1. ASSUME NEW l \in 1 .. LimbCount PROVE w[l-1] % Word \in 0 .. Word-1
    <3>1. w[l-1] \in Nat
      BY <1>1
    <3> QED
      BY <3>1
  <2> QED
    BY <2>1, <1>2
<1>4. ASSUME NEW l \in 0 .. LimbCount, l # 0
      PROVE  w[LimbCount - l] = (w[(LimbCount - l) + 1] * Word) + b[(LimbCount - l) + 1]
  <2>1. PICK m \in 0 .. LimbCount-1 : m = LimbCount - l
    BY <1>4
  <2>2. w[m+1] = w[m] \div Word /\ w[m] \in Nat
    BY <1>1
  <2>3. b[m+1] = w[m] % Word
    BY <1>2
  <2>4. w[m] = (Word * (w[m] \div Word)) + (w[m] % Word)
    <3>1. \A v \in Nat : v = (Word * (v \div Word)) + (v % Word)
      BY DivMod
    <3> QED
      BY <2>2, <3>1
  <2>5. w[m+1] \in Nat /\ Word * w[m+1] = w[m+1] * Word
    BY <1>1
  <2>6. w[m] = (w[m+1] * Word) + b[m+1]
    BY <2>2, <2>3, <2>4, <2>5
  <2> QED
    BY <2>1, <2>6
<1>5. Eq(up)
  <2>1. ASSUME NEW l \in 0 .. LimbCount
        PROVE  up[l] = IF l = 0 THEN 0
                       ELSE (up[l-1] * Word) + b[(LimbCount - l) + 1]
    <3>1. CASE l = 0
      BY <3>1, <1>1
    <3>2. CASE l # 0
      <4>1. up[l] = w[LimbCount - l]
        OBVIOUS
      <4>2. up[l-1] = w[LimbCount - (l-1)] /\ LimbCount - (l-1) = (LimbCount - l) + 1
        BY <3>2
      <4> QED
        BY <4>1, <4>2, <3>2, <1>4
    <3> QED
      BY <3>1, <3>2
  <2> QED
    BY <2>1
<1>6. Eq(value)
  BY <1>5, Zenon
<1>7. ToMpz(b) = value[LimbCount]
  BY Zenon DEF ToMpz
<1> HIDE DEF value, up
<1>8. \A l \in 0 .. LimbCount : value[l] = up[l]
  <2> DEFINE S == {l \in 0 .. LimbCount : value[l] = up[l]}
  <2>1. 0 \in S
    BY <1>5, <1>6
  <2>2. ASSUME NEW l \in 0 .. LimbCount-1, l \in S PROVE l+1 \in S
    <3>1. PICK m \in 0 .. LimbCount : m = l+1
      OBVIOUS
    <3>2. /\ value[m] = (value[m-1] * Word) + b[(LimbCount - m) + 1]
          /\ up[m] = (up[m-1] * Word) + b[(LimbCount - m) + 1]
          /\ m-1 = l
      BY <1>5, <1>6, <3>1
    <3>3. value[m] = up[m]
      BY <3>2, <2>2
    <3> QED
      BY <3>1, <3>3
  <2> HIDE DEF S
  <2>3. 0 .. LimbCount \subseteq S
    BY <2>1, <2>2, BoundedInduction
  <2> QED
    BY <2>3 DEF S
<1>9. up[LimbCount] = n
  BY <1>1 DEF up
<1> QED
  BY <1>3, <1>7, <1>8, <1>9 DEF b
-----------------------------------------------------------------------------
(***************************************************************************)
(* The kernel's numbers stay within 0 .. P, through every round.           *)
(***************************************************************************)
Pairs == (0 .. P) \X (0 .. P)

LEMMA AddRange ==
  ASSUME NEW a \in 0 .. P, NEW b \in 0 .. P
  PROVE  FieldAdd(a, b) \in 0 .. P
<1> USE Numbers
<1>1. \A n \in Int : n % P \in 0 .. P-1
  BY DivMod
<1>2. (a + b - 1) % P \in 0 .. P-1
  BY <1>1
<1> QED
  BY <1>2 DEF FieldAdd

LEMMA PowerRange ==
  ASSUME NEW n \in 0 .. P
  PROVE  FifthPower(n) \in 0 .. P
<1> USE Numbers
<1>1. ASSUME NEW a \in Int, NEW b \in Int PROVE FieldMul(a, b) \in 0 .. P-1
  <2>1. a * b \in Int
    OBVIOUS
  <2> QED
    BY <2>1, DivMod DEF FieldMul
<1>2. FieldMul(n, n) \in 0 .. P-1
  BY <1>1
<1>3. FieldMul(FieldMul(n, n), FieldMul(n, n)) \in 0 .. P-1
  BY <1>1, <1>2
<1>4. FieldMul(FieldMul(FieldMul(n, n), FieldMul(n, n)), n) \in 0 .. P-1
  BY <1>1, <1>3
<1> QED
  BY <1>4 DEF FifthPower

LEMMA WrapRange ==
  ASSUME NEW c \in Int
  PROVE  WrapCoordinate(c) \in 0 .. P
<1> USE Numbers
<1>1. Uint32(c) \in 0 .. Word-1 /\ Uint32(-c) \in 0 .. Word-1
  BY DivMod DEF Uint32
<1> QED
  BY <1>1 DEF WrapCoordinate

LEMMA RoundRange ==
  ASSUME NEW s \in Pairs, NEW key \in 0 .. P, NEW c \in 0 .. P
  PROVE  Round(s, key, c) \in Pairs /\ LastRound(s, key) \in Pairs
<1>1. s[1] \in 0 .. P /\ s[2] \in 0 .. P
  BY DEF Pairs
<1>2. /\ FieldAdd(key, s[1]) \in 0 .. P
      /\ FieldAdd(FieldAdd(key, s[1]), c) \in 0 .. P
  BY <1>1, AddRange
<1>3. /\ FifthPower(FieldAdd(key, s[1])) \in 0 .. P
      /\ FifthPower(FieldAdd(FieldAdd(key, s[1]), c)) \in 0 .. P
  BY <1>2, PowerRange
<1>4. /\ FieldAdd(FifthPower(FieldAdd(key, s[1])), s[2]) \in 0 .. P
      /\ FieldAdd(FifthPower(FieldAdd(FieldAdd(key, s[1]), c)), s[2]) \in 0 .. P
  BY <1>1, <1>3, AddRange
<1> QED
  BY <1>1, <1>4 DEF Round, LastRound, Pairs

LEMMA RoundConstants == Len(C) \in Nat /\ \A j \in 1 .. Len(C) : C[j] \in 0 .. P
<1>1. C \in Seq(0 .. P-1) /\ P \in Nat
  BY CallAssumption
<1> QED
  BY <1>1

LEMMA MixRange ==
  ASSUME NEW s \in Pairs, NEW key \in 0 .. P
  PROVE  MixState(s, key) \in Pairs
<1> DEFINE N == Len(C)
           D == Pairs
           step == [p \in (1 .. N) \X D |-> Round(p[2], key, C[p[1]])]
           Eq(f) == f = [j \in 0 .. N |->
                           IF j = 0 THEN s ELSE Round(f[j-1], key, C[j])]
           after == CHOOSE f : Eq(f)
<1>1. N \in Nat /\ \A j \in 1 .. N : C[j] \in 0 .. P
  BY RoundConstants
<1> HIDE DEF N, D
<1>2. \A j \in 1 .. N, t \in D : Round(t, key, C[j]) \in D
  BY <1>1, RoundRange DEF D
<1>3. step \in [(1 .. N) \X D -> D]
  BY <1>2
<1>4. \A j \in 1 .. N, t \in D : step[<<j, t>>] = Round(t, key, C[j])
  OBVIOUS
<1> HIDE DEF step
<1>5. PICK f : Iterates(f, N, D, s, step)
  <2>1. s \in D
    BY DEF D
  <2> QED
    BY <1>1, <1>3, <2>1, Recursion
<1>6. Eq(f)
  <2>1. f \in [0 .. N -> D] /\ f[0] = s
    BY <1>5 DEF Iterates
  <2>2. ASSUME NEW j \in 0 .. N
        PROVE  f[j] = IF j = 0 THEN s ELSE Round(f[j-1], key, C[j])
    <3>1. CASE j = 0
      BY <2>1, <3>1
    <3>2. CASE j # 0
      <4>1. j \in 1 .. N /\ f[j-1] \in D
        BY <3>2, <2>1, <1>1
      <4>2. f[j] = step[<<j, f[j-1]>>]
        BY <4>1, <1>5 DEF Iterates
      <4> QED
        BY <4>1, <4>2, <1>4, <3>2
    <3> QED
      BY <3>1, <3>2
  <2> QED
    BY <2>1, <2>2
<1>7. Eq(after)
  BY <1>6, Zenon
<1>8. MixState(s, key) = LastRound(after[N], key)
  BY Zenon DEF MixState, N
<1> HIDE DEF after
<1>9. after[N] \in D
  <2> DEFINE S == {j \in 0 .. N : after[j] \in D}
  <2>1. 0 \in S
    BY <1>1, <1>7 DEF D
  <2>2. ASSUME NEW j \in 0 .. N-1, j \in S PROVE j+1 \in S
    <3>1. PICK m \in 1 .. N : m = j+1
      BY <1>1
    <3>2. after[m] = Round(after[m-1], key, C[m]) /\ m-1 = j
      BY <1>1, <1>7, <3>1
    <3>3. after[m] \in D
      BY <1>2, <2>2, <3>2
    <3> QED
      BY <3>1, <3>3, <1>1
  <2> HIDE DEF S
  <2>3. 0 .. N \subseteq S
    BY <1>1, <2>1, <2>2, BoundedInduction
  <2> QED
    BY <1>1, <2>3 DEF S
<1> QED
  <2>1. 0 \in 0 .. P
    BY Numbers
  <2> QED
    BY <1>8, <1>9, <2>1, RoundRange DEF D

LEMMA HashRange ==
  ASSUME NEW px \in Int, NEW py \in Int, NEW key \in 0 .. P
  PROVE  KernelHash(px, py, key) \in 0 .. P
<1> USE Numbers
<1> DEFINE s == ColumnState(px, key)
           l == FieldAdd(s[1], WrapCoordinate(py))
<1>1. WrapCoordinate(px) \in 0 .. P /\ WrapCoordinate(py) \in 0 .. P
  BY WrapRange
<1>2. FieldAdd(0, WrapCoordinate(px)) \in 0 .. P
  BY <1>1, AddRange
<1>3. <<FieldAdd(0, WrapCoordinate(px)), 0>> \in Pairs
  BY <1>2 DEF Pairs
<1>4. s \in Pairs
  BY <1>3, MixRange DEF ColumnState
<1>5. s[1] \in 0 .. P /\ s[2] \in 0 .. P
  BY <1>4 DEF Pairs
<1>6. l \in 0 .. P
  BY <1>1, <1>5, AddRange
<1>7. <<l, s[2]>> \in Pairs
  BY <1>5, <1>6 DEF Pairs
<1>8. MixState(<<l, s[2]>>, key) \in Pairs
  BY <1>7, MixRange
<1> QED
  BY <1>8 DEF KernelHash, Pairs
-----------------------------------------------------------------------------
(***************************************************************************)
(* Work items.  A stored hash is below the threshold, so below P: the host *)
(* makes of an item the very location the kernel hashed.                   *)
(***************************************************************************)
LEMMA CallTypes ==
  ASSUME NEW c \in Calls
  PROVE  /\ c.x \in Int /\ c.y \in Int
         /\ c.side \in 0 .. Word-1 /\ c.rarity \in 0 .. Word-1
         /\ c.key \in 0 .. Word-1
         /\ c.side \in Nat /\ c.rarity \in Nat /\ c.key \in 0 .. P
BY CallAssumption, Numbers

LEMMA ThresholdRange ==
  ASSUME NEW c \in Calls, c.rarity # 0
  PROVE  Threshold(c) \in 0 .. P
<1> USE Numbers, CallTypes
<1> DEFINE d == c.rarity
           q == P \div d
           r == P % d
<1>1. d \in Nat \ {0}
  OBVIOUS
<1> HIDE DEF d
<1>2. r \in 0 .. d-1 /\ q \in Int /\ P = (d * q) + r
  BY <1>1, DivMod
<1>3. q >= 0
  BY <1>1
<1> HIDE DEF q, r
<1>4. PICK e \in Nat : d = e + 1
  <2>1. d - 1 \in Nat /\ d = (d - 1) + 1
    BY <1>1
  <2> QED
    BY <2>1
<1>5. d * q = (e * q) + q /\ e * q \in Nat
  BY <1>2, <1>3, <1>4
<1>6. q \in 0 .. P
  BY <1>2, <1>3, <1>5
<1> QED
  BY <1>6 DEF Threshold, q, d

LEMMA ItemFacts ==
  ASSUME NEW c \in Calls, c.rarity # 0, NEW px \in Int, NEW py \in Int,
         NEW h, h = KernelHash(px, py, c.key)
  PROVE  /\ h \in 0 .. P
         /\ IsPlanet(h, Threshold(c)) =>
              /\ ItemAt(c, px, py) \in Stored
              /\ Location(px, py, h) \in LocationType
              /\ Collected(ItemAt(c, px, py)) = Location(px, py, h)
         /\ ~ IsPlanet(h, Threshold(c)) => ItemAt(c, px, py) = NoPlanet
         /\ ItemAt(c, px, py) \in Items /\ ItemAt(c, px, py) # Junk
<1> USE Numbers
<1> DEFINE t == Threshold(c)
           item == ItemAt(c, px, py)
<1>1. t \in 0 .. P /\ c.key \in 0 .. P
  BY ThresholdRange, CallTypes
<1> HIDE DEF t
<1>2. h \in 0 .. P
  BY <1>1, HashRange
<1>3. /\ ToMpz(FromMpz(c.key)) = c.key
      /\ ToMpz(FromMpz(t)) = t
      /\ FromMpz(h) \in [1 .. LimbCount -> 0 .. Word-1]
      /\ ToMpz(FromMpz(h)) = h
  BY <1>1, <1>2, RoundTrip
<1>4. item = IF IsPlanet(h, t) THEN Location(px, py, FromMpz(h)) ELSE NoPlanet
  BY <1>3 DEF ItemAt, t
<1> HIDE DEF item
<1>5. ASSUME IsPlanet(h, t)
      PROVE  /\ item \in Stored
             /\ Location(px, py, h) \in LocationType
             /\ Collected(item) = Location(px, py, h)
  <2>1. h \in 0 .. P-1
    BY <1>1, <1>2, <1>5 DEF IsPlanet
  <2>2. item = [x |-> px, y |-> py, hash |-> FromMpz(h)]
    BY <1>4, <1>5 DEF Location
  <2>3. item \in Stored
    BY <1>3, <2>1, <2>2 DEF Stored
  <2>4. item # Junk
    BY <2>3, NumberAssumption
  <2>5. Collected(item) = Location(px, py, h)
    BY <1>3, <2>2, <2>4 DEF Collected
  <2>6. Location(px, py, h) \in LocationType
    BY <2>1 DEF Location, LocationType
  <2> QED
    BY <2>3, <2>5, <2>6
<1>6. ~ IsPlanet(h, t) => item = NoPlanet
  BY <1>4
<1>7. item \in Items /\ item # Junk
  BY <1>5, <1>6, NumberAssumption DEF Items
<1> QED
  BY <1>2, <1>5, <1>6, <1>7 DEF t, item
-----------------------------------------------------------------------------
(***************************************************************************)
(* The geometry of a launch.  As long as nothing wraps, the row of an item *)
(* is what it says, and its index is its place in the chunk.               *)
(***************************************************************************)
LEMMA WordRange ==
  ASSUME NEW n \in Int
  PROVE  /\ Uint32(n) \in 0 .. Word-1
         /\ n \in 0 .. Word-1 => Uint32(n) = n
<1>1. Word \in Nat \ {0}
  BY Numbers
<1>2. n % Word \in 0 .. Word-1
  BY <1>1, DivMod
<1>3. ASSUME n \in 0 .. Word-1 PROVE n % Word = n
  <2>1. ((Word * 0) + n) % Word = n
    BY <1>1, <1>3, ModUnique
  <2>2. (Word * 0) + n = n
    BY <1>1
  <2> QED
    BY <2>1, <2>2
<1> QED
  BY <1>2, <1>3 DEF Uint32

LEMMA GroupFacts ==
  ASSUME NEW c \in Calls, Launchable(c), NEW k \in Groups(c)
  PROVE  /\ GridSizeY(c) \in Nat
         /\ k[1] \in 0 .. c.side-1
         /\ k[2] \in 0 .. GridSizeY(c)-1
         /\ k[3] \in 0 .. BlockSize-1
         /\ k = <<k[1], k[2], k[3]>>
         /\ StartSizeY(k) \in 0 .. Word-1
         /\ \A n \in Nat : NextRow(k, n) \in 0 .. Word-1
<1> USE Numbers
<1>1. GridSizeY(c) \in Nat
  BY LaunchAssumption DEF Launchable
<1>2. /\ k[1] \in 0 .. c.side-1 /\ k[2] \in 0 .. GridSizeY(c)-1
      /\ k[3] \in 0 .. BlockSize-1 /\ k = <<k[1], k[2], k[3]>>
  BY DEF Groups
<1>3. /\ k[2] \in Nat /\ k[3] \in Nat
  BY <1>1, <1>2
<1>4. k[2] * (BlockDimY + ThreadWorkSize) + ThreadWorkSize * k[3] \in Int
  BY <1>3 DEF BlockDimY
<1>5. StartSizeY(k) \in 0 .. Word-1
  BY <1>4, WordRange DEF StartSizeY
<1>6. ASSUME NEW n \in Nat PROVE NextRow(k, n) \in 0 .. Word-1
  <2>1. StartSizeY(k) + n \in Int
    BY <1>5
  <2> QED
    BY <2>1, WordRange DEF NextRow
<1> QED
  BY <1>1, <1>2, <1>5, <1>6

LEMMA RowFacts ==
  ASSUME NEW c \in Calls, Launchable(c), RowsFit(c),
         NEW k \in Groups(c), NEW n \in 0 .. ThreadWorkSize-1
  PROVE  /\ NextRow(k, n) = StartSizeY(k) + n
         /\ StartSizeY(k) = k[2] * (BlockDimY + ThreadWorkSize)
                              + ThreadWorkSize * k[3]
<1> USE Numbers
<1> DEFINE raw == k[2] * (BlockDimY + ThreadWorkSize) + ThreadWorkSize * k[3]
<1>1. k[2] \in Nat /\ k[3] \in Nat
  BY GroupFacts
<1>2. raw \in Nat
  BY <1>1 DEF BlockDimY
<1>3. raw + n < Word
  BY DEF RowsFit
<1>4. StartSizeY(k) = Uint32(raw) /\ NextRow(k, n) = Uint32(StartSizeY(k) + n)
  BY DEF StartSizeY, NextRow
<1> HIDE DEF raw
<1>5. StartSizeY(k) = raw
  BY <1>2, <1>3, <1>4, WordRange
<1>6. NextRow(k, n) = raw + n
  BY <1>2, <1>3, <1>4, <1>5, WordRange
<1> QED
  BY <1>5, <1>6 DEF raw

LEMMA BatchFacts ==
  ASSUME NEW c \in Calls, NoWrap(c)
  PROVE  BatchSize(c.side) = c.side * c.side /\ c.side * c.side \in Nat
<1>1. c.side * c.side \in 0 .. Word-1
  BY Numbers, CallTypes DEF NoWrap
<1> QED
  BY <1>1, WordRange DEF BatchSize

LEMMA IndexFacts ==
  ASSUME NEW c \in Calls, Launchable(c), NoWrap(c),
         NEW k \in Groups(c), NEW n \in Nat, NextRow(k, n) < c.side
  PROVE  /\ NextRow(k, n) \in 0 .. c.side-1
         /\ ResultIdx(c, k, n) = k[1] + c.side * NextRow(k, n)
         /\ ResultIdx(c, k, n) \in 0 .. (c.side * c.side)-1
<1> USE Numbers
<1> DEFINE row == NextRow(k, n)
           idx == k[1] + c.side * row
<1>1. row \in 0 .. c.side-1 /\ k[1] \in 0 .. c.side-1 /\ c.side \in Nat
  BY GroupFacts, CallTypes
<1>2. ResultIdx(c, k, n) = Uint32(idx)
  BY DEF ResultIdx
<1> HIDE DEF row
<1>3. idx \in Nat /\ idx < c.side * c.side
  BY <1>1, PlaceInside
<1>4. c.side * c.side < Word /\ c.side * c.side \in Nat
  BY BatchFacts DEF NoWrap
<1> HIDE DEF idx
<1>5. Uint32(idx) = idx
  BY <1>3, <1>4, WordRange
<1> QED
  BY <1>1, <1>2, <1>3, <1>4, <1>5 DEF row, idx
-----------------------------------------------------------------------------
(***************************************************************************)
(* Every step preserves the invariant.                                     *)
(***************************************************************************)
LEMMA InitInv == Init => IInv
<1> SUFFICES ASSUME Init PROVE IInv
  OBVIOUS
<1>1. TypeOK
  <2>1. result \in Seq(LocationType \cup {Junk}) /\ base \in 0 .. Len(result)
    BY DEF Init
  <2>2. batch \in Buffers /\ copy \in Buffers
    BY DEF Init, Buffers
  <2> QED
    BY <2>1, <2>2 DEF Init, TypeOK
<1>2. StageInv /\ KernelInv /\ CopyInv /\ FoundInv /\ CoveredCorrect
  BY DEF Init, StageInv, KernelInv, CopyInv, FoundInv, CoveredCorrect
<1> QED
  BY <1>1, <1>2 DEF IInv

(* The buffers when there is a cache. *)
LEMMA BufferFacts ==
  ASSUME TypeOK, cached # NoCache
  PROVE  /\ cached \in 0 .. Word-1
         /\ batch \in [0 .. BatchSize(cached)-1 -> Items]
         /\ copy \in [0 .. BatchSize(cached)-1 -> Items]
BY DEF TypeOK, Buffers

(* A step that leaves a buffer and its side length alone keeps its type. *)
LEMMA BuffersKept ==
  ASSUME TypeOK, UNCHANGED cached
  PROVE  Buffers' = Buffers
BY DEF Buffers

LEMMA MineSingleInv ==
  ASSUME IInv, NEW c \in Calls, MineSingle(c)
  PROVE  IInv'
<1> USE DEF MineSingle, Contract!Begin
<1>1. stage = "idle" /\ done = << >>
  BY DEF IInv, StageInv
<1>2. TypeOK'
  BY BuffersKept DEF IInv, TypeOK
<1>3. StageInv'
  BY <1>1 DEF StageInv
<1>4. KernelInv' /\ CopyInv' /\ FoundInv' /\ CoveredCorrect'
  BY DEF KernelInv, CopyInv, FoundInv, CoveredCorrect
<1> QED
  BY <1>2, <1>3, <1>4 DEF IInv

LEMMA BenchmarkAgainInv ==
  ASSUME IInv, BenchmarkAgain
  PROVE  IInv'
<1> USE DEF BenchmarkAgain, Contract!BeginAgain
<1>1. stage = "idle" /\ done = << >> /\ call \in Calls
  BY DEF IInv, StageInv
<1>2. TypeOK'
  <2>1. Len(result) \in 0 .. Len(result)
    BY DEF IInv, TypeOK
  <2> QED
    BY <2>1, BuffersKept DEF IInv, TypeOK
<1>3. StageInv'
  BY <1>1 DEF StageInv
<1>4. KernelInv' /\ CopyInv' /\ FoundInv' /\ CoveredCorrect'
  BY DEF KernelInv, CopyInv, FoundInv, CoveredCorrect
<1> QED
  BY <1>2, <1>3, <1>4 DEF IInv

LEMMA InitializeInv ==
  ASSUME IInv, Initialize
  PROVE  IInv'
<1> USE DEF Initialize, callVars
<1>1. TypeOK'
  BY BuffersKept DEF IInv, TypeOK
<1>2. StageInv'
  BY DEF IInv, StageInv
<1>3. KernelInv' /\ CopyInv' /\ FoundInv' /\ CoveredCorrect'
  BY DEF IInv, StageInv, KernelInv, CopyInv, FoundInv, CoveredCorrect
<1> QED
  BY <1>1, <1>2, <1>3 DEF IInv

LEMMA PrepareCacheInv ==
  ASSUME IInv, PrepareCache
  PROVE  IInv'
<1> USE DEF PrepareCache, callVars
<1>1. host = "mining" /\ call \in Calls /\ done = << >> /\ Len(result) = base
  BY DEF IInv, StageInv, FoundInv
<1>2. cached' = call.side /\ call.side \in 0 .. Word-1
  BY <1>1, CallTypes DEF Reusable
<1>3. batch' \in Buffers' /\ copy' \in Buffers'
  <2>1. CASE Reusable
    <3>1. UNCHANGED <<cached, batch, copy>>
      BY <2>1
    <3> QED
      BY <3>1, BuffersKept DEF IInv, TypeOK
  <2>2. CASE ~ Reusable
    <3>1. cached' # NoCache
      BY <1>2, NumberAssumption
    <3>2. /\ batch' = Uninitialized(BatchSize(cached'))
          /\ copy' = Uninitialized(BatchSize(cached'))
      BY <1>2, <2>2
    <3>3. Uninitialized(BatchSize(cached')) \in [0 .. BatchSize(cached')-1 -> Items]
      BY DEF Uninitialized, Items
    <3> QED
      BY <3>1, <3>2, <3>3 DEF Buffers
  <2> QED
    BY <2>1, <2>2
<1>4. TypeOK'
  BY <1>2, <1>3 DEF IInv, TypeOK
<1>5. StageInv'
  BY <1>1, <1>2 DEF StageInv
<1>6. KernelInv' /\ CopyInv' /\ FoundInv' /\ CoveredCorrect'
  BY <1>1 DEF KernelInv, CopyInv, FoundInv, CoveredCorrect
<1> QED
  BY <1>4, <1>5, <1>6 DEF IInv

LEMMA LaunchInv ==
  ASSUME IInv, Launch
  PROVE  IInv'
<1> USE DEF Launch, callVars
<1>1. host = "mining" /\ call \in Calls /\ cached = call.side /\ Len(result) = base
  BY DEF IInv, StageInv, FoundInv
<1>2. TypeOK'
  BY BuffersKept DEF IInv, TypeOK
<1>3. done' = [k \in Groups(call) |-> 0] /\ 0 \in 0 .. ThreadWorkSize
  BY Numbers
<1>4. done' \in [Groups(call) -> 0 .. ThreadWorkSize]
  BY <1>3
<1>5. StageInv'
  BY <1>1, <1>4 DEF StageInv
<1>6. KernelInv'
  BY <1>3 DEF KernelInv
<1>7. CopyInv' /\ FoundInv' /\ CoveredCorrect'
  BY <1>1 DEF CopyInv, FoundInv, CoveredCorrect
<1> QED
  BY <1>2, <1>5, <1>6, <1>7 DEF IInv

LEMMA CudaErrorInv ==
  ASSUME IInv, CudaError
  PROVE  IInv'
<1> USE DEF CudaError
<1>1. host = "mining" /\ call \in Calls
  BY DEF IInv, StageInv
<1>2. TypeOK'
  BY BuffersKept DEF IInv, TypeOK
<1>3. StageInv' /\ KernelInv' /\ CopyInv' /\ FoundInv' /\ CoveredCorrect'
  BY <1>1 DEF StageInv, KernelInv, CopyInv, FoundInv, CoveredCorrect
<1> QED
  BY <1>2, <1>3 DEF IInv

(***************************************************************************)
(* An item depends on its location alone: two groups that write the same   *)
(* place of the buffer write the same.                                     *)
(***************************************************************************)
LEMMA WorkItemAt ==
  ASSUME NEW c \in Calls, Launchable(c), RowsFit(c),
         NEW k \in Groups(c), NEW n \in 0 .. ThreadWorkSize-1
  PROVE  WorkItem(c, k, n) = ItemAt(c, c.x + k[1], c.y + NextRow(k, n))
<1>1. NextRow(k, n) = StartSizeY(k) + n /\ StartSizeY(k) \in Int /\ c.y \in Int
  BY RowFacts, GroupFacts, CallTypes
<1>2. c.y + StartSizeY(k) + n = c.y + NextRow(k, n)
  BY <1>1
<1> QED
  BY <1>2 DEF WorkItem

LEMMA SameItem ==
  ASSUME NEW c \in Calls, Launchable(c), NoWrap(c), RowsFit(c),
         NEW k \in Groups(c), NEW n \in 0 .. ThreadWorkSize-1,
         NEW m \in Groups(c), NEW l \in 0 .. ThreadWorkSize-1,
         NextRow(k, n) < c.side, NextRow(m, l) < c.side,
         ResultIdx(c, k, n) = ResultIdx(c, m, l)
  PROVE  k[1] = m[1] /\ NextRow(k, n) = NextRow(m, l)
         /\ WorkItem(c, k, n) = WorkItem(c, m, l)
<1> USE Numbers
<1>1. /\ NextRow(k, n) \in 0 .. c.side-1
      /\ ResultIdx(c, k, n) = k[1] + c.side * NextRow(k, n)
  BY IndexFacts
<1>2. /\ NextRow(m, l) \in 0 .. c.side-1
      /\ ResultIdx(c, m, l) = m[1] + c.side * NextRow(m, l)
  BY IndexFacts
<1>3. /\ k[1] \in 0 .. c.side-1 /\ m[1] \in 0 .. c.side-1
      /\ c.side \in Nat \ {0}
  BY GroupFacts, CallTypes DEF Launchable
<1>4. k[1] = m[1] /\ NextRow(k, n) = NextRow(m, l)
  <2> DEFINE s == c.side
             a == k[1]
             b == NextRow(k, n)
             d == m[1]
             e == NextRow(m, l)
  <2>1. /\ s \in Nat \ {0} /\ a \in 0 .. s-1 /\ d \in 0 .. s-1
        /\ b \in Int /\ e \in Int
    BY <1>1, <1>2, <1>3
  <2>2. a + (s * b) = d + (s * e)
    BY <1>1, <1>2, Zenon
  <2> HIDE DEF s, a, b, d, e
  <2>3. a = d /\ b = e
    BY <2>1, <2>2, PlaceUnique
  <2> QED
    BY <2>3 DEF a, b, d, e
<1> QED
  BY <1>4, WorkItemAt

LEMMA MineItemInv ==
  ASSUME IInv, NEW k \in DOMAIN done, MineItem(k)
  PROVE  IInv'
<1> USE Numbers
<1> USE DEF MineItem, Advance, callVars
<1> DEFINE n == done[k]
           item == WorkItem(call, k, n)
<1>1. /\ stage = "kernel" /\ call \in Calls /\ call.rarity # 0
      /\ Launchable(call) /\ cached = call.side
      /\ done \in [Groups(call) -> 0 .. ThreadWorkSize]
      /\ Len(result) = base /\ host = "mining"
  BY DEF IInv, StageInv, FoundInv
<1>2. k \in Groups(call) /\ n \in 0 .. ThreadWorkSize
  BY <1>1
<1>3. n # ThreadWorkSize /\ NextRow(k, n) < call.side
  <2>1. call.side \in Nat /\ n \in Nat
    BY <1>1, <1>2, CallTypes
  <2>2. \A m \in Nat : NextRow(k, m) \in 0 .. Word-1
    BY ONLY <1>1, <1>2, GroupFacts
  <2>3. NextRow(k, n) \in 0 .. Word-1
    BY ONLY <2>1, <2>2
  <2> QED
    BY <2>1, <2>3 DEF Finished
<1>4. n \in 0 .. ThreadWorkSize-1
  BY <1>2, <1>3
<1> HIDE DEF n
<1>5. cached # NoCache
  <2>1. call.side \in 0 .. Word-1
    BY <1>1, CallTypes
  <2> QED
    BY <1>1, <2>1, NumberAssumption
<1>6. TypeOK'
  <2>1. batch \in [0 .. BatchSize(cached)-1 -> Items]
    BY <1>5, BufferFacts DEF IInv
  <2>2. item \in Items
    <3>1. /\ call.x + k[1] \in Int
          /\ call.y + StartSizeY(k) + n \in Int
      <4>1. /\ k[1] \in 0 .. call.side-1 /\ StartSizeY(k) \in 0 .. Word-1
            /\ call.x \in Int /\ call.y \in Int /\ call.side \in Nat
        BY <1>1, <1>2, GroupFacts, CallTypes
      <4> QED
        BY <4>1, <1>2
    <3> QED
      BY <1>1, <3>1, ItemFacts DEF WorkItem
  <2> HIDE DEF item
  <2>3. batch' \in [0 .. BatchSize(cached)-1 -> Items]
    BY <2>1, <2>2 DEF item, n
  <2>4. batch' \in Buffers'
    BY <1>5, <2>3 DEF Buffers
  <2> QED
    BY <2>4, BuffersKept DEF IInv, TypeOK
<1>7. done' \in [Groups(call) -> 0 .. ThreadWorkSize]
      /\ done'[k] = n+1 /\ \A m \in Groups(call) : m # k => done'[m] = done[m]
  <2>1. done' = [done EXCEPT ![k] = n + 1] /\ n + 1 \in 0 .. ThreadWorkSize
    BY <1>4 DEF n
  <2> QED
    BY <1>1, <1>2, <2>1
<1>8. StageInv'
  BY <1>1, <1>7 DEF StageInv
<1>9. KernelInv'
  <2> SUFFICES ASSUME NoWrap(call), RowsFit(call), NEW m \in Groups(call),
                      NEW l \in 0 .. done'[m]-1
               PROVE  /\ NextRow(m, l) < call.side
                      /\ batch'[ResultIdx(call, m, l)] = WorkItem(call, m, l)
    BY DEF KernelInv
  <2>1. CASE m = k /\ l = n
    <3>1. ResultIdx(call, k, n) \in DOMAIN batch
      <4>1. ResultIdx(call, k, n) \in 0 .. (call.side * call.side)-1
        BY <1>1, <1>2, <1>3, IndexFacts
      <4>2. BatchSize(call.side) = call.side * call.side
        BY <1>1, BatchFacts
      <4>3. DOMAIN batch = 0 .. BatchSize(call.side)-1
        BY <1>1, <1>5, BufferFacts DEF IInv
      <4> QED
        BY <4>1, <4>2, <4>3
    <3>2. batch'[ResultIdx(call, k, n)] = item
      BY <3>1 DEF n
    <3> QED
      BY <2>1, <3>2, <1>3
  <2>2. CASE ~ (m = k /\ l = n)
    <3>1. l \in 0 .. done[m]-1 /\ l \in 0 .. ThreadWorkSize-1
      <4>1. CASE m = k
        <5>1. done[m] = n /\ l \in 0 .. n /\ l # n
          BY <4>1, <2>2, <1>4, <1>7 DEF n
        <5> QED
          BY <5>1, <1>4
      <4>2. CASE m # k
        <5>1. done'[m] = done[m] /\ done[m] \in 0 .. ThreadWorkSize
          BY <4>2, <1>1, <1>7
        <5> QED
          BY <5>1
      <4> QED
        BY <4>1, <4>2
    <3>2. /\ NextRow(m, l) < call.side
          /\ batch[ResultIdx(call, m, l)] = WorkItem(call, m, l)
      BY <1>1, <3>1 DEF IInv, KernelInv
    <3>3. ResultIdx(call, m, l) \in DOMAIN batch
      <4>1. ResultIdx(call, m, l) \in 0 .. (call.side * call.side)-1
        BY <1>1, <3>1, <3>2, IndexFacts
      <4>2. BatchSize(call.side) = call.side * call.side
        BY <1>1, BatchFacts
      <4>3. DOMAIN batch = 0 .. BatchSize(call.side)-1
        BY <1>1, <1>5, BufferFacts DEF IInv
      <4> QED
        BY <4>1, <4>2, <4>3
    <3>4. ResultIdx(call, k, n) = ResultIdx(call, m, l) =>
            item = WorkItem(call, m, l)
      BY <1>1, <1>2, <1>3, <1>4, <3>1, <3>2, SameItem
    <3> HIDE DEF item
    <3>5. batch'[ResultIdx(call, m, l)] =
            IF ResultIdx(call, m, l) = ResultIdx(call, k, n)
            THEN item ELSE batch[ResultIdx(call, m, l)]
      BY <3>3 DEF item, n
    <3> QED
      BY <3>2, <3>4, <3>5
  <2> QED
    BY <2>1, <2>2
<1>10. CopyInv' /\ FoundInv' /\ CoveredCorrect'
  BY <1>1 DEF CopyInv, FoundInv, CoveredCorrect
<1> QED
  BY <1>6, <1>8, <1>9, <1>10 DEF IInv

(***************************************************************************)
(* When every group has finished, the kernel has stored the item of every  *)
(* location that a covering launch reaches.                                *)
(***************************************************************************)
LEMMA BufferFilled ==
  ASSUME IInv, stage = "kernel", KernelDone, Proper(call),
         NEW a \in 0 .. call.side-1, NEW b \in 0 .. call.side-1
  PROVE  batch[a + call.side * b] = ItemAt(call, call.x + a, call.y + b)
<1> USE Numbers
<1>1. /\ call \in Calls /\ Launchable(call)
      /\ done \in [Groups(call) -> 0 .. ThreadWorkSize]
      /\ NoWrap(call) /\ RowsFit(call) /\ Covered(call)
      /\ call.side \in Nat
  BY CallTypes DEF IInv, StageInv, Proper
<1>2. PICK g \in Groups(call), n \in 0 .. ThreadWorkSize-1 : NextRow(g, n) = b
  BY <1>1 DEF Covered
<1> DEFINE k == <<a, g[2], g[3]>>
<1>3. k \in Groups(call)
  BY <1>1, <1>2, GroupFacts DEF Groups
<1>4. NextRow(k, n) = b /\ k[1] = a
  BY <1>2 DEF NextRow, StartSizeY
<1> HIDE DEF k
<1>5. n \in 0 .. done[k]-1
  <2>1. done[k] \in 0 .. ThreadWorkSize
    BY <1>1, <1>3
  <2>2. CASE done[k] = ThreadWorkSize
    BY <2>2
  <2>3. CASE done[k] # ThreadWorkSize
    <3>1. done[k] \in 0 .. ThreadWorkSize-1
      BY <2>1, <2>3
    <3>2. NextRow(k, done[k]) >= call.side
      <4>1. Finished(call, k, done[k])
        BY <1>1, <1>3 DEF KernelDone
      <4> QED
        BY <4>1, <2>3 DEF Finished
    <3>3. NextRow(k, done[k]) = StartSizeY(k) + done[k]
      BY <1>1, <1>3, <3>1, RowFacts
    <3>4. b = StartSizeY(k) + n /\ StartSizeY(k) \in Int
      BY <1>1, <1>3, <1>4, RowFacts, GroupFacts
    <3> QED
      BY <1>1, <3>1, <3>2, <3>3, <3>4
  <2> QED
    BY <2>2, <2>3
<1>6. batch[ResultIdx(call, k, n)] = WorkItem(call, k, n)
  BY <1>1, <1>3, <1>5 DEF IInv, KernelInv
<1>7. NextRow(k, n) < call.side
  BY <1>1, <1>4
<1>8. ResultIdx(call, k, n) = a + call.side * b
  <2>1. ResultIdx(call, k, n) = k[1] + call.side * NextRow(k, n)
    BY <1>1, <1>3, <1>7, IndexFacts
  <2> QED
    BY <2>1, <1>4
<1>9. WorkItem(call, k, n) = ItemAt(call, call.x + a, call.y + b)
  BY <1>1, <1>3, <1>4, WorkItemAt
<1> QED
  BY <1>6, <1>8, <1>9

(* The planets at places before n, and those of the chunk, one by one. *)
PlanetAt(c, a, b) ==
  IsPlanet(KernelHash(c.x + a, c.y + b, c.key), Threshold(c))

LocationAt(c, a, b) ==
  Location(c.x + a, c.y + b, KernelHash(c.x + a, c.y + b, c.key))

LEMMA BeforeMember ==
  ASSUME NEW c \in Calls, NEW n, NEW p
  PROVE  p \in PlanetsBefore(c, n) <=>
           \E a, b \in 0 .. c.side-1 :
             a + c.side * b < n /\ PlanetAt(c, a, b) /\ p = LocationAt(c, a, b)
<1> DEFINE S == (0 .. c.side-1) \X (0 .. c.side-1)
           T(a, b) == /\ a + c.side * b < n
                      /\ PlanetAt(c, a, b) /\ p = LocationAt(c, a, b)
<1>1. p \in PlanetsBefore(c, n) <=> \E q \in S : T(q[1], q[2])
  BY DEF PlanetsBefore, PlanetAt, LocationAt
<1>2. ASSUME NEW a \in 0 .. c.side-1, NEW b \in 0 .. c.side-1, T(a, b)
      PROVE  \E q \in S : T(q[1], q[2])
  <2>1. <<a, b>> \in S /\ T(<<a, b>>[1], <<a, b>>[2])
    BY <1>2
  <2> QED
    BY <2>1
<1>3. ASSUME NEW q \in S, T(q[1], q[2])
      PROVE  \E a, b \in 0 .. c.side-1 : T(a, b)
  <2>1. q[1] \in 0 .. c.side-1 /\ q[2] \in 0 .. c.side-1
    OBVIOUS
  <2> QED
    BY <1>3, <2>1
<1> HIDE DEF S, T
<1>4. p \in PlanetsBefore(c, n) <=> \E a, b \in 0 .. c.side-1 : T(a, b)
  BY <1>1, <1>2, <1>3
<1> QED
  BY <1>4 DEF T

LEMMA PlanetsMember ==
  ASSUME NEW c \in Calls, NEW p
  PROVE  p \in Planets(c) <=>
           \E a, b \in 0 .. c.side-1 :
             PlanetAt(c, a, b) /\ p = LocationAt(c, a, b)
<1> DEFINE S == (c.x .. c.x + c.side - 1) \X (c.y .. c.y + c.side - 1)
           T(q) == /\ IsPlanet(KernelHash(q[1], q[2], c.key), Threshold(c))
                   /\ p = Location(q[1], q[2], KernelHash(q[1], q[2], c.key))
<1>1. p \in Planets(c) <=> \E q \in S : T(q)
  BY DEF Planets
<1>2. ASSUME NEW a \in 0 .. c.side-1, NEW b \in 0 .. c.side-1
      PROVE  /\ <<c.x + a, c.y + b>> \in S
             /\ <<c.x + a, c.y + b>>[1] = c.x + a
             /\ <<c.x + a, c.y + b>>[2] = c.y + b
  BY CallTypes
<1>3. ASSUME NEW q \in S
      PROVE  \E a, b \in 0 .. c.side-1 : q[1] = c.x + a /\ q[2] = c.y + b
  <2>1. /\ q[1] - c.x \in 0 .. c.side-1 /\ q[1] = c.x + (q[1] - c.x)
        /\ q[2] - c.y \in 0 .. c.side-1 /\ q[2] = c.y + (q[2] - c.y)
    BY CallTypes
  <2> QED
    BY <2>1
<1> HIDE DEF S
<1>4. ASSUME NEW q \in S, T(q)
      PROVE  \E a, b \in 0 .. c.side-1 : PlanetAt(c, a, b) /\ p = LocationAt(c, a, b)
  BY <1>3, <1>4 DEF PlanetAt, LocationAt
<1>5. ASSUME NEW a \in 0 .. c.side-1, NEW b \in 0 .. c.side-1,
             PlanetAt(c, a, b), p = LocationAt(c, a, b)
      PROVE  \E q \in S : T(q)
  <2>1. T(<<c.x + a, c.y + b>>)
    BY <1>2, <1>5 DEF PlanetAt, LocationAt
  <2> QED
    BY <1>2, <2>1
<1> QED
  BY <1>1, <1>4, <1>5

LEMMA BeforeNone ==
  ASSUME NEW c \in Calls
  PROVE  PlanetsBefore(c, 0) = {}
<1>1. ASSUME NEW a \in 0 .. c.side-1, NEW b \in 0 .. c.side-1
      PROVE  ~ (a + c.side * b < 0)
  <2>1. c.side \in Nat /\ a \in Nat /\ b \in Nat
    BY CallTypes
  <2>2. c.side * b \in Nat
    BY <2>1
  <2> QED
    BY <2>1, <2>2
<1>2. \A p : p \notin PlanetsBefore(c, 0)
  BY <1>1, BeforeMember
<1> QED
  BY <1>2

LEMMA BeforeAll ==
  ASSUME NEW c \in Calls
  PROVE  PlanetsBefore(c, c.side * c.side) = Planets(c)
<1>1. ASSUME NEW a \in 0 .. c.side-1, NEW b \in 0 .. c.side-1
      PROVE  a + c.side * b < c.side * c.side
  <2>1. c.side \in Nat /\ b \in Nat /\ b < c.side
    BY CallTypes
  <2> QED
    BY <2>1, PlaceInside
<1>2. \A p : p \in PlanetsBefore(c, c.side * c.side) <=> p \in Planets(c)
  <2> TAKE p
  <2> QED
    BY <1>1, BeforeMember, PlanetsMember
<1> QED
  BY <1>2

LEMMA SynchronizeInv ==
  ASSUME IInv, Synchronize
  PROVE  IInv'
<1> USE DEF Synchronize, callVars
<1>1. /\ host = "mining" /\ call \in Calls /\ call.rarity # 0
      /\ Launchable(call) /\ cached = call.side /\ Len(result) = base
  BY DEF IInv, StageInv, FoundInv
<1>2. TypeOK'
  BY BuffersKept DEF IInv, TypeOK
<1>3. BatchSize(call.side) \in Nat
  BY <1>1, CallTypes, WordRange, Numbers DEF BatchSize
<1>4. StageInv'
  BY <1>1, <1>3 DEF StageInv
<1>5. CopyInv'
  BY BufferFilled DEF CopyInv
<1>6. FoundInv'
  <2>1. Found' = {}
    <3>1. base \in Nat /\ base+1 .. base = {}
      BY DEF IInv, TypeOK
    <3> QED
      BY <1>1, <3>1 DEF Found
  <2>2. PlanetsBefore(call, 0) = {}
    BY <1>1, BeforeNone
  <2>3. Cardinality(Found') = 0 /\ Len(result) - base = 0
    <3>1. Cardinality({}) = 0
      BY FS_EmptySet
    <3> QED
      BY <2>1, <3>1, <1>1 DEF IInv, TypeOK
  <2> QED
    BY <2>1, <2>2, <2>3 DEF FoundInv
<1>7. KernelInv' /\ CoveredCorrect'
  BY <1>1 DEF KernelInv, CoveredCorrect
<1> QED
  BY <1>2, <1>4, <1>5, <1>6, <1>7 DEF IInv

(***************************************************************************)
(* What a step of the collecting loop reads: an item of the buffer, and    *)
(* after a covering launch the one of the location at that place, so that  *)
(* it appends the location's planet, which is new, or nothing.             *)
(***************************************************************************)
LEMMA CollectReads ==
  ASSUME IInv, Collect
  PROVE  /\ host = "mining" /\ call \in Calls /\ call.rarity # 0
         /\ Launchable(call) /\ cached = call.side
         /\ BatchSize(call.side) \in Nat /\ i \in 0 .. BatchSize(call.side)-1
         /\ copy[i] \in Items
<1>1. /\ host = "mining" /\ call \in Calls /\ call.rarity # 0
      /\ Launchable(call) /\ cached = call.side
  BY DEF Collect, IInv, StageInv
<1>2. BatchSize(call.side) \in Nat
  BY <1>1, CallTypes, WordRange, Numbers DEF BatchSize
<1>3. i \in 0 .. BatchSize(call.side)-1
  BY <1>2 DEF Collect, IInv, TypeOK
<1>4. cached # NoCache
  <2>1. call.side \in 0 .. Word-1
    BY <1>1, CallTypes
  <2> QED
    BY <1>1, <2>1, NumberAssumption
<1>5. copy \in [0 .. BatchSize(call.side)-1 -> Items]
  BY <1>1, <1>4, BufferFacts DEF IInv
<1> QED
  BY <1>1, <1>2, <1>3, <1>5

LEMMA CollectFinds ==
  ASSUME IInv, Collect, Proper(call)
  PROVE  \/ /\ UNCHANGED result
            /\ PlanetsBefore(call, i+1) = PlanetsBefore(call, i)
         \/ \E L \in Planets(call) \ Found :
              /\ result' = Append(result, L)
              /\ PlanetsBefore(call, i+1) = PlanetsBefore(call, i) \cup {L}
<1> USE Numbers
<1> DEFINE s == call.side
<1>1. /\ call \in Calls /\ call.rarity # 0 /\ i \in Nat /\ s \in Nat
      /\ call.x \in Int /\ call.y \in Int
      /\ stage = "collect"
  BY CollectReads, CallTypes DEF Collect
<1>2. i < s * s
  BY <1>1, CollectReads, BatchFacts DEF Proper
<1> HIDE DEF s
<1>3. PICK a \in 0 .. s-1, b \in 0 .. s-1 : i = a + (s * b)
  BY <1>1, <1>2, PlaceExists
<1>4. a \in Int /\ b \in Int
  BY <1>1, <1>3
<1> DEFINE item == ItemAt(call, call.x + a, call.y + b)
           L == LocationAt(call, a, b)
<1>5. copy[i] = item
  BY <1>1, <1>3 DEF IInv, CopyInv, s
<1>6. /\ PlanetAt(call, a, b) =>
           item \in Stored /\ Collected(item) = L
      /\ ~ PlanetAt(call, a, b) => item = NoPlanet
      /\ item # Junk
  BY <1>1, <1>4, ItemFacts DEF PlanetAt, LocationAt
<1>7. ASSUME NEW d \in 0 .. s-1, NEW e \in 0 .. s-1
      PROVE  /\ d + (s * e) < i+1 <=> d + (s * e) < i \/ (d = a /\ e = b)
             /\ d + (s * e) < i => ~ (d = a /\ e = b)
  <2>1. d \in Nat /\ e \in Nat /\ e < s /\ s \in Nat \ {0}
    BY <1>1, <1>7
  <2>2. d + (s * e) \in Nat
    BY <2>1, PlaceInside
  <2>3. d + (s * e) = i => d = a /\ e = b
    <3>1. e \in Int /\ s \in Nat \ {0}
      BY <2>1
    <3> QED
      BY <1>3, <1>4, <3>1, PlaceUnique
  <2>4. d = a /\ e = b => d + (s * e) = i
    BY <1>3
  <2> HIDE DEF s
  <2> QED
    BY <1>1, <2>2, <2>3, <2>4
<1> HIDE DEF item, L
<1>8. CASE ~ PlanetAt(call, a, b)
  <2>1. UNCHANGED result
    BY <1>5, <1>6, <1>8 DEF Collect
  <2>2. \A p : p \in PlanetsBefore(call, i+1) <=> p \in PlanetsBefore(call, i)
    BY <1>1, <1>7, <1>8, BeforeMember DEF s
  <2> QED
    BY <2>1, <2>2
<1>9. CASE PlanetAt(call, a, b)
  <2>1. item # NoPlanet /\ item \notin {NoPlanet, Junk}
    BY <1>6, <1>9, NumberAssumption
  <2>2. result' = Append(result, L)
    BY <1>5, <1>6, <1>9, <2>1 DEF Collect
  <2>3. L \in Planets(call)
    BY <1>1, <1>3, <1>9, PlanetsMember DEF s, L
  <2>4. \A p : p \in PlanetsBefore(call, i+1) <=>
                 p \in PlanetsBefore(call, i) \/ p = L
    BY <1>1, <1>3, <1>7, <1>9, BeforeMember DEF s, L
  <2>5. L \notin PlanetsBefore(call, i)
    <3>1. SUFFICES ASSUME NEW d \in 0 .. s-1, NEW e \in 0 .. s-1,
                          d + (s * e) < i, L = LocationAt(call, d, e)
                   PROVE  FALSE
      BY <1>1, BeforeMember DEF s
    <3>2. L.x = call.x + a /\ L.y = call.y + b
      BY DEF L, LocationAt, Location
    <3>3. L.x = call.x + d /\ L.y = call.y + e
      BY <3>1 DEF LocationAt, Location
    <3>4. d = a /\ e = b
      BY <1>1, <1>4, <3>2, <3>3
    <3> QED
      BY <1>7, <3>1, <3>4
  <2>6. Found = PlanetsBefore(call, i)
    BY <1>1 DEF IInv, FoundInv
  <2>7. PlanetsBefore(call, i+1) = PlanetsBefore(call, i) \cup {L}
    BY <2>4
  <2> QED
    BY <2>2, <2>3, <2>5, <2>6, <2>7
<1> QED
  BY <1>8, <1>9

LEMMA AppendFound ==
  ASSUME TypeOK, NEW L \in LocationType \cup {Junk},
         result' = Append(result, L), base' = base
  PROVE  /\ result' \in Seq(LocationType \cup {Junk})
         /\ base \in 0 .. Len(result') /\ Len(result') = Len(result) + 1
         /\ Found' = Found \cup {L} /\ IsFiniteSet(Found)
<1> DEFINE n == Len(result)
<1>1. result \in Seq(LocationType \cup {Junk}) /\ n \in Nat /\ base \in 0 .. n
  BY DEF TypeOK
<1>2. result' \in Seq(LocationType \cup {Junk}) /\ Len(result') = n + 1
  BY <1>1
<1>3. result'[n + 1] = L /\ \A m \in 1 .. n : result'[m] = result[m]
  BY <1>1
<1> HIDE DEF n
<1>4. base+1 .. n+1 = (base+1 .. n) \cup {n+1}
  BY <1>1
<1>5. \A m \in base+1 .. n : result'[m] = result[m]
  <2>1. base+1 .. n \subseteq 1 .. n
    BY <1>1
  <2> QED
    BY <1>3, <2>1
<1>6. Found' = Found \cup {L}
  <2>1. Found' = {result'[m] : m \in base+1 .. n+1}
    BY <1>2 DEF Found
  <2>2. Found = {result[m] : m \in base+1 .. n}
    BY DEF Found, n
  <2>3. Found' = {result'[m] : m \in base+1 .. n} \cup {result'[n+1]}
    BY <1>4, <2>1
  <2>4. {result'[m] : m \in base+1 .. n} = Found
    BY <1>5, <2>2
  <2> QED
    BY <1>3, <2>3, <2>4
<1>7. IsFiniteSet(Found)
  <2> DEFINE I == base+1 .. n
             f == [m \in I |-> result[m]]
  <2>1. IsFiniteSet(I)
    BY <1>1, FS_Interval
  <2>2. f \in Surjection(I, Found)
    BY DEF Surjection, Found, n
  <2> HIDE DEF I, f
  <2> QED
    BY <2>1, <2>2, FS_Surjection
<1>8. base \in 0 .. n + 1
  BY <1>1
<1> QED
  BY <1>2, <1>6, <1>7, <1>8 DEF n

LEMMA CollectInv ==
  ASSUME IInv, Collect
  PROVE  IInv'
<1> USE DEF callVars
<1>1. /\ host = "mining" /\ call \in Calls /\ call.rarity # 0
      /\ Launchable(call) /\ cached = call.side
      /\ BatchSize(call.side) \in Nat /\ i \in 0 .. BatchSize(call.side)-1
      /\ copy[i] \in Items /\ stage = "collect" /\ done = << >>
  BY CollectReads DEF Collect, IInv, StageInv
<1>2. /\ UNCHANGED <<host, call, iter, base, stage, initialized, cached, batch,
                     copy, done>>
      /\ i' = i + 1
  BY DEF Collect
<1>3. \/ UNCHANGED result
      \/ \E L \in LocationType \cup {Junk} : result' = Append(result, L)
  <2>1. CASE UNCHANGED result
    BY <2>1
  <2>2. CASE copy[i] # NoPlanet /\ result' = Append(result, Collected(copy[i]))
    <3>1. Collected(copy[i]) \in LocationType \cup {Junk}
      <4>1. CASE copy[i] = Junk
        BY <4>1 DEF Collected
      <4>2. CASE copy[i] # Junk
        <5>1. copy[i] \in Stored
          BY <1>1, <2>2, <4>2 DEF Items
        <5>2. /\ copy[i].x \in Int /\ copy[i].y \in Int
              /\ ToMpz(copy[i].hash) \in 0 .. P-1
          BY <5>1 DEF Stored
        <5> QED
          BY <4>2, <5>2 DEF Collected, Location, LocationType
      <4> QED
        BY <4>1, <4>2
    <3> QED
      BY <2>2, <3>1
  <2> QED
    BY <2>1, <2>2 DEF Collect
<1>4. TypeOK'
  <2>1. result' \in Seq(LocationType \cup {Junk}) /\ base' \in 0 .. Len(result')
    BY <1>2, <1>3, AppendFound DEF IInv, TypeOK
  <2> QED
    BY <1>1, <1>2, <2>1, BuffersKept DEF IInv, TypeOK
<1>5. StageInv'
  BY <1>1, <1>2 DEF StageInv
<1>6. KernelInv' /\ CoveredCorrect'
  BY <1>1, <1>2 DEF KernelInv, CoveredCorrect
<1>7. CopyInv'
  BY <1>1, <1>2 DEF IInv, CopyInv
<1>8. FoundInv'
  <2> SUFFICES ASSUME Proper(call)
               PROVE  /\ Found' = PlanetsBefore(call, i+1)
                      /\ Cardinality(Found') = Len(result') - base
    BY <1>1, <1>2 DEF FoundInv
  <2>1. /\ Found = PlanetsBefore(call, i)
        /\ Cardinality(Found) = Len(result) - base
    BY <1>1 DEF IInv, FoundInv
  <2>2. CASE UNCHANGED result /\ PlanetsBefore(call, i+1) = PlanetsBefore(call, i)
    BY <1>2, <2>1, <2>2 DEF Found
  <2>3. CASE \E L \in Planets(call) \ Found :
               /\ result' = Append(result, L)
               /\ PlanetsBefore(call, i+1) = PlanetsBefore(call, i) \cup {L}
    <3>1. PICK L \in Planets(call) \ Found :
               /\ result' = Append(result, L)
               /\ PlanetsBefore(call, i+1) = PlanetsBefore(call, i) \cup {L}
      BY <2>3
    <3>2. L \in LocationType
      <4>1. PICK a \in 0 .. call.side-1, b \in 0 .. call.side-1 :
              PlanetAt(call, a, b) /\ L = LocationAt(call, a, b)
        BY <1>1, <3>1, PlanetsMember
      <4>2. call.x + a \in Int /\ call.y + b \in Int
        BY <1>1, CallTypes
      <4> QED
        BY <1>1, <4>1, <4>2, ItemFacts DEF PlanetAt, LocationAt
    <3>3. /\ Found' = Found \cup {L} /\ IsFiniteSet(Found)
          /\ Len(result') = Len(result) + 1
      BY <1>2, <3>1, <3>2, AppendFound DEF IInv
    <3>4. Cardinality(Found') = Cardinality(Found) + 1
      BY <3>1, <3>3, FS_AddElement
    <3>5. Len(result) \in Nat /\ base \in Nat
      BY DEF IInv, TypeOK
    <3> QED
      BY <2>1, <3>1, <3>3, <3>4, <3>5
  <2> QED
    BY <2>2, <2>3, CollectFinds
<1> QED
  BY <1>4, <1>5, <1>6, <1>7, <1>8 DEF IInv

LEMMA ReturnFound ==
  ASSUME IInv, Return, Proper(call)
  PROVE  call \in Calls /\ Found = Planets(call)
         /\ Cardinality(Found) = Len(result) - base
<1>1. call \in Calls /\ i <= BatchSize(call.side) /\ stage = "collect"
  BY DEF Return, IInv, StageInv
<1>2. BatchSize(call.side) = call.side * call.side /\ call.side * call.side \in Nat
  BY <1>1, BatchFacts DEF Proper
<1>3. i = call.side * call.side
  BY <1>1, <1>2 DEF Return, IInv, TypeOK
<1>4. Found = PlanetsBefore(call, i) /\ Cardinality(Found) = Len(result) - base
  BY <1>1 DEF IInv, FoundInv
<1> QED
  BY <1>1, <1>3, <1>4, BeforeAll

LEMMA ReturnInv ==
  ASSUME IInv, Return
  PROVE  IInv'
<1>1. /\ host = "mining" /\ call \in Calls /\ call.rarity # 0
      /\ Launchable(call) /\ done = << >>
  BY DEF Return, IInv, StageInv
<1>2. TypeOK'
  BY BuffersKept DEF Return, IInv, TypeOK
<1>3. StageInv' /\ KernelInv' /\ CopyInv' /\ FoundInv'
  BY <1>1 DEF Return, StageInv, KernelInv, CopyInv, FoundInv
<1>4. CoveredCorrect'
  BY ReturnFound DEF Return, CoveredCorrect, Found
<1> QED
  BY <1>2, <1>3, <1>4 DEF IInv

LEMMA NextInv == IInv /\ [Next]_vars => IInv'
<1> SUFFICES ASSUME IInv, [Next]_vars PROVE IInv'
  OBVIOUS
<1>1. CASE \E c \in Calls : MineSingle(c)
  BY <1>1, MineSingleInv
<1>2. CASE BenchmarkAgain
  BY <1>2, BenchmarkAgainInv
<1>3. CASE HostStep
  BY <1>3, InitializeInv, PrepareCacheInv, LaunchInv, SynchronizeInv,
     CollectInv, ReturnInv DEF HostStep
<1>4. CASE \E k \in DOMAIN done : MineItem(k)
  BY <1>4, MineItemInv
<1>5. CASE CudaError
  BY <1>5, CudaErrorInv
<1>6. CASE UNCHANGED vars
  <2> USE <1>6 DEF vars
  <2>1. TypeOK'
    BY BuffersKept DEF IInv, TypeOK
  <2>2. StageInv' /\ KernelInv' /\ CopyInv'
    BY DEF IInv, StageInv, KernelInv, CopyInv
  <2>3. FoundInv' /\ CoveredCorrect'
    BY DEF IInv, FoundInv, CoveredCorrect, Found
  <2> QED
    BY <2>1, <2>2, <2>3 DEF IInv
<1> QED
  BY <1>1, <1>2, <1>3, <1>4, <1>5, <1>6 DEF Next
-----------------------------------------------------------------------------
(***************************************************************************)
(* The inductive invariant of the CUDA miner holds of every execution: the *)
(* items the kernel has finished are in place whatever the order in which  *)
(* its groups ran, and the host has appended the planets it has read.      *)
(***************************************************************************)
THEOREM AlwaysIInv == Spec => []IInv
<1>1. Init => IInv
  BY InitInv
<1>2. IInv /\ [Next]_vars => IInv'
  BY NextInv
<1> QED
  BY <1>1, <1>2, PTL DEF Spec

(***************************************************************************)
(* Every variable keeps its type: what the host makes of an item that was  *)
(* written is a location with a hash below P, through the limbs and back.  *)
(***************************************************************************)
THEOREM TypeCorrect == Spec => []TypeOK
<1>1. IInv => TypeOK
  BY DEF IInv
<1> QED
  BY <1>1, AlwaysIInv, PTL

(***************************************************************************)
(* Whenever mine returns from a launch that covers the chunk, it has       *)
(* appended exactly the planets of the chunk, each once, whatever the      *)
(* buffer held before and whichever way the groups were interleaved.       *)
(***************************************************************************)
THEOREM CoveredIsCorrect == Spec => []CoveredCorrect
<1>1. IInv => CoveredCorrect
  BY DEF IInv
<1> QED
  BY <1>1, AlwaysIInv, PTL

(***************************************************************************)
(* The kernel never stores outside its buffer, for any launch of a chunk   *)
(* with fewer than 2^32 locations.                                         *)
(***************************************************************************)
THEOREM AlwaysInBounds == Spec => []InBounds
<1>1. IInv => InBounds
  <2> SUFFICES ASSUME IInv, stage = "kernel", NoWrap(call), NEW k \in DOMAIN done,
                      ~ Finished(call, k, done[k])
               PROVE  ResultIdx(call, k, done[k]) \in DOMAIN batch
    BY DEF InBounds
  <2>1. /\ call \in Calls /\ Launchable(call) /\ cached = call.side
        /\ done \in [Groups(call) -> 0 .. ThreadWorkSize]
    BY DEF IInv, StageInv
  <2>2. k \in Groups(call) /\ done[k] \in Nat
    BY <2>1
  <2>3. call.side \in 0 .. Word-1 /\ call.side \in Nat
        /\ NextRow(k, done[k]) \in 0 .. Word-1
    BY <2>1, <2>2, CallTypes, GroupFacts
  <2>4. NextRow(k, done[k]) < call.side
    BY <2>3, Numbers DEF Finished
  <2>5. ResultIdx(call, k, done[k]) \in 0 .. (call.side * call.side)-1
    BY <2>1, <2>2, <2>4, IndexFacts
  <2>6. BatchSize(call.side) = call.side * call.side
    BY <2>1, BatchFacts
  <2>7. DOMAIN batch = 0 .. BatchSize(call.side)-1
    BY <2>1, <2>3, NumberAssumption, BufferFacts DEF IInv
  <2> QED
    BY <2>5, <2>6, <2>7
<1> QED
  BY <1>1, AlwaysIInv, PTL

(***************************************************************************)
(* No two groups of a launch with one row of blocks ever write the same    *)
(* item, at whatever items they are: their rows are disjoint intervals.    *)
(***************************************************************************)
THEOREM AlwaysDisjoint == Spec => []DisjointWrites
<1>1. IInv => DisjointWrites
  <2> SUFFICES ASSUME IInv, stage = "kernel", NoWrap(call), RowsFit(call),
                      GridSizeY(call) = 1,
                      NEW k \in DOMAIN done, NEW m \in DOMAIN done,
                      ~ Finished(call, k, done[k]), ~ Finished(call, m, done[m]),
                      ResultIdx(call, k, done[k]) = ResultIdx(call, m, done[m])
               PROVE  k = m
    BY DEF DisjointWrites
  <2> USE Numbers
  <2> DEFINE n == done[k]
             l == done[m]
  <2>1. /\ call \in Calls /\ Launchable(call)
        /\ done \in [Groups(call) -> 0 .. ThreadWorkSize]
    BY DEF IInv, StageInv
  <2>2. k \in Groups(call) /\ m \in Groups(call)
    BY <2>1
  <2>3. /\ n \in 0 .. ThreadWorkSize /\ l \in 0 .. ThreadWorkSize
        /\ n # ThreadWorkSize /\ l # ThreadWorkSize
    BY <2>1, <2>2 DEF Finished
  <2>4. n \in 0 .. ThreadWorkSize-1 /\ l \in 0 .. ThreadWorkSize-1
    BY <2>3
  <2>5. NextRow(k, n) < call.side /\ NextRow(m, l) < call.side
    <3>1. call.side \in Nat /\ NextRow(k, n) \in 0 .. Word-1
          /\ NextRow(m, l) \in 0 .. Word-1
      BY <2>1, <2>2, <2>3, CallTypes, GroupFacts
    <3> QED
      BY <3>1 DEF Finished
  <2>6. k[1] = m[1] /\ NextRow(k, n) = NextRow(m, l)
    BY <2>1, <2>2, <2>4, <2>5, SameItem
  <2> HIDE DEF n, l
  <2>7. k[2] = 0 /\ m[2] = 0 /\ k[3] \in Nat /\ m[3] \in Nat
    BY <2>1, <2>2, GroupFacts
  <2>8. /\ NextRow(k, n) = ThreadWorkSize * k[3] + n
        /\ NextRow(m, l) = ThreadWorkSize * m[3] + l
    <3>1. /\ NextRow(k, n) = 0 * (BlockDimY + ThreadWorkSize)
                              + ThreadWorkSize * k[3] + n
          /\ NextRow(m, l) = 0 * (BlockDimY + ThreadWorkSize)
                              + ThreadWorkSize * m[3] + l
      BY <2>1, <2>2, <2>4, <2>7, RowFacts
    <3>2. ThreadWorkSize * k[3] \in Nat /\ ThreadWorkSize * m[3] \in Nat
      BY <2>7
    <3> QED
      BY <3>1, <3>2, <2>4 DEF BlockDimY
  <2>9. k[3] = m[3]
    <3> DEFINE a == k[3]
               b == m[3]
    <3>1. ThreadWorkSize \in Nat \ {0} /\ a \in Int /\ b \in Int
      BY <2>4, <2>7
    <3>2. n + (ThreadWorkSize * a) = l + (ThreadWorkSize * b)
      <4>1. ThreadWorkSize * a + n = ThreadWorkSize * b + l
        BY <2>6, <2>8
      <4> HIDE DEF a, b
      <4>2. ThreadWorkSize * a \in Int /\ ThreadWorkSize * b \in Int
        BY <3>1
      <4> QED
        BY <4>1, <4>2, <2>4
    <3> HIDE DEF a, b
    <3>3. a = b
      BY <2>4, <3>1, <3>2, PlaceUnique
    <3> QED
      BY <3>3 DEF a, b
  <2>10. k = <<k[1], k[2], k[3]>> /\ m = <<m[1], m[2], m[3]>>
    BY <2>1, <2>2, GroupFacts
  <2> QED
    BY <2>6, <2>7, <2>9, <2>10
<1> QED
  BY <1>1, AlwaysIInv, PTL
-----------------------------------------------------------------------------
(***************************************************************************)
(* A launch with a single row of blocks covers its chunk: the grid is one  *)
(* block high only when a block has as many items as the chunk has rows.   *)
(* It is the second row of blocks that kernel and launch disagree about.   *)
(***************************************************************************)
THEOREM OneRowCovers ==
  ASSUME NEW c \in Calls, Launchable(c), RowsFit(c), GridSizeY(c) = 1
  PROVE  Covered(c)
<1> USE Numbers
<1> DEFINE T == ThreadWorkSize
           B == BlockSize
           I == T * B
<1>1. c.side \in 1 .. Word-1 /\ ItemsPerBlock # 0 /\ ItemsPerBlock = Uint32(I)
  BY CallTypes DEF Launchable, ItemsPerBlock
<1>2. I \in Nat /\ T \in Nat /\ B \in Nat
  OBVIOUS
<1>3. T > 0 /\ B > 0
  <2>1. T = 0 \/ B = 0 => I = 0
    BY <1>2
  <2>2. I # 0
    BY <1>1, WordRange
  <2> QED
    BY <2>1, <2>2
<1>4. I <= Word
  <2> DEFINE g == <<0, 0, B-1>>
  <2>1. g \in Groups(c) /\ g[2] = 0 /\ g[3] = B-1
    BY <1>1, <1>3 DEF Groups
  <2>2. T-1 \in 0 .. ThreadWorkSize-1
    BY <1>3
  <2>3. g[2] * (BlockDimY + T) + T * g[3] + (T-1) < Word
    BY <2>1, <2>2 DEF RowsFit
  <2>4. 0 * (BlockDimY + T) = 0 /\ T * (B-1) = I - T
    BY DEF BlockDimY
  <2> HIDE DEF g, I, T, B
  <2>5. g[2] * (BlockDimY + T) + T * g[3] + (T-1) = 0 + (I - T) + (T-1)
    BY <2>1, <2>4
  <2> QED
    BY <1>2, <2>3, <2>5
<1>5. I < Word
  <2>1. Uint32(Word) = 0
    <3>1. ((Word * 1) + 0) % Word = 0
      BY ModUnique
    <3> QED
      BY <3>1 DEF Uint32
  <2> QED
    BY <1>1, <1>2, <1>4, <2>1
<1> HIDE DEF I
<1>6. ItemsPerBlock = I /\ I > 0
  BY <1>1, <1>2, <1>5, WordRange
<1>7. c.side <= I
  <2> DEFINE u == c.side + I - 1
  <2>1. u \in Nat /\ u < Word + I - 1
    BY <1>1, <1>2, <1>6
  <2>2. Uint32(u) \div I = 1
    BY <1>6, Zenon DEF GridSizeY
  <2> HIDE DEF u
  <2>3. CASE u < Word
    <3>1. Uint32(u) = u
      BY <2>1, <2>3, WordRange
    <3>2. u % I \in 0 .. I-1 /\ u = (I * (u \div I)) + (u % I)
      <4>1. I \in Nat \ {0} /\ u \in Int
        BY <1>2, <1>6, <2>1
      <4> QED
        BY <4>1, DivMod
    <3>3. u \div I = 1 /\ I * 1 = I
      BY <2>2, <3>1, <1>2
    <3>4. u = I + (u % I)
      BY <3>2, <3>3
    <3> QED
      BY <1>1, <1>2, <3>2, <3>4 DEF u
  <2>4. CASE u >= Word
    <3>1. u - Word \in 0 .. I-1 /\ u - Word \in 0 .. Word-1
      BY <1>5, <2>1, <2>4, <1>2
    <3>2. Uint32(u) = u - Word
      <4>1. ((Word * 1) + (u - Word)) % Word = u - Word
        BY <3>1, ModUnique
      <4>2. (Word * 1) + (u - Word) = u
        BY <2>1
      <4> QED
        BY <4>1, <4>2 DEF Uint32
    <3>3. (u - Word) \div I = 0
      <4> DEFINE r == u - Word
      <4>1. r \in 0 .. I-1 /\ I \in Nat \ {0} /\ (I * 0) + r = r
        BY <3>1, <1>2, <1>6
      <4> HIDE DEF r
      <4>2. ((I * 0) + r) \div I = 0
        BY <4>1, DivUnique
      <4> QED
        BY <4>1, <4>2 DEF r
    <3> QED
      BY <2>2, <3>2, <3>3
  <2> QED
    BY <2>1, <2>3, <2>4
<1>8. ASSUME NEW row \in 0 .. c.side-1
      PROVE  \E k \in Groups(c), n \in 0 .. ThreadWorkSize-1 : NextRow(k, n) = row
  <2>1. row \in Nat /\ row < T * B
    BY <1>1, <1>2, <1>7 DEF I
  <2>2. PICK a \in 0 .. T-1, b \in 0 .. B-1 : row = a + (T * b)
    BY <1>2, <2>1, PlaceExists
  <2> DEFINE k == <<0, 0, b>>
  <2>3. k \in Groups(c) /\ k[2] = 0 /\ k[3] = b
    BY <1>1, <2>2 DEF Groups
  <2> HIDE DEF k
  <2>4. NextRow(k, a) = k[2] * (BlockDimY + T) + T * k[3] + a
    BY <2>2, <2>3, RowFacts
  <2>5. 0 * (BlockDimY + T) = 0 /\ T * b \in Nat
    BY <1>2, <2>2 DEF BlockDimY
  <2>6. NextRow(k, a) = 0 + T * b + a
    BY <2>3, <2>4, <2>5
  <2>7. NextRow(k, a) = row
    BY <2>2, <2>5, <2>6
  <2> QED
    BY <2>2, <2>3, <2>7
<1> QED
  BY <1>8 DEF Covered

(***************************************************************************)
(* So mine is correct for every launch with one row of blocks that stays   *)
(* within 32 bits: the repository's test, with 1024 items per block and a  *)
(* side length of 256, is one of them.                                     *)
(***************************************************************************)
THEOREM OneRowCorrect ==
  Spec => [](host = "returned" /\ NoWrap(call) /\ RowsFit(call)
               /\ GridSizeY(call) = 1
             => Found = Planets(call) /\ Cardinality(Found) = Len(result) - base)
<1>1. IInv => (host = "returned" /\ NoWrap(call) /\ RowsFit(call)
                 /\ GridSizeY(call) = 1
               => Found = Planets(call) /\ Cardinality(Found) = Len(result) - base)
  <2> SUFFICES ASSUME IInv, host = "returned", NoWrap(call), RowsFit(call),
                      GridSizeY(call) = 1
               PROVE  Found = Planets(call) /\ Cardinality(Found) = Len(result) - base
    OBVIOUS
  <2>1. call \in Calls /\ Launchable(call)
    BY DEF IInv, StageInv
  <2>2. Proper(call)
    BY <2>1, OneRowCovers DEF Proper
  <2> QED
    BY <2>2 DEF IInv, CoveredCorrect
<1> QED
  BY <1>1, AlwaysIInv, PTL

(***************************************************************************)
(* With calls whose launches cover their chunks, a step of the host or the *)
(* device is a step of common::Miner or leaves the caller's view alone.    *)
(***************************************************************************)
AllProper == \A c \in Calls : c.rarity # 0 /\ Launchable(c) => Proper(c)

LEMMA ContractStep ==
  ASSUME AllProper, IInv, [Next]_vars
  PROVE  [Contract!Next]_(Contract!vars)
<1> USE DEF callVars
<1>1. ASSUME NEW c \in Calls, MineSingle(c)
      PROVE  Contract!Begin(c)
  BY <1>1 DEF MineSingle, Contract!Begin
<1>2. CASE BenchmarkAgain
  BY <1>2 DEF BenchmarkAgain, Contract!Next, Contract!BeginAgain
<1>3. CASE Initialize \/ PrepareCache \/ Launch \/ Synchronize
  BY <1>3 DEF Initialize, PrepareCache, Launch, Synchronize, Contract!vars
<1>4. CASE Collect
  <2>1. /\ host = "mining" /\ call \in Calls /\ call.rarity # 0 /\ Launchable(call)
        /\ UNCHANGED <<host, call, iter, base>>
    BY <1>4, CollectReads DEF Collect
  <2>2. Proper(call)
    BY <2>1 DEF AllProper
  <2>3. call \in DOMAIN PlanetsOf /\ PlanetsOf[call] = Planets(call)
    BY <2>1 DEF PlanetsOf
  <2>4. CASE UNCHANGED result
    BY <2>1, <2>4 DEF Contract!vars
  <2>5. CASE \E L \in Planets(call) \ Found : result' = Append(result, L)
    <3>1. Contract!Find
      BY <2>1, <2>3, <2>5 DEF Contract!Find, Contract!Found, Found
    <3> QED
      BY <3>1 DEF Contract!Next
  <2> QED
    BY <1>4, <2>2, <2>4, <2>5, CollectFinds
<1>5. CASE Return
  <2>1. /\ host = "mining" /\ call \in Calls /\ call.rarity # 0 /\ Launchable(call)
    BY <1>5 DEF Return, IInv, StageInv
  <2>2. Proper(call)
    BY <2>1 DEF AllProper
  <2>3. call \in DOMAIN PlanetsOf /\ PlanetsOf[call] = Planets(call)
    BY <2>1 DEF PlanetsOf
  <2>4. Found = Planets(call)
    BY <1>5, <2>2, ReturnFound
  <2>5. Contract!Return
    BY <1>5, <2>1, <2>3, <2>4 DEF Return, Contract!Return, Contract!Found, Found
  <2> QED
    BY <2>5 DEF Contract!Next
<1>6. ASSUME NEW k \in DOMAIN done, MineItem(k)
      PROVE  UNCHANGED Contract!vars
  BY <1>6 DEF MineItem, Contract!vars
<1>7. CASE CudaError
  <2>1. host = "mining" /\ call \in Fatal
    BY <1>7 DEF CudaError, IInv, StageInv, Fatal
  <2>2. Contract!Abort
    BY <1>7, <2>1 DEF CudaError, Contract!Abort
  <2> QED
    BY <2>2 DEF Contract!Next
<1>8. CASE UNCHANGED vars
  BY <1>8 DEF vars, Contract!vars
<1> QED
  BY <1>1, <1>2, <1>3, <1>4, <1>5, <1>6, <1>7, <1>8
     DEF Next, HostStep, Contract!Next

(***************************************************************************)
(* The CUDA miner implements the contract of common::Miner, provided its   *)
(* launches cover the chunks it is called with and nothing wraps.  That    *)
(* proviso is needed: FindsPlanets fails without it.                       *)
(***************************************************************************)
THEOREM ImplementsContract == AllProper /\ Spec => KeepsContract
<1>1. Init => Contract!Init
  BY DEF Init, Contract!Init
<1>2. AllProper /\ IInv /\ [Next]_vars => [Contract!Next]_(Contract!vars)
  BY ContractStep
<1>3. AllProper => AllProper'
  BY DEF AllProper
<1> QED
  BY <1>1, <1>2, <1>3, AlwaysIInv, PTL DEF Spec, KeepsContract, Contract!Spec
=============================================================================
