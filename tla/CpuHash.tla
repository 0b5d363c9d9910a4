------------------------------ MODULE CpuHash ------------------------------
(***************************************************************************)
(* The MiMC sponge of the CPU miner (miner-cpu/lib/hash.cc).  GMP integers *)
(* are TLA+ integers; the scratch registers t0_ .. t4_ and the bit size    *)
(* the registers are given are not kept.                                   *)
(***************************************************************************)
EXTENDS Integers, Sequences

CONSTANTS
  P,        \* the field's modulus
  C,        \* the round constants
  Word      \* 2^32, the number of values of a uint32_t

(* The real P has 254 bits and every constant is below it. *)
ASSUME FieldAssumption ==
  /\ P \in Nat \ {0}
  /\ Word \in 1 .. P
  /\ C \in Seq(0 .. P-1)

(* static_cast<uint32_t> of a 64-bit integer, negative ones included. *)
Uint32(n) == n % Word

WrapCoordinate(c) == IF c >= 0 THEN Uint32(c) ELSE P - Uint32(-c)

FieldAdd(a, b) == (a + b) % P

FifthPower(n) == (n * n * n * n * n) % P

(***************************************************************************)
(* One round of the Feistel network on s = <<l_, r_>>, then the last       *)
(* round, which adds no constant and does not swap.                        *)
(***************************************************************************)
Round(s, key, c) ==
  << FieldAdd(FifthPower(FieldAdd(FieldAdd(key, s[1]), c)), s[2]), s[1] >>

LastRound(s, key) ==
  << s[1], FieldAdd(FifthPower(FieldAdd(key, s[1])), s[2]) >>

MixState(s, key) ==
  LET after[j \in 0 .. Len(C)] ==
        IF j = 0 THEN s ELSE Round(after[j-1], key, C[j])
  IN  LastRound(after[Len(C)], key)

(***************************************************************************)
(* The Sponge object: the state (l_, r_) and its snapshot.                 *)
(***************************************************************************)
NewSponge == [l |-> 0, r |-> 0, snap_l |-> 0, snap_r |-> 0]

Reset(s) == [s EXCEPT !.l = 0, !.r = 0]

Inject(s, v) == [s EXCEPT !.l = FieldAdd(s.l, v)]

Mix(s, key) ==
  LET m == MixState(<<s.l, s.r>>, key)
  IN  [s EXCEPT !.l = m[1], !.r = m[2]]

Save(s) == [s EXCEPT !.snap_l = s.l, !.snap_r = s.r]

Restore(s) == [s EXCEPT !.l = s.snap_l, !.r = s.snap_r]

Result(s) == s.l

(* Mutant: a hash equal to the threshold counts. *)
IsPlanet_OrEqual(hash, threshold) == hash <= threshold

IsPlanet(hash, threshold) == hash < threshold

(***************************************************************************)
(* The hash a location has, as a function of its coordinates and the key   *)
(* alone: what the two absorptions of the sponge compute when nothing else *)
(* has touched it.                                                         *)
(***************************************************************************)
ColumnState(x, key) == MixState(<<FieldAdd(0, WrapCoordinate(x)), 0>>, key)

PlanetHash(x, y, key) ==
  LET s == ColumnState(x, key)
  IN  MixState(<<FieldAdd(s[1], WrapCoordinate(y)), s[2]>>, key)[1]
=============================================================================
