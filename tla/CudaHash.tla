------------------------------ MODULE CudaHash ------------------------------
(***************************************************************************)
(* The MiMC sponge of the CUDA kernel (miner-cuda/lib/miner.cu).  256-bit  *)
(* CGBN numbers are TLA+ integers: no operand exceeds P, which has 254     *)
(* bits, so a sum fits and only products need the wide type.  The copies   *)
(* to and from GMP numbers keep the value, and are left out.               *)
(***************************************************************************)
EXTENDS Integers, Sequences

CONSTANTS P, C, Word

Uint32(n) == n % Word

WrapCoordinate(c) == IF c >= 0 THEN Uint32(c) ELSE P - Uint32(-c)

(* Mutant: the sum is not reduced. *)
FieldAdd_NoReduction(a, b) == a + b

(***************************************************************************)
(* The kernel subtracts P while the sum exceeds it, so that a sum equal to *)
(* a positive multiple of P ends at P and not at 0.                        *)
(***************************************************************************)
FieldAdd(a, b) == IF a + b = 0 THEN 0 ELSE ((a + b - 1) % P) + 1

FieldMul(a, b) == (a * b) % P

FifthPower(n) ==
  LET s == FieldMul(n, n)
      f == FieldMul(s, s)
  IN  FieldMul(f, n)

Round(s, key, c) ==
  << FieldAdd(FifthPower(FieldAdd(FieldAdd(key, s[1]), c)), s[2]), s[1] >>

LastRound(s, key) ==
  << s[1], FieldAdd(FifthPower(FieldAdd(key, s[1])), s[2]) >>

MixState(s, key) ==
  LET after[j \in 0 .. Len(C)] ==
        IF j = 0 THEN s ELSE Round(after[j-1], key, C[j])
  IN  LastRound(after[Len(C)], key)

(***************************************************************************)
(* The Sponge object, whose registers are uninitialised until reset.       *)
(***************************************************************************)
Reset(s) == [s EXCEPT !.l = 0, !.r = 0]

Inject(s, v) == [s EXCEPT !.l = FieldAdd(s.l, v)]

Save(s) == [s EXCEPT !.snap_l = s.l, !.snap_r = s.r]

Restore(s) == [s EXCEPT !.l = s.snap_l, !.r = s.snap_r]

Result(s) == s.l

IsPlanet(hash, threshold) == hash < threshold

(***************************************************************************)
(* What the kernel's private sponge yields for a location: every row       *)
(* starts from the snapshot taken at the top of the thread's one column.   *)
(***************************************************************************)
ColumnState(x, key) == MixState(<<FieldAdd(0, WrapCoordinate(x)), 0>>, key)

KernelHash(x, y, key) ==
  LET s == ColumnState(x, key)
  IN  MixState(<<FieldAdd(s[1], WrapCoordinate(y)), s[2]>>, key)[1]
=============================================================================
