------------------------ MODULE HashAgreementProofs ------------------------
(***************************************************************************)
(* For every modulus, every list of round constants and every coordinate,  *)
(* the CPU and the CUDA sponges hold the same field elements, and so the   *)
(* two miners decide alike about every location whose hash is not zero.    *)
(***************************************************************************)
EXTENDS HashAgreement, NumberLemmas, TLAPS

LEMMA Modulus == P \in Nat \ {0} /\ Word \in Nat \ {0} /\ Word <= P
BY FieldAssumption

(***************************************************************************)
(* field_add: operands the two miners hold for the same elements give sums *)
(* that stand for the same element.                                        *)
(***************************************************************************)
LEMMA AddAgrees ==
  ASSUME NEW a \in 0 .. P, NEW b \in 0 .. P, NEW ca \in 0 .. P, NEW cb \in 0 .. P,
         a % P = ca % P, b % P = cb % P
  PROVE  /\ FieldAdd(a, b) \in 0 .. P-1
         /\ Cuda!FieldAdd(ca, cb) \in 0 .. P
         /\ FieldAdd(a, b) = Cuda!FieldAdd(ca, cb) % P
<1> USE Modulus
<1>0. a \in Int /\ b \in Int /\ ca \in Int /\ cb \in Int
  OBVIOUS
<1>1. (a + b) % P = (ca + cb) % P
  <2>1. (a + b) % P = ((a % P) + (b % P)) % P
    BY <1>0, ModAdd
  <2>2. (ca + cb) % P = ((ca % P) + (cb % P)) % P
    BY <1>0, ModAdd
  <2> QED
    BY <2>1, <2>2
<1>2. FieldAdd(a, b) = (a + b) % P /\ FieldAdd(a, b) \in 0 .. P-1
  BY DivMod DEF FieldAdd
<1>3. CASE ca + cb = 0
  BY <1>1, <1>2, <1>3 DEF Cuda!FieldAdd
<1>4. CASE ca + cb # 0
  <2> DEFINE s == ca + cb - 1
  <2>1. s \in Int /\ s % P \in 0 .. P-1
    BY DivMod
  <2>2. Cuda!FieldAdd(ca, cb) = (s % P) + 1
    BY <1>4 DEF Cuda!FieldAdd
  <2>3. ((s % P) + 1) % P = (s + 1) % P
    <3>1. s = (P * (s \div P)) + (s % P) /\ s \div P \in Int
      BY <2>1, DivMod
    <3>2. s + 1 = ((s % P) + 1) + (P * (s \div P))
      BY <2>1, <3>1
    <3>3. (s % P) + 1 \in Int
      BY <2>1
    <3> QED
      BY <3>1, <3>2, <3>3, ModShift
  <2>4. s + 1 = ca + cb
    OBVIOUS
  <2> QED
    BY <1>1, <1>2, <2>1, <2>2, <2>3, <2>4
<1> QED
  BY <1>3, <1>4

(***************************************************************************)
(* fifth_power: reducing after each of three products is reducing once.    *)
(***************************************************************************)
LEMMA PowerAgrees ==
  ASSUME NEW a \in 0 .. P, NEW ca \in 0 .. P, a % P = ca % P
  PROVE  /\ FifthPower(a) \in 0 .. P-1
         /\ Cuda!FifthPower(ca) = FifthPower(a)
<1> USE Modulus
<1> DEFINE s == (ca * ca) % P
           f == (s * s) % P
           n2 == ca * ca
           n4 == n2 * n2
<1>0. a \in Int /\ ca \in Int
  OBVIOUS
<1>1. s \in 0 .. P-1 /\ f \in 0 .. P-1 /\ n2 \in Int /\ n4 \in Int
  BY DivMod
<1>2. f = n4 % P
  <2> HIDE DEF n2
  <2>0. n2 \in Int /\ s \in Int
    BY <1>1
  <2>1. ((n2 % P) * s) % P = (n2 * s) % P
    BY <2>0, ModMul
  <2>2. ((n2 % P) * n2) % P = (n2 * n2) % P
    BY <2>0, ModMul
  <2>3. n2 * s = s * n2 /\ s = n2 % P
    BY <2>0 DEF n2
  <2> QED
    BY <2>1, <2>2, <2>3
<1>3. Cuda!FifthPower(ca) = (n4 * ca) % P
  <2>1. ((n4 % P) * ca) % P = (n4 * ca) % P
    <3> HIDE DEF n4
    <3> QED
      BY <1>0, <1>1, ModMul
  <2> QED
    BY <1>2, <2>1 DEF Cuda!FifthPower, Cuda!FieldMul
<1>4. ASSUME NEW u \in Int, NEW v \in Int, u % P = v % P, NEW w \in Int
      PROVE  (u * w) % P = (v * w) % P
  <2>1. ((u % P) * w) % P = (u * w) % P
    BY ModMul
  <2>2. ((v % P) * w) % P = (v * w) % P
    BY ModMul
  <2> QED
    BY <1>4, <2>1, <2>2
<1>5. (a * a * a * a * a) % P = (ca * ca * ca * ca * ca) % P
  <2>0. /\ a * a * a * a \in Int /\ ca * a * a * a \in Int
        /\ ca * ca * a * a \in Int /\ ca * ca * ca * a \in Int
        /\ ca * ca * ca * ca \in Int
    BY <1>0
  <2>a. \A w \in Int : (a * w) % P = (ca * w) % P
    BY <1>0, <1>4
  <2>1. (a * (a * a * a * a)) % P = (ca * (a * a * a * a)) % P
    BY ONLY <2>0, <2>a, Zenon
  <2>2. (a * (ca * a * a * a)) % P = (ca * (ca * a * a * a)) % P
    BY ONLY <2>0, <2>a, Zenon
  <2>3. (a * (ca * ca * a * a)) % P = (ca * (ca * ca * a * a)) % P
    BY ONLY <2>0, <2>a, Zenon
  <2>4. (a * (ca * ca * ca * a)) % P = (ca * (ca * ca * ca * a)) % P
    BY ONLY <2>0, <2>a, Zenon
  <2>5. (a * (ca * ca * ca * ca)) % P = (ca * (ca * ca * ca * ca)) % P
    BY ONLY <2>0, <2>a, Zenon
  <2>6. /\ a * (a * a * a * a) = a * a * a * a * a
        /\ ca * (a * a * a * a) = a * (ca * a * a * a)
        /\ ca * (ca * a * a * a) = a * (ca * ca * a * a)
        /\ ca * (ca * ca * a * a) = a * (ca * ca * ca * a)
        /\ ca * (ca * ca * ca * a) = a * (ca * ca * ca * ca)
        /\ ca * (ca * ca * ca * ca) = ca * ca * ca * ca * ca
    OBVIOUS
  <2> QED
    BY <2>1, <2>2, <2>3, <2>4, <2>5, <2>6
<1>6. n4 * ca = ca * ca * ca * ca * ca
  OBVIOUS
<1>7. a * a * a * a * a \in Int
  OBVIOUS
<1> QED
  BY <1>3, <1>5, <1>6, <1>7, DivMod DEF FifthPower

-----------------------------------------------------------------------------
(***************************************************************************)
(* What the two miners hold for one operand, and for one register.         *)
(***************************************************************************)
Operand(a, b) == a \in 0 .. P /\ b \in 0 .. P /\ a % P = b % P

Same(a, b) == a \in 0 .. P-1 /\ b \in 0 .. P /\ Related(a, b)

LEMMA SameOperand ==
  ASSUME NEW a, NEW b, Same(a, b)
  PROVE  Operand(a, b)
<1>1. a \in 0 .. P-1 /\ b \in 0 .. P /\ a = b % P
  BY DEF Same, Related
<1>2. a % P = a
  BY <1>1, Modulus
<1> QED
  BY <1>1, <1>2, Modulus DEF Operand

LEMMA SelfOperand ==
  ASSUME NEW a \in 0 .. P
  PROVE  Operand(a, a)
BY DEF Operand

LEMMA AddSame ==
  ASSUME NEW a, NEW b, NEW ca, NEW cb, Operand(a, ca), Operand(b, cb)
  PROVE  Same(FieldAdd(a, b), Cuda!FieldAdd(ca, cb))
BY AddAgrees DEF Operand, Same, Related

LEMMA PowerSame ==
  ASSUME NEW a, NEW ca, Operand(a, ca)
  PROVE  Same(FifthPower(a), Cuda!FifthPower(ca))
<1>1. FifthPower(a) \in 0 .. P-1 /\ Cuda!FifthPower(ca) = FifthPower(a)
  BY PowerAgrees DEF Operand
<1>2. FifthPower(a) % P = FifthPower(a)
  BY <1>1, Modulus
<1> QED
  BY <1>1, <1>2, Modulus DEF Same, Related

LEMMA WrapAgrees ==
  ASSUME NEW c \in Int
  PROVE  Operand(WrapCoordinate(c), Cuda!WrapCoordinate(c))
<1>1. Uint32(c) \in 0 .. Word-1 /\ Uint32(-c) \in 0 .. Word-1
  BY Modulus, DivMod DEF Uint32
<1>2. Cuda!WrapCoordinate(c) = WrapCoordinate(c)
  BY DEF WrapCoordinate, Cuda!WrapCoordinate, Uint32, Cuda!Uint32
<1>3. WrapCoordinate(c) \in 0 .. P
  BY <1>1, Modulus DEF WrapCoordinate
<1> QED
  BY <1>2, <1>3, SelfOperand

(***************************************************************************)
(* One round, and the last one.                                            *)
(***************************************************************************)
LEMMA RoundAgrees ==
  ASSUME NEW l, NEW r, NEW cl, NEW cr, Same(l, cl), Same(r, cr),
         NEW k \in 0 .. P, NEW c \in 0 .. P
  PROVE  /\ Same(Round(<<l, r>>, k, c)[1], Cuda!Round(<<cl, cr>>, k, c)[1])
         /\ Same(Round(<<l, r>>, k, c)[2], Cuda!Round(<<cl, cr>>, k, c)[2])
<1> DEFINE a == FieldAdd(k, l)          ca == Cuda!FieldAdd(k, cl)
           b == FieldAdd(a, c)          cb == Cuda!FieldAdd(ca, c)
           d == FifthPower(b)           cd == Cuda!FifthPower(cb)
<1>1. Operand(a, ca)
  BY SameOperand, SelfOperand, AddSame
<1>2. Operand(b, cb)
  <2> HIDE DEF a, ca
  <2> QED
    BY <1>1, SameOperand, SelfOperand, AddSame
<1>3. Operand(d, cd)
  <2> HIDE DEF b, cb
  <2> QED
    BY <1>2, SameOperand, PowerSame
<1>4. Same(FieldAdd(d, r), Cuda!FieldAdd(cd, cr))
  <2> HIDE DEF d, cd
  <2> QED
    BY <1>3, SameOperand, AddSame
<1> QED
  BY <1>4 DEF Round, Cuda!Round

LEMMA LastRoundAgrees ==
  ASSUME NEW l, NEW r, NEW cl, NEW cr, Same(l, cl), Same(r, cr),
         NEW k \in 0 .. P
  PROVE  /\ Same(LastRound(<<l, r>>, k)[1], Cuda!LastRound(<<cl, cr>>, k)[1])
         /\ Same(LastRound(<<l, r>>, k)[2], Cuda!LastRound(<<cl, cr>>, k)[2])
<1> DEFINE a == FieldAdd(k, l)          ca == Cuda!FieldAdd(k, cl)
           d == FifthPower(a)           cd == Cuda!FifthPower(ca)
<1>1. Operand(a, ca)
  BY SameOperand, SelfOperand, AddSame
<1>2. Operand(d, cd)
  <2> HIDE DEF a, ca
  <2> QED
    BY <1>1, SameOperand, PowerSame
<1>3. Same(FieldAdd(d, r), Cuda!FieldAdd(cd, cr))
  <2> HIDE DEF d, cd
  <2> QED
    BY <1>2, SameOperand, AddSame
<1> QED
  BY <1>3 DEF LastRound, Cuda!LastRound
-----------------------------------------------------------------------------
(***************************************************************************)
(* The invariant, register by register.                                    *)
(***************************************************************************)
Sponge(l, r, sl, sr) == [l |-> l, r |-> r, snap_l |-> sl, snap_r |-> sr]

Control ==
  /\ stage \in {"column", "mix column", "row", "mix row", "result"}
  /\ j \in 0 .. Len(C)
  /\ key \in 0 .. Word-1

LEMMA Registerwise ==
  ASSUME IInv
  PROVE  /\ Control
         /\ cpu \in Registers(P-1) /\ gpu \in Registers(P)
         /\ Same(cpu.l, gpu.l) /\ Same(cpu.r, gpu.r)
         /\ Same(cpu.snap_l, gpu.snap_l) /\ Same(cpu.snap_r, gpu.snap_r)
BY DEF IInv, TypeOK, SpongesAgree, Registers, Same, Control

LEMMA ExceptSponge ==
  ASSUME NEW n, NEW s \in Registers(n), NEW a, NEW b
  PROVE  [s EXCEPT !.l = a, !.r = b] = Sponge(a, b, s.snap_l, s.snap_r)
<1> DEFINE F == {"l", "r", "snap_l", "snap_r"}
           u == [s EXCEPT !.l = a]
           v == [u EXCEPT !.r = b]
           w == Sponge(a, b, s.snap_l, s.snap_r)
<1>1. DOMAIN s = F
  BY DEF Registers
<1>2. u = [f \in F |-> IF f = "l" THEN a ELSE s[f]]
  BY <1>1
<1>3. v = [f \in F |-> IF f = "r" THEN b ELSE u[f]]
  BY <1>2
<1>4. w = [f \in F |-> CASE f = "l" -> a [] f = "r" -> b [] OTHER -> s[f]]
  BY DEF Sponge
<1>5. v = w
  BY <1>2, <1>3, <1>4
<1> QED
  BY <1>5

LEMMA InjectSponge ==
  ASSUME NEW l, NEW r, NEW sl, NEW sr, NEW v
  PROVE  /\ Inject(Sponge(l, r, sl, sr), v) = Sponge(FieldAdd(l, v), r, sl, sr)
         /\ Cuda!Inject(Sponge(l, r, sl, sr), v) =
              Sponge(Cuda!FieldAdd(l, v), r, sl, sr)
BY DEF Inject, Cuda!Inject, Sponge

LEMMA FromRegisters ==
  ASSUME Control',
         NEW l, NEW r, NEW sl, NEW sr, NEW gl, NEW gr, NEW gsl, NEW gsr,
         cpu' = Sponge(l, r, sl, sr), gpu' = Sponge(gl, gr, gsl, gsr),
         Same(l, gl), Same(r, gr), Same(sl, gsl), Same(sr, gsr)
  PROVE  IInv'
<1>1. /\ cpu'.l = l /\ cpu'.r = r /\ cpu'.snap_l = sl /\ cpu'.snap_r = sr
      /\ gpu'.l = gl /\ gpu'.r = gr /\ gpu'.snap_l = gsl /\ gpu'.snap_r = gsr
  BY DEF Sponge
<1>2. SpongesAgree'
  BY <1>1 DEF SpongesAgree, Same, Related
<1>3. cpu' \in Registers(P-1) /\ gpu' \in Registers(P)
  BY DEF Sponge, Registers, Same
<1> QED
  BY <1>2, <1>3 DEF IInv, TypeOK, Control

LEMMA ConstantRange == Len(C) \in Nat /\ \A i \in 1 .. Len(C) : C[i] \in 0 .. P
<1>1. C \in Seq(0 .. P-1) /\ P \in Nat
  BY FieldAssumption
<1> QED
  BY <1>1

LEMMA ZeroSame == Same(0, 0)
BY Modulus DEF Same, Related

LEMMA InitInv == Init => IInv
<1> SUFFICES ASSUME Init PROVE IInv
  OBVIOUS
<1>1. TypeOK
  BY Modulus, ConstantRange DEF Init, TypeOK, NewSponge, Registers
<1>2. SpongesAgree
  BY ZeroSame DEF Init, SpongesAgree, NewSponge, Same
<1> QED
  BY <1>1, <1>2 DEF IInv

LEMMA InjectColumnInv ==
  ASSUME IInv, NEW c \in Coordinates, InjectColumn(c)
  PROVE  IInv'
<1> DEFINE l == FieldAdd(0, WrapCoordinate(c))
           gl == Cuda!FieldAdd(0, Cuda!WrapCoordinate(c))
<1>1. Same(l, gl)
  BY CoordinateAssumption, WrapAgrees, SelfOperand, AddSame, Modulus
<1>2. /\ cpu' = Sponge(l, 0, cpu.snap_l, cpu.snap_r)
      /\ gpu' = Sponge(gl, 0, gpu.snap_l, gpu.snap_r)
  <2>1. /\ Reset(cpu) = Sponge(0, 0, cpu.snap_l, cpu.snap_r)
        /\ Cuda!Reset(gpu) = Sponge(0, 0, gpu.snap_l, gpu.snap_r)
    BY Registerwise, ExceptSponge DEF Reset, Cuda!Reset
  <2>2. /\ cpu' = Inject(Reset(cpu), WrapCoordinate(c))
        /\ gpu' = Cuda!Inject(Cuda!Reset(gpu), Cuda!WrapCoordinate(c))
    BY DEF InjectColumn
  <2> QED
    BY <2>1, <2>2, InjectSponge
<1>3. Control'
  <2>1. key \in 0 .. Word-1
    BY Registerwise DEF Control
  <2>2. 0 \in 0 .. Len(C)
    BY ConstantRange
  <2> QED
    BY <2>1, <2>2 DEF InjectColumn, Control
<1> HIDE DEF l, gl
<1> QED
  BY <1>1, <1>2, <1>3, Registerwise, ZeroSame, FromRegisters

LEMMA InjectRowInv ==
  ASSUME IInv, NEW c \in Coordinates, InjectRow(c)
  PROVE  IInv'
<1> DEFINE l == FieldAdd(cpu.snap_l, WrapCoordinate(c))
           gl == Cuda!FieldAdd(gpu.snap_l, Cuda!WrapCoordinate(c))
<1>1. Same(l, gl)
  BY Registerwise, CoordinateAssumption, WrapAgrees, SameOperand, AddSame
<1>2. /\ cpu' = Sponge(l, cpu.snap_r, cpu.snap_l, cpu.snap_r)
      /\ gpu' = Sponge(gl, gpu.snap_r, gpu.snap_l, gpu.snap_r)
  <2>1. /\ Restore(cpu) =
             Sponge(cpu.snap_l, cpu.snap_r, cpu.snap_l, cpu.snap_r)
        /\ Cuda!Restore(gpu) =
             Sponge(gpu.snap_l, gpu.snap_r, gpu.snap_l, gpu.snap_r)
    BY Registerwise, ExceptSponge DEF Restore, Cuda!Restore
  <2>2. /\ cpu' = Inject(Restore(cpu), WrapCoordinate(c))
        /\ gpu' = Cuda!Inject(Cuda!Restore(gpu), Cuda!WrapCoordinate(c))
    BY DEF InjectRow
  <2> QED
    BY <2>1, <2>2, InjectSponge
<1>3. Control'
  <2>1. key \in 0 .. Word-1
    BY Registerwise DEF Control
  <2>2. 0 \in 0 .. Len(C)
    BY ConstantRange
  <2> QED
    BY <2>1, <2>2 DEF InjectRow, Control
<1> HIDE DEF l, gl
<1> QED
  BY <1>1, <1>2, <1>3, Registerwise, FromRegisters

LEMMA MixRoundInv ==
  ASSUME IInv, MixRound
  PROVE  IInv'
<1> DEFINE a == Round(<<cpu.l, cpu.r>>, key, C[j+1])
           b == Cuda!Round(<<gpu.l, gpu.r>>, key, C[j+1])
<1>1. /\ j < Len(C) /\ j' = j + 1 /\ UNCHANGED <<stage, key>>
      /\ cpu' = [cpu EXCEPT !.l = a[1], !.r = a[2]]
      /\ gpu' = [gpu EXCEPT !.l = b[1], !.r = b[2]]
  BY DEF MixRound
<1>2. j \in Nat /\ key \in 0 .. P /\ C[j+1] \in 0 .. P
  <2>1. j \in 0 .. Len(C) /\ key \in 0 .. Word-1
    BY Registerwise DEF Control
  <2>2. j + 1 \in 1 .. Len(C)
    BY <1>1, <2>1, ConstantRange
  <2> QED
    BY <2>1, <2>2, ConstantRange, Modulus
<1>3. Same(a[1], b[1]) /\ Same(a[2], b[2])
  BY <1>2, Registerwise, RoundAgrees
<1> HIDE DEF a, b
<1>4. /\ cpu' = Sponge(a[1], a[2], cpu.snap_l, cpu.snap_r)
      /\ gpu' = Sponge(b[1], b[2], gpu.snap_l, gpu.snap_r)
  BY <1>1, Registerwise, ExceptSponge
<1>5. Control'
  <2>1. Control /\ j + 1 \in 0 .. Len(C)
    BY <1>1, <1>2, Registerwise, ConstantRange
  <2> QED
    BY <1>1, <2>1 DEF Control
<1> QED
  BY <1>3, <1>4, <1>5, Registerwise, FromRegisters

LEMMA MixLastInv ==
  ASSUME IInv, MixLast
  PROVE  IInv'
<1> DEFINE a == LastRound(<<cpu.l, cpu.r>>, key)
           b == Cuda!LastRound(<<gpu.l, gpu.r>>, key)
           s == [cpu EXCEPT !.l = a[1], !.r = a[2]]
           t == [gpu EXCEPT !.l = b[1], !.r = b[2]]
<1>1. /\ UNCHANGED <<j, key>>
      /\ \/ cpu' = Save(s) /\ gpu' = Cuda!Save(t) /\ stage' = "row"
         \/ cpu' = s /\ gpu' = t /\ stage' = "result"
  BY DEF MixLast
<1>2. key \in 0 .. P
  <2>1. key \in 0 .. Word-1
    BY Registerwise DEF Control
  <2> QED
    BY <2>1, Modulus
<1>3. Same(a[1], b[1]) /\ Same(a[2], b[2])
  BY <1>2, Registerwise, LastRoundAgrees
<1> HIDE DEF a, b
<1>4. /\ s = Sponge(a[1], a[2], cpu.snap_l, cpu.snap_r)
      /\ t = Sponge(b[1], b[2], gpu.snap_l, gpu.snap_r)
  BY Registerwise, ExceptSponge
<1> HIDE DEF s, t
<1>5. Control'
  BY <1>1, Registerwise DEF Control
<1>6. CASE cpu' = Save(s) /\ gpu' = Cuda!Save(t)
  <2>1. /\ cpu' = Sponge(a[1], a[2], a[1], a[2])
        /\ gpu' = Sponge(b[1], b[2], b[1], b[2])
    BY <1>4, <1>6 DEF Save, Cuda!Save, Sponge
  <2> QED
    BY <1>3, <1>5, <2>1, FromRegisters
<1>7. CASE cpu' = s /\ gpu' = t
  BY <1>3, <1>4, <1>5, <1>7, Registerwise, FromRegisters
<1> QED
  BY <1>1, <1>6, <1>7

(***************************************************************************)
(* The registers of both sponges stay in range, and always stand for the   *)
(* same field elements.                                                    *)
(***************************************************************************)
THEOREM AlwaysAgree == Spec => [](TypeOK /\ SpongesAgree)
<1>1. Init => IInv
  BY InitInv
<1>2. IInv /\ [Next]_vars => IInv'
  <2> SUFFICES ASSUME IInv, [Next]_vars PROVE IInv'
    OBVIOUS
  <2>1. CASE UNCHANGED vars
    BY <2>1 DEF vars, IInv, TypeOK, SpongesAgree
  <2> QED
    BY <2>1, InjectColumnInv, InjectRowInv, MixRoundInv, MixLastInv DEF Next
<1>3. IInv => TypeOK /\ SpongesAgree
  BY DEF IInv
<1> QED
  BY <1>1, <1>2, <1>3, PTL DEF Spec

(***************************************************************************)
(* For every rarity, the two miners take the same locations for planets,   *)
(* with the same hashes, but for a zero hash that the GPU holds as P.      *)
(***************************************************************************)
THEOREM PlanetsAlwaysAgree == Spec => []PlanetsAgree
<1>1. TypeOK /\ SpongesAgree => PlanetsAgree
  <2> SUFFICES ASSUME TypeOK, SpongesAgree, NEW rarity \in 1 .. Word-1
               PROVE  /\ gpu.l < P \div rarity =>
                           cpu.l < P \div rarity /\ gpu.l = cpu.l
                      /\ cpu.l < P \div rarity /\ ~ (gpu.l < P \div rarity) =>
                           cpu.l = 0 /\ gpu.l = P
    BY DEF PlanetsAgree, IsPlanet, Cuda!IsPlanet, Result, Cuda!Result
  <2>1. cpu.l \in 0 .. P-1 /\ gpu.l \in 0 .. P /\ cpu.l = gpu.l % P
    BY DEF TypeOK, SpongesAgree, Registers, Related
  <2>2. gpu.l = cpu.l \/ (gpu.l = P /\ cpu.l = 0)
    BY <2>1, Modulus
  <2>3. P \div rarity \in Int /\ P \div rarity <= P
    BY Modulus
  <2> QED
    BY <2>1, <2>2, <2>3, Modulus
<1> QED
  BY <1>1, AlwaysAgree, PTL

(***************************************************************************)
(* Every register of both sponges stays within its field.                  *)
(***************************************************************************)
THEOREM TypeCorrect == Spec => []TypeOK
BY AlwaysAgree, PTL
-----------------------------------------------------------------------------
(***************************************************************************)
(* Whole hashes: the rounds of a mix, as the recursive functions that the  *)
(* two miners' MixState are defined by.  There are such functions, because *)
(* a round stays in the field; round by round they agree.                  *)
(***************************************************************************)
CpuPairs == (0 .. P-1) \X (0 .. P-1)

GpuPairs == (0 .. P) \X (0 .. P)

SamePair(s, t) ==
  s \in CpuPairs /\ t \in GpuPairs /\ Same(s[1], t[1]) /\ Same(s[2], t[2])

CpuRounds(f, s, k) ==
  f = [m \in 0 .. Len(C) |-> IF m = 0 THEN s ELSE Round(f[m-1], k, C[m])]

GpuRounds(f, s, k) ==
  f = [m \in 0 .. Len(C) |-> IF m = 0 THEN s ELSE Cuda!Round(f[m-1], k, C[m])]

LEMMA PairAgrees ==
  ASSUME NEW s, NEW t, SamePair(s, t), NEW k \in 0 .. P, NEW c \in 0 .. P
  PROVE  /\ SamePair(Round(s, k, c), Cuda!Round(t, k, c))
         /\ SamePair(LastRound(s, k), Cuda!LastRound(t, k))
<1>1. s = <<s[1], s[2]>> /\ t = <<t[1], t[2]>>
  BY DEF SamePair, CpuPairs, GpuPairs
<1>2. Same(s[1], t[1]) /\ Same(s[2], t[2])
  BY DEF SamePair
<1> DEFINE a == Round(s, k, c)       b == Cuda!Round(t, k, c)
           d == LastRound(s, k)      e == Cuda!LastRound(t, k)
<1>3. Same(a[1], b[1]) /\ Same(a[2], b[2])
  BY <1>1, <1>2, RoundAgrees
<1>4. Same(d[1], e[1]) /\ Same(d[2], e[2])
  BY <1>1, <1>2, LastRoundAgrees
<1>5. /\ a = <<a[1], a[2]>> /\ b = <<b[1], b[2]>>
      /\ d = <<d[1], d[2]>> /\ e = <<e[1], e[2]>>
  BY DEF Round, LastRound, Cuda!Round, Cuda!LastRound
<1> HIDE DEF a, b, d, e
<1>6. SamePair(a, b)
  BY <1>3, <1>5 DEF SamePair, CpuPairs, GpuPairs, Same
<1>7. SamePair(d, e)
  BY <1>4, <1>5 DEF SamePair, CpuPairs, GpuPairs, Same
<1> QED
  BY <1>6, <1>7 DEF a, b, d, e

LEMMA PairOf ==
  /\ \A s \in CpuPairs : SamePair(s, s)
  /\ \A t \in GpuPairs : SamePair(<<t[1] % P, t[2] % P>>, t)
<1>1. \A a \in 0 .. P-1 : Same(a, a)
  BY Modulus DEF Same, Related
<1>2. \A a \in 0 .. P : Same(a % P, a)
  BY Modulus, DivMod DEF Same, Related
<1>3. ASSUME NEW s \in CpuPairs PROVE SamePair(s, s)
  <2>1. s[1] \in 0 .. P-1 /\ s[2] \in 0 .. P-1 /\ s = <<s[1], s[2]>>
    BY DEF CpuPairs
  <2>2. s \in GpuPairs
    BY <2>1, Modulus DEF GpuPairs
  <2> QED
    BY <1>1, <2>1, <2>2 DEF SamePair
<1>4. ASSUME NEW t \in GpuPairs PROVE SamePair(<<t[1] % P, t[2] % P>>, t)
  <2>1. t[1] \in 0 .. P /\ t[2] \in 0 .. P
    BY DEF GpuPairs
  <2>2. Same(t[1] % P, t[1]) /\ Same(t[2] % P, t[2])
    BY <1>2, <2>1
  <2>3. <<t[1] % P, t[2] % P>> \in CpuPairs
    BY <2>2 DEF Same, CpuPairs
  <2> QED
    BY <2>2, <2>3 DEF SamePair
<1> QED
  BY <1>3, <1>4

LEMMA CpuRoundsExist ==
  ASSUME NEW s \in CpuPairs, NEW k \in 0 .. P
  PROVE  \E f : CpuRounds(f, s, k)
<1> DEFINE N == Len(C)
           step == [p \in (1 .. N) \X CpuPairs |-> Round(p[2], k, C[p[1]])]
<1>1. N \in Nat /\ \A m \in 1 .. N : C[m] \in 0 .. P
  BY ConstantRange
<1> HIDE DEF N
<1>2. \A m \in 1 .. N, t \in CpuPairs : Round(t, k, C[m]) \in CpuPairs
  BY <1>1, PairOf, PairAgrees DEF SamePair
<1>3. step \in [(1 .. N) \X CpuPairs -> CpuPairs]
  BY <1>2
<1>4. \A m \in 1 .. N, t \in CpuPairs : step[<<m, t>>] = Round(t, k, C[m])
  OBVIOUS
<1> HIDE DEF step
<1>5. PICK f : Iterates(f, N, CpuPairs, s, step)
  BY <1>1, <1>3, Recursion
<1>6. f \in [0 .. N -> CpuPairs] /\ f[0] = s
  BY <1>5 DEF Iterates
<1>7. ASSUME NEW m \in 0 .. N
      PROVE  f[m] = IF m = 0 THEN s ELSE Round(f[m-1], k, C[m])
  <2>1. CASE m = 0
    BY <1>6, <2>1
  <2>2. CASE m # 0
    <3>1. m \in 1 .. N /\ f[m-1] \in CpuPairs
      BY <1>1, <1>6, <2>2
    <3>2. f[m] = step[<<m, f[m-1]>>]
      BY <3>1, <1>5 DEF Iterates
    <3> QED
      BY <3>1, <3>2, <1>4, <2>2
  <2> QED
    BY <2>1, <2>2
<1>8. f = [m \in 0 .. N |-> IF m = 0 THEN s ELSE Round(f[m-1], k, C[m])]
  BY <1>6, <1>7
<1> QED
  BY <1>8 DEF CpuRounds, N

LEMMA GpuRoundsExist ==
  ASSUME NEW s \in GpuPairs, NEW k \in 0 .. P
  PROVE  \E f : GpuRounds(f, s, k)
<1> DEFINE N == Len(C)
           step == [p \in (1 .. N) \X GpuPairs |-> Cuda!Round(p[2], k, C[p[1]])]
<1>1. N \in Nat /\ \A m \in 1 .. N : C[m] \in 0 .. P
  BY ConstantRange
<1> HIDE DEF N
<1>2. \A m \in 1 .. N, t \in GpuPairs : Cuda!Round(t, k, C[m]) \in GpuPairs
  BY <1>1, PairOf, PairAgrees DEF SamePair
<1>3. step \in [(1 .. N) \X GpuPairs -> GpuPairs]
  BY <1>2
<1>4. \A m \in 1 .. N, t \in GpuPairs : step[<<m, t>>] = Cuda!Round(t, k, C[m])
  OBVIOUS
<1> HIDE DEF step
<1>5. PICK f : Iterates(f, N, GpuPairs, s, step)
  BY <1>1, <1>3, Recursion
<1>6. f \in [0 .. N -> GpuPairs] /\ f[0] = s
  BY <1>5 DEF Iterates
<1>7. ASSUME NEW m \in 0 .. N
      PROVE  f[m] = IF m = 0 THEN s ELSE Cuda!Round(f[m-1], k, C[m])
  <2>1. CASE m = 0
    BY <1>6, <2>1
  <2>2. CASE m # 0
    <3>1. m \in 1 .. N /\ f[m-1] \in GpuPairs
      BY <1>1, <1>6, <2>2
    <3>2. f[m] = step[<<m, f[m-1]>>]
      BY <3>1, <1>5 DEF Iterates
    <3> QED
      BY <3>1, <3>2, <1>4, <2>2
  <2> QED
    BY <2>1, <2>2
<1>8. f = [m \in 0 .. N |-> IF m = 0 THEN s ELSE Cuda!Round(f[m-1], k, C[m])]
  BY <1>6, <1>7
<1> QED
  BY <1>8 DEF GpuRounds, N

LEMMA RoundsAgree ==
  ASSUME NEW s, NEW t, SamePair(s, t), NEW k \in 0 .. P,
         NEW f, CpuRounds(f, s, k), NEW g, GpuRounds(g, t, k)
  PROVE  SamePair(f[Len(C)], g[Len(C)])
<1> DEFINE N == Len(C)
           S == {m \in 0 .. N : SamePair(f[m], g[m])}
<1>1. N \in Nat /\ \A m \in 1 .. N : C[m] \in 0 .. P
  BY ConstantRange
<1>2. /\ f[0] = s /\ g[0] = t
      /\ \A m \in 1 .. N : f[m] = Round(f[m-1], k, C[m])
      /\ \A m \in 1 .. N : g[m] = Cuda!Round(g[m-1], k, C[m])
  <2>1. f = [m \in 0 .. N |-> IF m = 0 THEN s ELSE Round(f[m-1], k, C[m])]
    BY DEF CpuRounds
  <2>2. g = [m \in 0 .. N |-> IF m = 0 THEN t ELSE Cuda!Round(g[m-1], k, C[m])]
    BY DEF GpuRounds
  <2>3. \A m \in 1 .. N : m \in 0 .. N /\ m # 0
    BY <1>1
  <2> HIDE DEF N
  <2>4. f[0] = s /\ \A m \in 1 .. N : f[m] = Round(f[m-1], k, C[m])
    BY <1>1, <2>1, <2>3
  <2>5. g[0] = t /\ \A m \in 1 .. N : g[m] = Cuda!Round(g[m-1], k, C[m])
    BY <1>1, <2>2, <2>3
  <2> QED
    BY <2>4, <2>5
<1> HIDE DEF N
<1>3. 0 \in S
  BY <1>1, <1>2
<1>4. ASSUME NEW m \in 0 .. N-1, m \in S PROVE m+1 \in S
  <2>1. PICK n \in 1 .. N : n = m+1
    BY <1>1
  <2>2. n-1 = m /\ C[n] \in 0 .. P
    BY <1>1, <2>1
  <2>3. f[n] = Round(f[m], k, C[n]) /\ g[n] = Cuda!Round(g[m], k, C[n])
    BY <1>2, <2>2
  <2>4. SamePair(f[n], g[n])
    BY <1>4, <2>2, <2>3, PairAgrees
  <2> QED
    BY <1>1, <2>1, <2>4
<1> HIDE DEF S
<1>5. N \in S
  BY <1>1, <1>3, <1>4, BoundedInduction
<1> QED
  BY <1>5 DEF S, N

LEMMA MixAgrees ==
  ASSUME NEW s, NEW t, SamePair(s, t), NEW k \in 0 .. P
  PROVE  SamePair(MixState(s, k), Cuda!MixState(t, k))
<1> DEFINE f == CHOOSE h : CpuRounds(h, s, k)
           g == CHOOSE h : GpuRounds(h, t, k)
<1>1. CpuRounds(f, s, k)
  <2>1. \E h : CpuRounds(h, s, k)
    BY CpuRoundsExist DEF SamePair
  <2> QED
    BY <2>1, Zenon
<1>2. GpuRounds(g, t, k)
  <2>1. \E h : GpuRounds(h, t, k)
    BY GpuRoundsExist DEF SamePair
  <2> QED
    BY <2>1, Zenon
<1>3. MixState(s, k) = LastRound(f[Len(C)], k)
  BY Zenon DEF MixState, CpuRounds
<1>4. Cuda!MixState(t, k) = Cuda!LastRound(g[Len(C)], k)
  BY Zenon DEF Cuda!MixState, GpuRounds
<1> HIDE DEF f, g
<1>5. SamePair(f[Len(C)], g[Len(C)])
  BY <1>1, <1>2, RoundsAgree
<1>6. 0 \in 0 .. P
  BY Modulus
<1> QED
  BY <1>3, <1>4, <1>5, <1>6, PairAgrees

(***************************************************************************)
(* The two miners compute the same hash for every location and key: the    *)
(* kernel's, reduced, is the CPU's.                                        *)
(***************************************************************************)
THEOREM SameHash ==
  ASSUME NEW px \in Int, NEW py \in Int, NEW k \in 0 .. P
  PROVE  /\ PlanetHash(px, py, k) \in 0 .. P-1
         /\ Cuda!KernelHash(px, py, k) \in 0 .. P
         /\ PlanetHash(px, py, k) = Cuda!KernelHash(px, py, k) % P
<1> DEFINE a == FieldAdd(0, WrapCoordinate(px))
           b == Cuda!FieldAdd(0, Cuda!WrapCoordinate(px))
           s == ColumnState(px, k)
           t == Cuda!ColumnState(px, k)
           c == FieldAdd(s[1], WrapCoordinate(py))
           d == Cuda!FieldAdd(t[1], Cuda!WrapCoordinate(py))
<1>1. Operand(0, 0) /\ Same(0, 0)
  BY ZeroSame, SameOperand
<1>2. Same(a, b)
  BY <1>1, WrapAgrees, AddSame
<1>3. SamePair(<<a, 0>>, <<b, 0>>)
  BY <1>1, <1>2 DEF SamePair, Same, CpuPairs, GpuPairs
<1>4. SamePair(s, t)
  BY <1>3, MixAgrees DEF ColumnState, Cuda!ColumnState
<1>5. Same(s[1], t[1]) /\ Same(s[2], t[2])
  BY <1>4 DEF SamePair
<1>6. Same(c, d)
  BY <1>5, SameOperand, WrapAgrees, AddSame
<1>7. SamePair(<<c, s[2]>>, <<d, t[2]>>)
  BY <1>5, <1>6 DEF SamePair, Same, CpuPairs, GpuPairs
<1>8. SamePair(MixState(<<c, s[2]>>, k), Cuda!MixState(<<d, t[2]>>, k))
  BY <1>7, MixAgrees
<1>9. Same(PlanetHash(px, py, k), Cuda!KernelHash(px, py, k))
  BY <1>8 DEF SamePair, PlanetHash, Cuda!KernelHash
<1> QED
  BY <1>9 DEF Same, Related

(***************************************************************************)
(* So whatever the threshold, a planet the CUDA miner finds is one of the  *)
(* CPU miner's, with the same hash, and the one kind it misses is a planet *)
(* whose hash is zero and which the kernel holds as P.                     *)
(***************************************************************************)
THEOREM SamePlanets ==
  ASSUME NEW px \in Int, NEW py \in Int, NEW k \in 0 .. P, NEW t \in 0 .. P,
         NEW h, h = PlanetHash(px, py, k), NEW g, g = Cuda!KernelHash(px, py, k)
  PROVE  /\ Cuda!IsPlanet(g, t) => IsPlanet(h, t) /\ g = h
         /\ IsPlanet(h, t) /\ ~ Cuda!IsPlanet(g, t) => h = 0 /\ g = P
<1>1. h \in 0 .. P-1 /\ g \in 0 .. P /\ h = g % P
  BY SameHash
<1>2. g = h \/ (g = P /\ h = 0)
  BY <1>1, Modulus
<1> QED
  BY <1>1, <1>2, Modulus DEF IsPlanet, Cuda!IsPlanet
=============================================================================
