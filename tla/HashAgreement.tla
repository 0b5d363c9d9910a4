--------------------------- MODULE HashAgreement ---------------------------
(***************************************************************************)
(* The CPU sponge and the CUDA sponge hash the same locations in lockstep, *)
(* one round at a time: a column, then any number of its rows from the     *)
(* snapshot.  The two reduce differently (mpz_tdiv_r against a loop that   *)
(* stops at P), so a register that is 0 on the CPU may be P on the GPU.    *)
(* A kernel thread has one column; its registers are uninitialised until   *)
(* reset and save write them, like the ones a second column finds here.    *)
(***************************************************************************)
EXTENDS CpuHash

CONSTANT Coordinates

ASSUME CoordinateAssumption == Coordinates \subseteq Int

VARIABLES
  stage,      \* "column", "mix column", "row", "mix row" or "result"
  j,          \* rounds done in the current mix
  key,
  cpu, gpu    \* the two sponges

vars == <<stage, j, key, cpu, gpu>>

Cuda == INSTANCE CudaHash

Init ==
  /\ stage = "column"
  /\ j = 0
  /\ key \in 0 .. Word-1
  /\ cpu = NewSponge
  /\ gpu = NewSponge

(* A new column: wrap_coordinate, reset, inject. *)
InjectColumn(c) ==
  /\ stage \in {"column", "result"}
  /\ cpu' = Inject(Reset(cpu), WrapCoordinate(c))
  /\ gpu' = Cuda!Inject(Cuda!Reset(gpu), Cuda!WrapCoordinate(c))
  /\ stage' = "mix column"
  /\ j' = 0
  /\ UNCHANGED key

(* Mutant: the kernel does not restore its snapshot. *)
InjectRow_NoRestore(c) ==
  /\ stage \in {"row", "result"}
  /\ cpu' = Inject(Restore(cpu), WrapCoordinate(c))
  /\ gpu' = Cuda!Inject(gpu, Cuda!WrapCoordinate(c))
  /\ stage' = "mix row"
  /\ j' = 0
  /\ UNCHANGED key

(* A row of the column: wrap_coordinate, restore, inject. *)
InjectRow(c) ==
  /\ stage \in {"row", "result"}
  /\ cpu' = Inject(Restore(cpu), WrapCoordinate(c))
  /\ gpu' = Cuda!Inject(Cuda!Restore(gpu), Cuda!WrapCoordinate(c))
  /\ stage' = "mix row"
  /\ j' = 0
  /\ UNCHANGED key

MixRound ==
  /\ stage \in {"mix column", "mix row"}
  /\ j < Len(C)
  /\ LET a == Round(<<cpu.l, cpu.r>>, key, C[j+1])
         b == Cuda!Round(<<gpu.l, gpu.r>>, key, C[j+1])
     IN  /\ cpu' = [cpu EXCEPT !.l = a[1], !.r = a[2]]
         /\ gpu' = [gpu EXCEPT !.l = b[1], !.r = b[2]]
  /\ j' = j + 1
  /\ UNCHANGED <<stage, key>>

(* The last round, and after it save for a column, result for a row. *)
MixLast ==
  /\ stage \in {"mix column", "mix row"}
  /\ j = Len(C)
  /\ LET a == LastRound(<<cpu.l, cpu.r>>, key)
         b == Cuda!LastRound(<<gpu.l, gpu.r>>, key)
         s == [cpu EXCEPT !.l = a[1], !.r = a[2]]
         t == [gpu EXCEPT !.l = b[1], !.r = b[2]]
     IN  \/ /\ stage = "mix column"
            /\ cpu' = Save(s)
            /\ gpu' = Cuda!Save(t)
            /\ stage' = "row"
         \/ /\ stage = "mix row"
            /\ cpu' = s
            /\ gpu' = t
            /\ stage' = "result"
  /\ UNCHANGED <<j, key>>

Next ==
  \/ \E c \in Coordinates : InjectColumn(c) \/ InjectRow(c)
  \/ MixRound
  \/ MixLast

Spec == Init /\ [][Next]_vars
-----------------------------------------------------------------------------
Registers(n) == [l : 0 .. n, r : 0 .. n, snap_l : 0 .. n, snap_r : 0 .. n]

(***************************************************************************)
(* Neither sponge ever leaves its field: the CPU's registers stay below P, *)
(* the GPU's at most at P, so that no CGBN operation overflows.            *)
(***************************************************************************)
TypeOK ==
  /\ stage \in {"column", "mix column", "row", "mix row", "result"}
  /\ j \in 0 .. Len(C)
  /\ key \in 0 .. Word-1
  /\ cpu \in Registers(P-1)
  /\ gpu \in Registers(P)

(* The register of the GPU stands for the element in the CPU's. *)
Related(a, b) == a = b % P

(***************************************************************************)
(* After every operation the two sponges hold the same field elements.     *)
(***************************************************************************)
SpongesAgree ==
  /\ Related(cpu.l, gpu.l)
  /\ Related(cpu.r, gpu.r)
  /\ Related(cpu.snap_l, gpu.snap_l)
  /\ Related(cpu.snap_r, gpu.snap_r)

(***************************************************************************)
(* The two miners agree on which locations are planets and on their        *)
(* hashes, whatever the rarity, with one exception: a hash that is zero.   *)
(* The GPU may hold it as P, and then misses the planet; it never reports  *)
(* one the CPU does not.                                                   *)
(***************************************************************************)
PlanetsAgree ==
  stage = "result" =>
    \A rarity \in 1 .. Word-1 :
      LET onCpu == IsPlanet(Result(cpu), P \div rarity)
          onGpu == Cuda!IsPlanet(Cuda!Result(gpu), P \div rarity)
      IN  /\ onGpu => onCpu /\ Cuda!Result(gpu) = Result(cpu)
          /\ onCpu /\ ~ onGpu => Result(cpu) = 0 /\ Cuda!Result(gpu) = P

IInv == TypeOK /\ SpongesAgree
=============================================================================
