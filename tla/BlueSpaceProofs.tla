-------------------------- MODULE BlueSpaceProofs --------------------------
(***************************************************************************)
(* For every set of command lines, either build and any planets: the miner *)
(* is there before it is used, and a benchmark ends with its planets twice *)
(* in the vector.                                                          *)
(***************************************************************************)
EXTENDS BlueSpace, SequenceTheorems, FiniteSetTheorems, TLAPS

(***************************************************************************)
(* What parse_args stores.                                                 *)
(***************************************************************************)
LEMMA ValueOrType ==
  ASSUME NEW l \in CommandLines, NEW o, NEW default \in Nat
  PROVE  ValueOr(l, o, default) \in Nat
BY CommandLineAssumption DEF ValueOr

LEMMA OptionsFields ==
  ASSUME NEW l \in CommandLines
  PROVE  /\ Options(l).run_mode \in {"benchmark", "stateless"}
         /\ Options(l).http_port \in Nat
         /\ Options(l).miner = MinerOptions(l)
<1>1. ValueOr(l, "--http-port", 8000) \in Nat
  BY ValueOrType
<1> QED
  BY <1>1 DEF Options

LEMMA MinerType ==
  ASSUME NEW l
  PROVE  MinerOptions(l).type = IF "--cuda" \in l.flags THEN "cuda" ELSE "cpu"
BY DEF MinerOptions

(* A build without the CUDA miner does not know its flag. *)
LEMMA CudaParsed ==
  ASSUME NEW l, Parses(l), "--cuda" \in l.flags
  PROVE  has_cuda
<1>1. "--cuda" \in Registered
  BY DEF Parses
<1>2. "--cuda" \notin CommonOptions
  BY DEF CommonOptions
<1> QED
  BY <1>1, <1>2 DEF Registered

LEMMA PortCut ==
  ASSUME NEW p \in Nat
  PROVE  BoundPort(p) \in 0 .. Ports-1
BY CommandLineAssumption DEF BoundPort
-----------------------------------------------------------------------------
(***************************************************************************)
(* The vector the benchmark passes to the miner.                           *)
(***************************************************************************)
(* A part of a sequence that has no element twice is as long as its set.   *)
LEMMA PartLength ==
  ASSUME NEW S, NEW s \in Seq(S), NEW from \in Nat, NEW to \in Nat,
         from <= to, to <= Len(s), IsFiniteSet(S),
         \A m, n \in from+1 .. to : s[m] = s[n] => m = n,
         {s[n] : n \in from+1 .. to} = S
  PROVE  Cardinality(S) = to - from
<1> DEFINE I == from+1 .. to
           f == [n \in I |-> s[n]]
<1>1. I \subseteq 1 .. Len(s)
  OBVIOUS
<1>2. f \in [I -> S]
  BY ElementOfSeq
<1>3. f \in Bijection(I, S)
  <2>1. \A m, n \in I : f[m] = f[n] => m = n
    OBVIOUS
  <2>2. \A p \in S : \E n \in I : f[n] = p
    OBVIOUS
  <2> HIDE DEF f, I
  <2>3. DOMAIN f = I
    BY <1>2
  <2>4. f \in Injection(I, S)
    BY <1>2, <2>1, <2>3 DEF Injection, IsInjective
  <2>5. f \in Surjection(I, S)
    BY <1>2, <2>2 DEF Surjection
  <2> QED
    BY <2>4, <2>5 DEF Bijection
<1>4. IsFiniteSet(I) /\ Cardinality(I) = to - from
  <2>1. from+1 \in Int /\ to \in Int
    OBVIOUS
  <2>2. /\ IsFiniteSet(I)
        /\ Cardinality(I) = IF from+1 > to THEN 0 ELSE to - (from+1) + 1
    BY ONLY <2>1, FS_Interval
  <2> QED
    BY <2>2
<1> QED
  BY <1>3, <1>4, FS_Bijection DEF ExistsBijection

LEMMA InitInv == Init => IInv
<1> SUFFICES ASSUME Init PROVE IInv
  OBVIOUS
<1>1. result = << >> /\ Len(result) = 0 /\ base = 0 /\ iter = 0 /\ host = "ready"
  BY EmptySeq DEF Init, Mine!Init
<1>2. TypeOK
  BY <1>1 DEF Init, TypeOK, NumIter
<1>3. WiringInv
  BY DEF Init, WiringInv
<1>4. result \in Seq(PlanetsAt(Chunk(Options(line))))
  BY <1>1, EmptySeq
<1>5. VectorInv
  BY <1>1, <1>4 DEF VectorInv, Distinct, NumIter
<1>6. ExitInv
  BY DEF Init, ExitInv
<1> QED
  BY <1>2, <1>3, <1>5, <1>6 DEF IInv
-----------------------------------------------------------------------------
(***************************************************************************)
(* One lemma per action.  What the steps of main do not touch, they keep.  *)
(***************************************************************************)
LEMMA KeepsVector ==
  ASSUME IInv, UNCHANGED <<line, minerVars>>, host # "mining"
  PROVE  VectorInv'
BY DEF IInv, VectorInv, Distinct, Mine!Found, minerVars, NumIter

LEMMA VectorType ==
  ASSUME IInv
  PROVE  /\ Len(result) \in Nat /\ base \in 0 .. Len(result)
         /\ result \in Seq(PlanetsAt(Chunk(Options(line))))
BY LenProperties DEF IInv, TypeOK, VectorInv

LEMMA ParseErrorInv == IInv /\ ParseError => IInv'
<1> SUFFICES ASSUME IInv, ParseError PROVE IInv'
  OBVIOUS
<1>1. host # "mining"
  BY DEF IInv, VectorInv, ParseError
<1>2. VectorInv'
  BY <1>1, KeepsVector DEF ParseError
<1>3. TypeOK'
  BY DEF ParseError, IInv, TypeOK, minerVars
<1>4. WiringInv' /\ ExitInv'
  BY DEF ParseError, IInv, WiringInv, ExitInv, minerVars
<1> QED
  BY <1>2, <1>3, <1>4 DEF IInv

LEMMA ParseArgsInv == IInv /\ ParseArgs => IInv'
<1> SUFFICES ASSUME IInv, ParseArgs PROVE IInv'
  OBVIOUS
<1>1. host # "mining" /\ options = Null
  BY DEF IInv, VectorInv, WiringInv, ExitInv, ParseArgs
<1>2. VectorInv'
  BY <1>1, KeepsVector DEF ParseArgs
<1>3. TypeOK'
  BY DEF ParseArgs, IInv, TypeOK, minerVars
<1>4. WiringInv'
  <2>1. Parses(line)'
    BY DEF ParseArgs, Parses, Registered
  <2> QED
    BY <2>1 DEF ParseArgs, WiringInv
<1>5. ExitInv'
  BY <1>1 DEF ParseArgs, ExitInv
<1> QED
  BY <1>2, <1>3, <1>4, <1>5 DEF IInv

LEMMA RunInv == IInv /\ Run => IInv'
<1> SUFFICES ASSUME IInv, Run PROVE IInv'
  OBVIOUS
<1>1. /\ host # "mining" /\ line \in CommandLines
      /\ Parses(line) /\ options = Options(line)
  BY DEF IInv, TypeOK, VectorInv, WiringInv, ExitInv, Run
<1>2. options.miner = MinerOptions(line) /\ options.run_mode \in {"benchmark", "stateless"}
  BY <1>1, OptionsFields
<1>3. ~ (options.miner.type = "cuda" /\ ~ has_cuda)
  BY <1>1, <1>2, MinerType, CudaParsed
<1>4. miner' = MinerOptions(line)
  BY <1>2, <1>3 DEF Run
<1>5. VectorInv'
  BY <1>1, KeepsVector DEF Run
<1>6. TypeOK'
  BY <1>2, <1>4 DEF Run, IInv, TypeOK, minerVars
<1>7. WiringInv'
  <2>1. Parses(line)'
    BY <1>1 DEF Run, Parses, Registered
  <2> QED
    BY <1>1, <1>2, <1>4, <2>1 DEF Run, WiringInv
<1>8. ExitInv'
  BY <1>1, <1>2 DEF Run, ExitInv
<1> QED
  BY <1>5, <1>6, <1>7, <1>8 DEF IInv

LEMMA BenchmarkInv == IInv /\ Benchmark => IInv'
<1> SUFFICES ASSUME IInv, Benchmark PROVE IInv'
  OBVIOUS
<1>1. options = Options(line)
  BY DEF IInv, WiringInv, ExitInv, Benchmark
<1>2. /\ host' = "mining" /\ call' = Chunk(options) /\ iter' = 1
      /\ base' = 0 /\ result' = << >> /\ Len(result') = 0
      /\ result' \in Seq(PlanetsAt(Chunk(Options(line))))
  BY EmptySeq DEF Benchmark, Mine!Begin
<1>3. UNCHANGED <<configVars, stage>> /\ stage = "benchmark"
  BY DEF Benchmark
<1>4. TypeOK'
  BY <1>2, <1>3 DEF IInv, TypeOK, NumIter, configVars
<1>5. WiringInv' /\ ExitInv'
  BY <1>1, <1>3 DEF IInv, WiringInv, ExitInv, configVars, Parses, Registered
<1>6. VectorInv'
  BY <1>1, <1>2, <1>3 DEF VectorInv, Distinct, NumIter, configVars
<1> QED
  BY <1>4, <1>5, <1>6 DEF IInv

LEMMA BenchmarkAgainInv == IInv /\ BenchmarkAgain => IInv'
<1> SUFFICES ASSUME IInv, BenchmarkAgain PROVE IInv'
  OBVIOUS
<1> DEFINE S == PlanetsAt(Chunk(Options(line)))
<1>1. /\ host = "returned" /\ iter < NumIter /\ host' = "mining"
      /\ iter' = iter + 1 /\ base' = Len(result)
      /\ call' = call /\ result' = result
  BY DEF BenchmarkAgain, Mine!BeginAgain
<1>2. UNCHANGED <<configVars, stage>> /\ stage = "benchmark"
  BY DEF BenchmarkAgain
<1>3. /\ iter \in 0 .. NumIter /\ iter # 0 /\ call = Chunk(Options(line))
      /\ base = 0 /\ Distinct(base + 1, Len(result)) /\ Mine!Found = S
  BY <1>1, <1>2 DEF IInv, TypeOK, VectorInv, ExitInv
<1>4. iter = 1 /\ iter' = 2
  BY <1>1, <1>3 DEF NumIter
<1>5. Len(result) \in Nat /\ result \in Seq(S)
  BY VectorType
<1>6. Distinct(1, base)'
  BY <1>1, <1>3 DEF Distinct
<1>7. Distinct(base + 1, Len(result))'
  BY <1>1, <1>5 DEF Distinct
<1>8. {result'[n] : n \in 1 .. base'} = S
  BY <1>1, <1>3 DEF Mine!Found
<1>9. VectorInv'
  BY <1>1, <1>2, <1>3, <1>4, <1>5, <1>6, <1>7, <1>8 DEF VectorInv, NumIter, configVars
<1>10. TypeOK'
  BY <1>1, <1>2, <1>4, <1>5 DEF IInv, TypeOK, NumIter, configVars
<1>11. WiringInv' /\ ExitInv'
  BY <1>2, <1>3 DEF IInv, WiringInv, ExitInv, configVars, Parses, Registered
<1> QED
  BY <1>9, <1>10, <1>11 DEF IInv

LEMMA MinerReturnsInv == IInv /\ MinerReturns => IInv'
<1> SUFFICES ASSUME IInv, MinerReturns PROVE IInv'
  OBVIOUS
<1> DEFINE c == Chunk(Options(line))
           S == PlanetsAt(c)
<1>1. UNCHANGED <<configVars, stage>>
  BY DEF MinerReturns
<1>2. host = "mining" /\ UNCHANGED <<call, iter, base>>
  BY DEF MinerReturns, Mine!Find, Mine!Return
<1>3. /\ stage = "benchmark" /\ call = c /\ iter # 0
      /\ Distinct(1, base) /\ Distinct(base + 1, Len(result))
  BY <1>2 DEF IInv, VectorInv, ExitInv
<1>4. Len(result) \in Nat /\ base \in 0 .. Len(result) /\ result \in Seq(S)
  BY VectorType
<1>5. WiringInv' /\ ExitInv'
  BY <1>1, <1>3 DEF IInv, WiringInv, ExitInv, configVars, Parses, Registered, Wired
<1>6. CASE Mine!Find
  <2>1. /\ call \in {d \in Calls : d.rarity # 0} /\ host' = host
        /\ \E p \in S \ Mine!Found : result' = Append(result, p)
    BY <1>3, <1>6 DEF Mine!Find
  <2>2. PICK p \in S \ Mine!Found : result' = Append(result, p)
    BY <2>1
  <2>3. /\ Len(result') = Len(result) + 1 /\ result' \in Seq(S)
        /\ \A n \in 1 .. Len(result) : result'[n] = result[n]
        /\ result'[Len(result) + 1] = p
    BY <1>4, <2>2, AppendProperties
  <2>4. \A n \in base+1 .. Len(result) : result[n] # p
    BY <2>2 DEF Mine!Found
  <2>5. Distinct(base + 1, Len(result))'
    <3> SUFFICES ASSUME NEW m \in base+1 .. Len(result) + 1,
                        NEW n \in base+1 .. Len(result) + 1,
                        result'[m] = result'[n]
                 PROVE  m = n
      BY <1>2, <2>3 DEF Distinct
    <3>1. CASE m = Len(result) + 1 \/ n = Len(result) + 1
      BY <1>4, <2>3, <2>4, <3>1
    <3>2. CASE m \in base+1 .. Len(result) /\ n \in base+1 .. Len(result)
      BY <1>3, <1>4, <2>3, <3>2 DEF Distinct
    <3> QED
      BY <1>4, <3>1, <3>2
  <2>6. Distinct(1, base)'
    BY <1>2, <1>3, <1>4, <2>3 DEF Distinct
  <2>7. {result'[n] : n \in 1 .. base'} = {result[n] : n \in 1 .. base}
    BY <1>2, <1>4, <2>3
  <2>8. VectorInv'
    BY <1>1, <1>2, <1>3, <2>1, <2>3, <2>5, <2>6, <2>7 DEF IInv, VectorInv, configVars
  <2>9. TypeOK'
    BY <1>1, <1>2, <1>4, <2>1, <2>3 DEF IInv, TypeOK, configVars
  <2> QED
    BY <1>5, <2>8, <2>9 DEF IInv
<1>7. CASE Mine!Return
  <2>1. /\ call \in {d \in Calls : d.rarity # 0} /\ host' = "returned"
        /\ Mine!Found = S /\ result' = result
    BY <1>3, <1>7 DEF Mine!Return
  <2>2. VectorInv'
    BY <1>1, <1>2, <1>3, <1>4, <2>1
       DEF IInv, VectorInv, configVars, Distinct, Mine!Found
  <2>3. TypeOK'
    BY <1>1, <1>2, <1>4, <2>1 DEF IInv, TypeOK, configVars
  <2> QED
    BY <1>5, <2>2, <2>3 DEF IInv
<1> QED
  BY <1>6, <1>7 DEF MinerReturns

LEMMA MinerAbortsInv == IInv /\ MinerAborts => IInv'
<1> SUFFICES ASSUME IInv, MinerAborts PROVE IInv'
  OBVIOUS
<1>1. /\ host = "mining" /\ host' = "aborted" /\ stage' = "aborted"
      /\ UNCHANGED <<call, iter, base, result, configVars>>
  BY DEF MinerAborts, Mine!Abort
<1>2. VectorInv'
  BY <1>1 DEF IInv, VectorInv, Distinct, configVars
<1>3. TypeOK'
  BY <1>1 DEF IInv, TypeOK, configVars
<1>4. WiringInv' /\ ExitInv'
  BY <1>1 DEF WiringInv, ExitInv
<1> QED
  BY <1>2, <1>3, <1>4 DEF IInv

LEMMA ReportInv == IInv /\ Report => IInv'
<1> SUFFICES ASSUME IInv, Report PROVE IInv'
  OBVIOUS
<1>1. /\ stage = "benchmark" /\ host = "returned" /\ iter >= NumIter
      /\ stage' = "exited" /\ UNCHANGED <<configVars, minerVars>>
  BY DEF Report, LoopGoesOn, IInv, TypeOK, NumIter
<1>2. options = Options(line) /\ iter = NumIter
  BY <1>1 DEF IInv, TypeOK, WiringInv, NumIter
<1>3. VectorInv'
  BY <1>1, KeepsVector DEF configVars
<1>4. TypeOK'
  BY <1>1 DEF IInv, TypeOK, configVars, minerVars
<1>5. WiringInv' /\ ExitInv'
  BY <1>1, <1>2 DEF WiringInv, ExitInv, configVars, minerVars
<1> QED
  BY <1>3, <1>4, <1>5 DEF IInv

(* The steps of the stateless mode leave the miner's variables alone. *)
LEMMA StatelessStep ==
  ASSUME IInv, stage \in {"stateless", "initialized", "serving"},
         UNCHANGED <<line, minerVars>>, stage' # "exited"
  PROVE  VectorInv' /\ ExitInv'
<1>1. host # "mining"
  BY DEF IInv, VectorInv
<1>2. VectorInv'
  BY <1>1, KeepsVector
<1>3. ExitInv'
  BY DEF ExitInv
<1> QED
  BY <1>2, <1>3

LEMMA ConstructApplicationInv == IInv /\ ConstructApplication => IInv'
<1> SUFFICES ASSUME IInv, ConstructApplication PROVE IInv'
  OBVIOUS
<1>1. VectorInv' /\ ExitInv'
  BY StatelessStep DEF ConstructApplication
<1>2. TypeOK'
  BY DEF IInv, TypeOK, ConstructApplication, minerVars
<1>3. WiringInv'
  BY DEF IInv, WiringInv, ConstructApplication, Parses, Registered
<1> QED
  BY <1>1, <1>2, <1>3 DEF IInv

LEMMA InitializeApplicationInv == IInv /\ InitializeApplication => IInv'
<1> SUFFICES ASSUME IInv, InitializeApplication PROVE IInv'
  OBVIOUS
<1>1. VectorInv' /\ ExitInv'
  BY StatelessStep DEF InitializeApplication
<1>2. app' = Wired' /\ app'.format
  BY DEF InitializeApplication, Wired
<1>3. TypeOK'
  BY <1>2 DEF IInv, TypeOK, InitializeApplication, minerVars
<1>4. WiringInv'
  BY <1>2 DEF IInv, WiringInv, InitializeApplication, Parses, Registered
<1> QED
  BY <1>1, <1>3, <1>4 DEF IInv

LEMMA StartApplicationInv == IInv /\ StartApplication => IInv'
<1> SUFFICES ASSUME IInv, StartApplication PROVE IInv'
  OBVIOUS
<1>1. VectorInv' /\ ExitInv'
  BY StatelessStep DEF StartApplication
<1>2. options.http_port \in Nat
  BY OptionsFields DEF IInv, TypeOK, WiringInv, StartApplication
<1>3. port' \in 0 .. Ports-1
  BY <1>2, PortCut DEF StartApplication
<1>4. TypeOK'
  BY <1>3 DEF IInv, TypeOK, StartApplication, minerVars
<1>5. WiringInv'
  BY DEF IInv, WiringInv, StartApplication, Parses, Registered, Wired
<1> QED
  BY <1>1, <1>4, <1>5 DEF IInv

LEMMA ServerThrowsInv == IInv /\ ServerThrows => IInv'
<1> SUFFICES ASSUME IInv, ServerThrows PROVE IInv'
  OBVIOUS
<1>1. VectorInv' /\ ExitInv'
  BY StatelessStep DEF ServerThrows, configVars
<1>2. TypeOK'
  BY DEF IInv, TypeOK, ServerThrows, configVars, minerVars
<1>3. WiringInv'
  BY DEF WiringInv, ServerThrows
<1> QED
  BY <1>1, <1>2, <1>3 DEF IInv

LEMMA NextInv == IInv /\ [Next]_vars => IInv'
<1> SUFFICES ASSUME IInv, [Next]_vars PROVE IInv'
  OBVIOUS
<1>1. CASE UNCHANGED vars
  BY <1>1 DEF vars, minerVars, IInv, TypeOK, WiringInv, VectorInv, ExitInv,
              Distinct, Mine!Found, Parses, Registered, Wired
<1>2. CASE Next
  BY <1>2, ParseErrorInv, ParseArgsInv, RunInv, BenchmarkInv, BenchmarkAgainInv,
     MinerReturnsInv, MinerAbortsInv, ReportInv, ConstructApplicationInv,
     InitializeApplicationInv, StartApplicationInv, ServerThrowsInv
     DEF Next
<1> QED
  BY <1>1, <1>2
-----------------------------------------------------------------------------
(***************************************************************************)
(* The inductive invariant of the process: every stage of main finds what  *)
(* the earlier ones left, and the benchmark's vector grows by the planets. *)
(***************************************************************************)
THEOREM AlwaysIInv == Spec => []IInv
<1>1. Init => IInv
  BY InitInv
<1>2. IInv /\ [Next]_vars => IInv'
  BY NextInv
<1> QED
  BY <1>1, <1>2, PTL DEF Spec

(***************************************************************************)
(* Every variable keeps its type; a port is one of 16 bits.                *)
(***************************************************************************)
THEOREM TypeCorrect == Spec => []TypeOK
<1>1. IInv => TypeOK
  BY DEF IInv
<1> QED
  BY <1>1, AlwaysIInv, PTL

(***************************************************************************)
(* No mode of either build ever runs on a null miner, or on one of the     *)
(* other kind, although run leaves the pointer null for a kind it lacks.   *)
(***************************************************************************)
THEOREM MinerAlwaysReady == Spec => []MinerReady
<1>1. IInv => MinerReady
  <2> SUFFICES ASSUME IInv,
                      stage \in {"benchmark", "stateless", "initialized", "serving"}
               PROVE  /\ miner # Null
                      /\ miner.type = IF "--cuda" \in line.flags THEN "cuda" ELSE "cpu"
    BY DEF MinerReady
  <2>1. miner = MinerOptions(line) /\ line \in CommandLines
    BY DEF IInv, WiringInv, TypeOK
  <2> QED
    BY <2>1, MinerType, ChunkAssumption
<1> QED
  BY <1>1, AlwaysIInv, PTL

(***************************************************************************)
(* A benchmark that exits has every planet of its chunk twice, on any      *)
(* miner that keeps the contract.                                          *)
(***************************************************************************)
THEOREM BenchmarkIsRight == Spec => []BenchmarkResult
<1>1. IInv => BenchmarkResult
  <2> SUFFICES ASSUME IInv, stage = "exited", options # Null
               PROVE  /\ Len(result) = NumIter * Cardinality(PlanetsAt(Chunk(options)))
                      /\ \A p \in PlanetsAt(Chunk(options)) :
                           Cardinality({n \in DOMAIN result : result[n] = p}) = NumIter
    BY DEF BenchmarkResult
  <2> DEFINE c == Chunk(options)
             S == PlanetsAt(c)
  <2>1. options = Options(line) /\ host = "returned" /\ iter = NumIter
    BY DEF IInv, ExitInv
  <2>2. /\ c.rarity # 0 /\ Mine!Found = S /\ {result[n] : n \in 1 .. base} = S
        /\ Distinct(1, base) /\ Distinct(base + 1, Len(result))
    BY <2>1 DEF IInv, VectorInv
  <2>3. Len(result) \in Nat /\ base \in 0 .. Len(result) /\ result \in Seq(S)
    BY <2>1, VectorType
  <2>4. IsFiniteSet(S)
    BY <2>1, <2>2, ChunkAssumption DEF IInv, TypeOK, Chunk
  <2>5. {result[n] : n \in base+1 .. Len(result)} = S
    BY <2>2 DEF Mine!Found
  <2> HIDE DEF S, c
  <2>6. Cardinality(S) = base
    <3>1. \A m, n \in 0+1 .. base : result[m] = result[n] => m = n
      BY <2>2 DEF Distinct
    <3>2. {result[n] : n \in 0+1 .. base} = S
      BY <2>2
    <3>3. 0 \in Nat /\ base \in Nat /\ 0 <= base /\ base <= Len(result)
      BY <2>3
    <3>4. Cardinality(S) = base - 0
      BY ONLY <2>3, <2>4, <3>1, <3>2, <3>3, PartLength
    <3> QED
      BY <2>3, <3>4
  <2>7. Cardinality(S) = Len(result) - base
    <3>1. base \in Nat /\ base <= Len(result) /\ Len(result) <= Len(result)
      BY <2>3
    <3>2. \A m, n \in base+1 .. Len(result) : result[m] = result[n] => m = n
      BY <2>2 DEF Distinct
    <3> QED
      BY ONLY <2>3, <2>4, <2>5, <3>1, <3>2, PartLength
  <2>8. Len(result) = NumIter * Cardinality(S)
    BY <2>3, <2>6, <2>7 DEF NumIter
  <2>9. ASSUME NEW p \in S
        PROVE  Cardinality({n \in DOMAIN result : result[n] = p}) = NumIter
    <3>1. PICK m \in 1 .. base : result[m] = p
      BY <2>2
    <3>2. PICK n \in base+1 .. Len(result) : result[n] = p
      BY <2>5
    <3>3. m # n /\ DOMAIN result = 1 .. Len(result)
      BY <2>3, LenProperties
    <3>4. {k \in DOMAIN result : result[k] = p} = {m} \cup {n}
      BY <2>2, <2>3, <3>1, <3>2, <3>3 DEF Distinct
    <3>5. IsFiniteSet({m}) /\ Cardinality({m}) = 1
      BY FS_Singleton
    <3>6. Cardinality({m} \cup {n}) = 1 + 1
      <4>1. Cardinality({m} \cup {n}) =
              IF n \in {m} THEN Cardinality({m}) ELSE Cardinality({m}) + 1
        BY ONLY <3>5, FS_AddElement
      <4> QED
        BY <3>3, <3>5, <4>1
    <3>7. NumIter = 1 + 1
      BY DEF NumIter
    <3> QED
      BY <3>4, <3>6, <3>7
  <2> QED
    BY <2>8, <2>9 DEF S, c
<1> QED
  BY <1>1, AlwaysIInv, PTL
=============================================================================
