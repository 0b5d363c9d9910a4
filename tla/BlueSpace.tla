----------------------------- MODULE BlueSpace -----------------------------
(***************************************************************************)
(* The process from main to its end (blue-space/src/main.cc): parse_args,  *)
(* the choice of a miner, then run_benchmark on a miner that keeps its     *)
(* contract, or an Application (lib/application.cpp) that is built, wired  *)
(* to the miner and started on a port.                                     *)
(***************************************************************************)
EXTENDS Integers, Sequences, FiniteSets

CONSTANTS
  Word,          \* 2^32
  Ports,         \* 2^16, the number of values of an unsigned short
  CommandLines,  \* [flags, values]: flags given, and options with values
  PlanetsAt(_),  \* the planets of a chunk
  Null, NoCall

CudaOptions ==
  {"--cuda", "--cuda-device", "--cuda-thread-work-size", "--cuda-block-size",
   "--cuda-threads-per-item"}

CommonOptions ==
  {"--help", "--version", "--benchmark", "--stateless", "--http-port", "--cpu",
   "--cpu-threads", "--rarity", "--key", "--size"}

ASSUME CommandLineAssumption ==
  /\ Word \in Nat \ {0} /\ Ports \in 1 .. Word
  /\ \A l \in CommandLines : \A o \in DOMAIN l.values : l.values[o] \in 0 .. Word-1

VARIABLES
  has_cuda,   \* HAS_CUDA_MINER, fixed by the build
  line,       \* the command line
  stage,      \* where main is
  options,    \* what parse_args has stored, or Null
  miner,      \* the miner run has made, or Null
  app,        \* the Application: what its servers have been given
  port,       \* the port the server is told to listen on, or Null
  host, call, iter, base, result   \* as in Miner

minerVars == <<host, call, iter, base, result>>
vars == <<has_cuda, line, stage, options, miner, app, port, minerVars>>

(* Mutant: the CUDA flags are there in every build. *)
Registered_All == CommonOptions \cup CudaOptions

Registered == CommonOptions \cup (IF has_cuda THEN CudaOptions ELSE {})

(* CLI11 takes the options it knows, and throws on any other. *)
Parses(l) == (l.flags \cup DOMAIN l.values) \subseteq Registered

ValueOr(l, o, default) == IF o \in DOMAIN l.values THEN l.values[o] ELSE default

(* tpi is rounded up to one of the sizes the kernel is compiled for. *)
ThreadsPerItem(n) ==
  IF n <= 4 THEN 4 ELSE IF n <= 8 THEN 8 ELSE IF n <= 16 THEN 16 ELSE 32

MinerOptions(l) ==
  IF "--cuda" \in l.flags
  THEN [type             |-> "cuda",
        device           |-> ValueOr(l, "--cuda-device", 0),
        thread_work_size |-> ValueOr(l, "--cuda-thread-work-size", 16),
        block_size       |-> ValueOr(l, "--cuda-block-size", 32),
        threads_per_item |->
          ThreadsPerItem(ValueOr(l, "--cuda-threads-per-item", 8))]
  ELSE [type |-> "cpu", num_threads |-> ValueOr(l, "--cpu-threads", 0)]

Options(l) ==
  [run_mode  |-> IF "--benchmark" \in l.flags THEN "benchmark" ELSE "stateless",
   http_port |-> ValueOr(l, "--http-port", 8000),
   miner     |-> MinerOptions(l),
   rarity    |-> ValueOr(l, "--rarity", 16384),
   key       |-> ValueOr(l, "--key", 420),
   size      |-> ValueOr(l, "--size", 256)]

(* run_benchmark's chunk, around the origin. *)
Chunk(o) ==
  [x |-> -(o.size \div 2), y |-> -(o.size \div 2), side |-> o.size,
   rarity |-> o.rarity, key |-> o.key]

Calls == {Chunk(Options(l)) : l \in CommandLines}

(* A null pointer is no miner, and a chunk has finitely many planets. *)
ASSUME ChunkAssumption ==
  \A l \in CommandLines :
    /\ MinerOptions(l) # Null
    /\ Options(l).rarity # 0 => IsFiniteSet(PlanetsAt(Chunk(Options(l))))

NumIter == 2

Mine == INSTANCE Miner WITH
  Fatal <- Calls,
  PlanetsOf <- [c \in {d \in Calls : d.rarity # 0} |-> PlanetsAt(c)]

Unwired == [format |-> FALSE, method |-> Null, rest |-> Null]

Init ==
  /\ has_cuda \in BOOLEAN
  /\ line \in CommandLines
  /\ stage = "parse"
  /\ options = Null
  /\ miner = Null
  /\ app = Null
  /\ port = Null
  /\ Mine!Init

(* A ParseError is no std::invalid_argument: main does not catch it. *)
ParseError ==
  /\ stage = "parse" /\ ~ Parses(line)
  /\ stage' = "aborted"
  /\ UNCHANGED <<has_cuda, line, options, miner, app, port, minerVars>>

ParseArgs ==
  /\ stage = "parse" /\ Parses(line)
  /\ \/ /\ line.flags \cap {"--help", "--version"} # {}
        /\ stage' = "exited"
        /\ UNCHANGED options
     \/ /\ line.flags \cap {"--help", "--version"} = {}
        /\ stage' = "run"
        /\ options' = Options(line)
  /\ UNCHANGED <<has_cuda, line, miner, app, port, minerVars>>

Run ==
  /\ stage = "run"
  /\ miner' = IF options.miner.type = "cuda" /\ ~ has_cuda THEN Null
              ELSE options.miner
  /\ stage' = options.run_mode
  /\ UNCHANGED <<has_cuda, line, options, app, port, minerVars>>
-----------------------------------------------------------------------------
(***************************************************************************)
(* run_benchmark: NumIter calls of mine on one vector, then the report,    *)
(* which is a line of the log.                                             *)
(***************************************************************************)
configVars == <<has_cuda, line, options, miner, app, port>>

(* Mutant: the last iteration is left out. *)
LoopGoesOn_Early == iter < NumIter - 1

(* i < num_iter, where i is the number of calls so far. *)
LoopGoesOn == iter < NumIter

Benchmark ==
  /\ stage = "benchmark" /\ host = "ready" /\ LoopGoesOn
  /\ Mine!Begin(Chunk(options))
  /\ UNCHANGED <<configVars, stage>>

BenchmarkAgain ==
  /\ stage = "benchmark" /\ LoopGoesOn
  /\ Mine!BeginAgain
  /\ UNCHANGED <<configVars, stage>>

MinerReturns ==
  /\ Mine!Find \/ Mine!Return
  /\ UNCHANGED <<configVars, stage>>

MinerAborts ==
  /\ Mine!Abort
  /\ stage' = "aborted"
  /\ UNCHANGED configVars

Report ==
  /\ stage = "benchmark" /\ host = "returned" /\ ~ LoopGoesOn
  /\ stage' = "exited"
  /\ UNCHANGED <<configVars, minerVars>>
-----------------------------------------------------------------------------
(***************************************************************************)
(* Stateless mode: the Application with its servers, initialize, start.    *)
(***************************************************************************)
ConstructApplication ==
  /\ stage = "stateless" /\ app = Null
  /\ app' = Unwired
  /\ UNCHANGED <<has_cuda, line, stage, options, miner, port, minerVars>>

(* One StatelessApi on the miner, for the REST server and the RPC method.  *)
(* The method's weak pointer to it holds while the Application lives.      *)
Wired == [format |-> TRUE, method |-> miner, rest |-> miner]

InitializeApplication ==
  /\ stage = "stateless" /\ app # Null
  /\ app' = Wired
  /\ stage' = "initialized"
  /\ UNCHANGED <<has_cuda, line, options, miner, port, minerVars>>

(* Mutant: the port keeps its 32 bits. *)
BoundPort_Uncut(p) == p

(* Server::start takes an unsigned short. *)
BoundPort(p) == p % Ports

StartApplication ==
  /\ stage = "initialized"
  /\ port' = BoundPort(options.http_port)
  /\ stage' = "serving"
  /\ UNCHANGED <<has_cuda, line, options, miner, app, minerVars>>

(* Nothing the server throws, and no error to bind, is caught in main. *)
ServerThrows ==
  /\ stage = "serving"
  /\ stage' = "aborted"
  /\ UNCHANGED <<configVars, minerVars>>

Next ==
  \/ ParseError \/ ParseArgs \/ Run
  \/ Benchmark \/ BenchmarkAgain \/ MinerReturns \/ MinerAborts \/ Report
  \/ ConstructApplication \/ InitializeApplication \/ StartApplication
  \/ ServerThrows

Spec == Init /\ [][Next]_vars
-----------------------------------------------------------------------------
TypeOK ==
  /\ has_cuda \in BOOLEAN
  /\ line \in CommandLines
  /\ stage \in {"parse", "run", "benchmark", "stateless", "initialized",
                "serving", "exited", "aborted"}
  /\ options \in {Null, Options(line)}
  /\ miner \in {Null, MinerOptions(line)}
  /\ app \in {Null, Unwired} \/ app.format
  /\ port \in {Null} \cup (0 .. Ports-1)
  /\ host \in {"ready", "mining", "returned", "aborted"}
  /\ iter \in 0 .. NumIter /\ base \in 0 .. Len(result)

(***************************************************************************)
(* Nothing is mined or served without a miner, of the kind asked for.      *)
(* run leaves the pointer null for the CUDA miner of a build without one,  *)
(* and nothing checks it: only that such a build does not know the flag    *)
(* keeps run_benchmark and mine_single from using it.                      *)
(***************************************************************************)
MinerReady ==
  stage \in {"benchmark", "stateless", "initialized", "serving"} =>
    /\ miner # Null
    /\ miner.type = IF "--cuda" \in line.flags THEN "cuda" ELSE "cpu"

(***************************************************************************)
(* A benchmark that comes to its end has every planet of its chunk in the  *)
(* vector NumIter times, and nothing else.                                 *)
(***************************************************************************)
BenchmarkResult ==
  stage = "exited" /\ options # Null =>
    /\ Len(result) = NumIter * Cardinality(PlanetsAt(Chunk(options)))
    /\ \A p \in PlanetsAt(Chunk(options)) :
         Cardinality({n \in DOMAIN result : result[n] = p}) = NumIter

(***************************************************************************)
(* The server listens on the port that --http-port sets.                   *)
(***************************************************************************)
PortAsGiven == port # Null => port = options.http_port
-----------------------------------------------------------------------------
(***************************************************************************)
(* The inductive invariant.  Each stage of main finds what the earlier     *)
(* ones have left: options that were parsed, a miner of the build, the     *)
(* Application wired to it.                                                *)
(***************************************************************************)
WiringInv ==
  /\ stage = "parse" => options = Null
  /\ stage \in {"run", "benchmark", "stateless", "initialized", "serving"} =>
       Parses(line) /\ options = Options(line)
  /\ stage \in {"benchmark", "stateless", "initialized", "serving"} =>
       miner = MinerOptions(line)
  /\ stage \in {"initialized", "serving"} => app = Wired

Distinct(from, to) ==
  \A m, n \in from .. to : result[m] = result[n] => m = n

(***************************************************************************)
(* The benchmark's vector: the planets of the chunk up to base, if this is *)
(* the second call, and after base some of them, each once; all of them    *)
(* when the call has returned.                                             *)
(***************************************************************************)
VectorInv ==
  LET c == Chunk(Options(line))
  IN  /\ host = "mining" => stage = "benchmark"
      /\ host = "ready" => iter = 0
      /\ host # "ready" => call = c /\ iter # 0
      /\ iter < NumIter => base = 0
      /\ result \in Seq(PlanetsAt(c))
      /\ Distinct(1, base) /\ Distinct(base + 1, Len(result))
      /\ iter = NumIter => {result[n] : n \in 1 .. base} = PlanetsAt(c)
      /\ host = "returned" => c.rarity # 0 /\ Mine!Found = PlanetsAt(c)

(* With options stored, only a benchmark that has run in full exits. *)
ExitInv ==
  stage = "exited" /\ options # Null =>
    options = Options(line) /\ host = "returned" /\ iter = NumIter

IInv == TypeOK /\ WiringInv /\ VectorInv /\ ExitInv
=============================================================================
