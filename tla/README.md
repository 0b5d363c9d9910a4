# A TLA+ model of blue-space

blue-space is a planet miner for the Dark Forest game: a web server (or a
benchmark) that asks a CPU or a CUDA miner for the planets of a square chunk of
the map. A location is a planet when the MiMC sponge hash of its coordinates is
below `P / rarity`. This directory models the process from `main` down to the
rounds of the hash on both devices, model-checks it with TLC, and proves every
safety property the passing runs check with TLAPS.

## The system

| Part | Source | State | Operations | Talks to |
|---|---|---|---|---|
| CPU hash | `miner-cpu/lib/hash.cc` | sponge `(l, r)` and its snapshot | reset, inject, mix, save, restore, result | called by the CPU miner |
| CPU miner | `miner-cpu/lib/miner.cc` | caller's vector; per thread a sponge and loop variables | `mine` | OpenMP team, critical section |
| CUDA hash | `miner-cuda/lib/miner.cu` 64-191 | the same sponge in 256-bit CGBN numbers | as above, with another reduction | called by the kernel |
| CUDA miner | `miner-cuda/lib/miner.cu` 193-412 | `initialized_`, the cached buffer on device and host | `initialize`, `prepare_cache`, `mine` | the kernel's thread groups, the CUDA runtime |
| Miner interface | `miner-common/.../miner.h` | - | `mine` | implemented by both miners |
| Session | `blue-space/lib/session.cpp` | stream with a deadline, parser, request handler | start, stop, handle_request, send_* | callbacks of asio/Beast |
| Listener, server | `blue-space/lib/listener.cpp`, `server.cpp` | acceptor, next session, its handler | initialize, start, accept loop, dispatch | sessions, REST and RPC servers |
| REST, RPC, API | `rest.cpp`, `rpc/*.cpp`, `api/stateless.cpp` | the API pointer, the method table | handle_request, `mine_single` | the miner, on the io thread |
| Application | `blue-space/lib/application.cpp` | the servers and their API | initialize, start | wires the miner to the endpoints |
| Command line | `blue-space/src/main.cc` | options | parse_args, run, run_benchmark | builds everything |

What is hard here: threads of an OpenMP team that share a vector; a private
sponge that is reused from row to row; kernel groups that fill a buffer kept
from an earlier call, in 32-bit index arithmetic; two implementations of one
hash that must agree; asynchronous handlers that go on after an error; a
deadline that runs while the only thread mines; arguments of 64 bits that reach
the miner with 32; options of 32 bits that end up in 16; a miner pointer that
nothing checks. `PROJECT.json` lists these as hazards, each at its line.

## Modules

- **CpuHash**, **CudaHash**: the two hashes, as operators on records. The
  modulus `P`, the round constants `C` and the number of values of a `uint32_t`
  (`Word`) are CONSTANTS. What differs between the two is kept: the CPU takes a
  remainder, the kernel subtracts `P` while the sum *exceeds* `P`, so it may hold
  `P` for zero. `MixState` iterates with a recursive function, so that both
  modules can be used in proofs.
- **Miner**: the abstract specification. A call appends the planets of the chunk
  to the caller's vector, each once, in any order, leaves the rest of the vector
  alone and returns only with all of them; arguments in `Fatal` may end the
  process instead. CpuMiner and CudaMiner implement it; Api and BlueSpace use it
  as the miner they call.
- **CpuMiner**: `CpuMiner::mine`. One action per step of a thread: `TakeColumn`
  (the `omp for`, in any order, then reset, inject, mix, save), `HashRow`
  (restore, inject, mix, the planet test), `EnterCritical` and `PushBack`
  (`push_back` split into reading the size and storing the element, so that the
  critical section matters), `EndColumn`; and per call `DivideByZero`, `Fork`,
  `Join`. Callers: `MineSingle` (an empty vector) and `BenchmarkAgain` (the same
  vector again). The thread-private sponge is constructed at `Fork` and gone at
  `Join`, which puts the registers back to `NewSponge`.
- **HashAgreement**: both sponges in lockstep, one round per step.
- **CudaMiner**: `CudaMiner::mine`. `Initialize`, `PrepareCache` (keeps a buffer
  of the same side length, stale items and all), `Launch`, `MineItem` (one item
  of one thread group; groups interleave), `Synchronize`, `Collect`, `Return`,
  and `CudaError` for every way the process may end. Numbers are copied as limbs
  (`FromMpz`, `ToMpz`), computed limb by limb so that the round trip can be
  proved. Items no kernel has written are `Junk`, and `Collect` may
  take one for a planet or not. Index arithmetic is modulo `Word`. A store
  outside the buffer is dropped or ends the process.
- **Session**, **HttpServer**: the session's operations on a record, and the
  server around them. Handlers run one at a time on the single thread
  (`Free`); `Dispatch` is `handle_request` down to the REST and RPC servers, and
  leaves the thread occupied (`serving`) while a request is mined. `OnReadError`
  follows the code: it stops the session and then handles the parser's message,
  which a failed read leaves as it was constructed, with an unknown method
  (`FailedMessage`): `start` passes `parser_->get()` to `async_read`, and Beast
  assigns that message only when a read succeeds. The answer is a 404 on a
  socket that is shut down. `Expire` lets the deadline of the last `start` pass at any
  time. A session with nothing pending is destroyed (`Release`). At most
  `MaxSockets` connections have a descriptor; beyond that `accept` fails and is
  begun again, which changes nothing, so that it is no step. The clients
  (`Connect`, `BeginRequest`, `EndRequest`, `HalfClose`, `Vanish`) and the parts
  of Beast and asio the code relies on are external and modelled from their use.
  Requests are eight kinds, told apart by what decides their handling.
- **Exchange**: what the web server promises a client, as an abstract
  specification: one request at a time is taken up, it gets its own reply, and
  nothing happens on a connection after its end. HttpServer implements it
  (`KeepsPromise`); `Link` maps a session's socket to the state of a connection.
- **Api**: one request's way through an endpoint. `Valid` is what the RPC method
  checks (five integers by position) or what the REST decoder does not throw on
  (five fields by name, numbers or strings that hold one). `Chunk` cuts size,
  rarity and key to 32 bits for the miner, while the answer repeats the 64-bit
  size. `Encode` is the answer: REST's property tree turns every number into a
  string and an empty array into `""` (`Blank`). Actions: `Ignore` (an empty body
  is not answered), `RpcFault`, `RestThrow` (the exception ends the process),
  `MineSingle`, the miner's steps, `Respond`, and `RespondOverflow`: when
  `x + side_length` overflows `int64_t`, which is undefined, the miner's loop goes
  around or never begins.
- **Stateless**: what the API's name says, as an abstract specification: a
  request is answered from the request alone. Api implements it
  (`KeepsStateless`), with `Decode` reading an answer as a set of planets.
- **BlueSpace**: `main` to its end, for the build with and the build without the
  CUDA miner (`has_cuda`): `ParseError`, `ParseArgs`, `Run` (which leaves the
  miner null when the build has none of that type), `Benchmark`,
  `BenchmarkAgain`, `Report`, and the Application's construction, `initialize`
  and `start`. What CLI11 does is external, modelled from its use.
- **MC_...**: constants and small chunks for TLC.
- **CpuMinerProofs**, **HashAgreementProofs**, **CudaMinerProofs**,
  **HttpServerProofs**, **ApiProofs**, **BlueSpaceProofs**: theorems about the
  module each is named for. **NumberLemmas**: remainders, places in a grid, and
  induction and recursion over numbers, for the proofs about the hash and the
  CUDA miner.

Each level relies on the one below only through an abstract specification: `main`
and the endpoints on `Miner`; HttpServer on an endpoint that answers, faults,
ignores, mines or throws, which is how Api's actions end.

Operators named `X_Suffix` directly before `X` are mutants of `X`: plausible
mistakes that a property must catch. No specification uses them.

## Runs

| Run | Configuration | Checks |
|---|---|---|
| `cpu_miner` | 2 threads, P=13, words of 8, 1 round, 5 chunks (across the origin, one column, empty, rarity 0, past the word), 2 calls on a vector, fairness | `TypeOK`, `IInv`, `MineCorrect`, refinement `KeepsContract`, `MineReturns` |
| `hash_agreement` | P=13, words of 8, 3 rounds, every key, 7 coordinates | `TypeOK`, `SpongesAgree`, `PlanetsAgree`, deadlock |
| `cuda_miner` | P=17, words of 16, 2 items x 2 groups, 5 chunks with sides 0 to 3, one row of blocks, fairness | `TypeOK`, `IInv`, `CoveredCorrect`, `DisjointWrites`, `KeepsContract`, `MineReturns` |
| `cuda_edge` | 1 item x 2 groups, words of 15: sides of 3 (two rows of blocks) and of 4 (whose square wraps to 1) share the miner | `CoveredCorrect`, `InBounds` |
| `cuda_gap` | 1 item x 1 group, side 2 | `FindsPlanets`, which is violated |
| `http_server` | 2 clients, 8 kinds of request, 1 request each | `TypeOK`, `IInv`, `OneOperation`, `HandlerInstalled`, `OnlyMineEnds` |
| `http_pipeline` | 2 clients, 3 kinds, 2 requests each | `RepliesInOrder`, refinement `KeepsPromise` |
| `http_live` | 2 clients, 1 descriptor, 3 kinds, fairness | `Accepted`, `ReadsEnd`, `RequestAnswered` |
| `api` | 20 requests on both endpoints, in any order; `int64_t` is -8..7, `uint32_t` is 0..3 | `TypeOK`, `IInv`, `ExactAnswer`, refinement `KeepsStateless` |
| `api_footprint` | the same | `MinesFootprint`, which is violated |
| `blue_space` | both builds, every combination of mode and miner flags, options at their edges | `TypeOK`, `IInv`, `MinerReady`, `BenchmarkResult` |
| `http_port` | a port past 16 bits | `PortAsGiven`, which is violated |

**Bounds.** Two threads suffice for a lost element or a column taken twice, three
columns for a thread that takes a second one while the other works. The field is
small so that hashes collide with thresholds and sums hit `P` exactly (the state
in which the GPU holds `P` and the CPU 0 is reached). Words are smaller than `P`,
as in the code, and coordinates lie on both sides of them. One round is enough
for the threads' interleavings; several rounds are what `hash_agreement` is
about. The CUDA chunks share a buffer, replace it, and come after a failed one.
`MaxRequests` bounds what a client sends; two pipelined requests are enough for
replies to swap. `MaxSockets` of 1 makes the second client wait for the first
one's descriptor. `MaxBlockSize` and `MaxGridY` stand for the device's limits,
`LimbCount` for the limbs of a number, `NumIter` is the benchmark's 2 (1 in
`cuda_edge`). In `api`, `Half` is 8 and `Word` 4, so that arguments of more than
a word and sums past the end of `int64_t` are among the requests. In `blue_space`
a word has 20 bits and a port 14: large enough for the literal defaults of
`parse_args` (a port of 8000, a rarity of 16384, a size of 256), small
enough that values on both sides of them exist; a few planets stand for those of
a chunk. Deadlock is not checked where the system may stop: after the process has
ended, or when no client does anything.

**Fairness.** `CpuMiner`: every thread with a step takes it (OpenMP threads are
preemptive), and so does the calling thread; callers owe nothing. `CudaMiner`:
the host goes on, the kernel's groups go on, and a launch the device cannot do
fails; nothing obliges any other runtime call to fail. `HttpServer`: the
io_context calls every handler that is ready, a `mine` call ends (as `MineReturns`
shows for both miners) and deadlines pass; clients owe nothing. All of it is weak
fairness; the other modules state none. `Accepted` with one
descriptor depends on deadlines, and on a client sending finitely many requests:
one that keeps sending in time keeps its descriptor.

**What they show.**

- The CPU miner returns exactly the planets, each once, for every interleaving.
  So does the CUDA miner when the launch is `Proper`: it covers the chunk, and
  neither `side * side` (`NoWrap`) nor a row number of a group (`RowsFit`)
  exceeds 32 bits. It takes options far beyond what a device accepts to break
  `RowsFit`: two groups would then mine one row under different coordinates.
- `cuda_gap` shows a defect: rows of blocks are `blockDim.y + items_per_thread`
  rows apart (`miner.cu:236`, with `blockDim.y` = 1) instead of
  `items_per_block`, so with more than one row of blocks part of the chunk is
  mined by nobody and the buffer's old contents are collected there. With the
  command line's defaults (16 x 32) this begins at a side of 530.
- The server answers requests in order and never has two operations on a stream;
  the answer made up after a failed read never arrives, because the socket is
  shut down first. `RequestAnswered` has the reservations the code has: an empty
  POST is answered by closing the connection, and a complete REST body that is
  not JSON or lacks a field ends the process (`rest.cpp:46`). `OnlyMineEnds`:
  nothing else a client does ends it, other than through the miner. In
  particular a POST to `/mine` that is cut short does not, although its handler
  runs: with `parser_` in place of `parser_->get()` it would (the mutant
  `FailedMessage_Parsed`).
- Answers depend on nothing but their request, and are exact for arguments the
  miner takes unchanged. `api_footprint`: a size of 2^32 + 2 is answered with a
  footprint of 4294967298 and the planets of four locations. A rarity that is a
  multiple of 2^32 divides by zero. A REST answer without planets has `""` where
  others have an array.
- Only that a build without the CUDA miner does not know `--cuda` keeps a null
  miner from being used (`MinerReady`). `http_port`: `--http-port 65616` is
  accepted and listens on 80. Sizes of
  `--cuda-threads-per-item` other than the four the help names are rounded up.
  `main` catches `std::invalid_argument` alone: an option it does not know, a
  port it cannot bind and a body the REST server cannot read end the process with
  an exception.

## Proofs

The theorems hold for every value of the constants that satisfies the modules'
assumptions: a field at least as large as a word, round constants below the
modulus, 32-bit arguments, a team that is not empty, requests whose JSON values
are 64-bit integers or something else, limbs enough for `P`. The markers (`Null`,
`NoReply`, `Junk`, `Blank`, ...) are assumed to differ from the data they stand
next to. TLC evaluates these assumptions in every run.

Each component has an inductive invariant `IInv`, which a run also checks. One
lemma per action shows that the action keeps it; the safety properties follow.

**CpuMiner.** `MineCorrect` is not inductive: that the vector is right at the end
needs to be known at every step. `FoundInv` says that the elements appended so
far are exactly the planets the team has walked past; for a step to keep it, no
two threads may be in one column (`ColumnInv`), the snapshot must be the column's
and the hash the location's (`SpongeInv`), the size a thread has read must still
be the vector's size (`CriticalInv`), and the team must exist exactly between
fork and join (`TeamInv`). Theorems: `AlwaysIInv`, `TypeCorrect`,
`MineIsCorrect`, and `ImplementsContract`: every step is a step of `Miner` or a
stutter (`PushBack` is `Find`, `Join` is `Return`, `DivideByZero` is `Abort`).

**HashAgreement.** `AlwaysAgree`: after any operation a GPU register is congruent
to the CPU's modulo `P` and at most `P`, since the kernel's `field_add`,
`field_mul` and `fifth_power` respect congruence; `PlanetsAlwaysAgree` and
`TypeCorrect` follow. `SameHash` and `SamePlanets` say the same of the hash
functions the two miners' specifications use: for every location, key and
threshold `KernelHash` reduced modulo `P` is `PlanetHash`, by induction on the
rounds, so that the CUDA miner's planets are the CPU miner's, except for a zero
hash the kernel holds as `P`.

**CudaMiner.** `CoveredCorrect` speaks of the return, and so does not say why the
buffer is right. `KernelInv`: an item that some group has passed holds what the
hash says of its location, whatever else is in the buffer; this needs the items
to be told apart by their index (`PlaceUnique`) and every writer of an item to
write the same. `CopyInv`: after the wait the host's copy has it for every item,
if the launch is `Proper`. `FoundInv`: the loop has appended the planets among
the first `i` items, each once. `StageInv`: what `mine` has established at each
stage, above all that the cached buffer is the one for this side length. Theorems: `AlwaysIInv`,
`TypeCorrect` (with the round trip of a number through its limbs, and the range
of the hash), `CoveredIsCorrect`, `AlwaysInBounds`, `AlwaysDisjoint`, and
`ImplementsContract`, for calls whose launches are all `Proper`. That this is no
empty case is `OneRowCovers`: a launch with one row of blocks covers its chunk,
for any number of groups and items; `OneRowCorrect` draws the conclusion, which
includes the configuration of the repository's test. `cuda_gap` shows that the
condition cannot be dropped.

**HttpServer.** `RepliesInOrder` and `OneOperation` are not inductive: a reply in
flight, a request being mined and a pending read all count. `IInv`
says of each session (`Consistent`): it has its handler and one thing pending; as
long as the socket is open a read is pending when every request has its reply,
and a write or a call of the miner when the last request alone has none, and then
it is this request that is mined, or its reply that is written.
Theorems: `AlwaysIInv`, `TypeCorrect`,
`AlwaysInOrder`, `AlwaysOneOperation`, `AlwaysHandlerInstalled`, the action
property `MineAloneEnds` (a failed read never ends the process, a complete one
only by a REST body that throws), and `ImplementsExchange`, the refinement of Exchange,
for any number of connections, requests and descriptors.

**Api.** `MiningInv`: while a request is mined, the call is the request's chunk
and the vector some of its planets, each once. `AnswerInv`: an answer is the
encoding of the vector of the call its own request led to, complete or, past an
overflow, empty. Theorems: `AlwaysIInv`, `TypeCorrect`, `AlwaysExact` (from the
lemma that the chunk of a request in range is the square the request names) and
`ImplementsStateless`.

**BlueSpace.** `WiringInv`: each stage of `main` finds what the ones before have
left; that `--cuda` was parsed implies that the build has the miner. `VectorInv`:
up to `base` the vector holds the planets of the first iteration, after it some
of the second's, each once. `ExitInv`: with options stored, only a benchmark that
has run in full exits. Theorems: `AlwaysIInv`, `TypeCorrect`, `MinerAlwaysReady`,
`BenchmarkIsRight`.

The library's induction theorems take a predicate as a parameter, which the
provers cannot instantiate. `NumberLemmas` derives from the well-foundedness of
the order on the naturals versions that speak of a *set* of numbers
(`SetInduction`, `BoundedInduction`), and the existence of functions defined by
iteration (`Recursion`), which the proofs about `MixState` and the limbs use.

Only model-checked: liveness (`MineReturns`, `Accepted`, `ReadsEnd`,
`RequestAnswered`), since the prover handles neither fairness
nor ENABLED. The three properties that are violated have no theorem, of course.

## Not modelled

- Heap and device memory other than the cached buffer, and with it the two leaks
  `PROJECT.json` lists.
- Logging, HTTP headers, the text of JSON and of decimal hashes, JSON-RPC ids and
  notifications: no state or branch of this code depends on them.
- The threads that cooperate on one CGBN number, which are one group here: their
  lockstep is CGBN's.
- The benchmark's clock and the line it logs. The number of hashes in that line
  is computed in 32 bits and wraps from a size of 65536 on (`main.cc:221`).
- The build, packaging and CI, which have no run-time behaviour.

## Plan

Done: all components, with proofs of every safety property and refinement the
passing runs check.

Next: that the planets Api answers with are those of either miner's chunk, as a
theorem between the modules (so far each has its own `Planets`, and only the
hashes are shown to agree).
