----------------------------- MODULE CudaMiner -----------------------------
(***************************************************************************)
(* CudaMiner::mine (miner-cuda/lib/miner.cu): constants loaded once, a     *)
(* device buffer kept between calls with the same side length, a kernel    *)
(* whose thread groups fill the buffer in any order, a copy to the host,   *)
(* and a loop that collects the planets.  A call of the CUDA runtime may   *)
(* fail at any time, which ends the process.                               *)
(***************************************************************************)
EXTENDS CudaHash, FiniteSets

CONSTANTS
  Calls,            \* argument tuples [x, y, side, rarity, key] of mine
  ThreadWorkSize,   \* options_.thread_work_size, items per thread group
  BlockSize,        \* options_.block_size, thread groups per block
  MaxBlockSize,     \* thread groups the device accepts in a block
  MaxGridY,         \* blocks the device accepts in a grid's y dimension
  LimbCount,        \* 32-bit limbs of a bn_mem_t
  NumIter,          \* run_benchmark's num_iter
  NoCall, NoCache,
  NoPlanet,         \* a work item whose is_planet is false
  Junk              \* a work item that no kernel has written

ASSUME CallAssumption ==
  /\ P \in Nat \ {0} /\ Word \in 2 .. P /\ C \in Seq(0 .. P-1)
  /\ Calls \subseteq [x : Int, y : Int, side : 0 .. Word-1,
                      rarity : 0 .. Word-1, key : 0 .. Word-1]
  /\ NoCall \notin Calls
  /\ NumIter \in Nat

ASSUME LaunchAssumption ==
  /\ ThreadWorkSize \in 0 .. Word-1 /\ BlockSize \in 0 .. Word-1
  /\ MaxBlockSize \in Nat /\ MaxGridY \in Nat

VARIABLES
  host,         \* the caller: "ready", "mining", "returned", "aborted"
  call, iter, base, result,   \* as in Miner
  stage,        \* where mine is
  initialized,  \* initialized_: P and C are on the device
  cached,       \* cache_->side_length, or NoCache for a null cache_
  batch,        \* cache_->d_batch
  copy,         \* cache_->h_batch
  done,         \* work items each thread group of the kernel has finished
  i             \* the collecting loop's index

callVars == <<host, call, iter, base>>
vars == <<host, call, iter, base, result, stage, initialized, cached, batch,
          copy, done, i>>

(***************************************************************************)
(* A GMP number as the limbs of a bn_mem_t, least significant first and    *)
(* filled up with zeros, and back.  WithoutLimbs(n)[l] is n without its l  *)
(* lowest limbs.  from_mpz exits on a number that does not fit; none of    *)
(* those it is given exceeds P.                                            *)
(***************************************************************************)
WithoutLimbs(n) ==
  LET rest[l \in 0 .. LimbCount] == IF l = 0 THEN n ELSE rest[l-1] \div Word
  IN  rest

FromMpz(n) == [l \in 1 .. LimbCount |-> WithoutLimbs(n)[l-1] % Word]

(* Mutant: the most significant limb first. *)
ToMpz_BigEndian(b) ==
  LET value[l \in 0 .. LimbCount] ==
        IF l = 0 THEN 0 ELSE (value[l-1] * Word) + b[l]
  IN  value[LimbCount]

ToMpz(b) ==
  LET value[l \in 0 .. LimbCount] ==
        IF l = 0 THEN 0 ELSE (value[l-1] * Word) + b[(LimbCount - l) + 1]
  IN  value[LimbCount]

(* What a work item that is a planet may hold, and a planet's location. *)
Stored ==
  {t \in [x : Int, y : Int, hash : [1 .. LimbCount -> 0 .. Word-1]] :
     ToMpz(t.hash) \in 0 .. P-1}

LocationType == [x : Int, y : Int, hash : 0 .. P-1]

ASSUME NumberAssumption ==
  /\ LimbCount \in Nat /\ WithoutLimbs(P)[LimbCount] = 0
  /\ NoPlanet # Junk /\ NoPlanet \notin Stored /\ Junk \notin Stored
  /\ NoCache \notin 0 .. Word-1

Location(px, py, hash) == [x |-> px, y |-> py, hash |-> hash]

Threshold(c) == P \div c.rarity

(***************************************************************************)
(* The planets of a chunk by the kernel's hash, whatever the launch.       *)
(***************************************************************************)
Planets(c) ==
  { Location(q[1], q[2], KernelHash(q[1], q[2], c.key)) :
      q \in { r \in (c.x .. c.x + c.side - 1) \X (c.y .. c.y + c.side - 1) :
               IsPlanet(KernelHash(r[1], r[2], c.key), Threshold(c)) } }

(***************************************************************************)
(* The launch, in 32-bit arithmetic.                                       *)
(***************************************************************************)
ItemsPerBlock == Uint32(ThreadWorkSize * BlockSize)

GridSizeY(c) == Uint32(c.side + ItemsPerBlock - 1) \div ItemsPerBlock

BatchSize(side) == Uint32(side * side)

Launchable(c) ==
  /\ ItemsPerBlock # 0
  /\ c.side # 0
  /\ BlockSize <= MaxBlockSize
  /\ GridSizeY(c) \in 1 .. MaxGridY

Groups(c) == (0 .. c.side-1) \X (0 .. GridSizeY(c)-1) \X (0 .. BlockSize-1)

(* blockDim.y is 1: the launch gives every block its extent in x alone. *)
BlockDimY == 1

(* Mutant: the groups of a block are one row apart. *)
StartSizeY_Unscaled(k) == Uint32(k[2] * (BlockDimY + ThreadWorkSize) + k[3])

StartSizeY(k) ==
  Uint32(k[2] * (BlockDimY + ThreadWorkSize) + ThreadWorkSize * k[3])

(* The row of the chunk a group's next work item is in. *)
NextRow(k, n) == Uint32(StartSizeY(k) + n)

(* Mutant: a group's last item is left out. *)
Finished_Early(c, k, n) == n >= ThreadWorkSize - 1 \/ NextRow(k, n) >= c.side

Finished(c, k, n) == n = ThreadWorkSize \/ NextRow(k, n) >= c.side

(* Mutant: rows of the buffer overlap. *)
ResultIdx_Unscaled(c, k, n) == Uint32(k[1] + NextRow(k, n))

ResultIdx(c, k, n) == Uint32(k[1] + c.side * NextRow(k, n))

(* What the kernel stores for one location of the chunk. *)
ItemAt(c, px, py) ==
  LET h == KernelHash(px, py, ToMpz(FromMpz(c.key)))
  IN  IF IsPlanet(h, ToMpz(FromMpz(Threshold(c))))
      THEN Location(px, py, FromMpz(h)) ELSE NoPlanet

WorkItem(c, k, n) == ItemAt(c, c.x + k[1], c.y + StartSizeY(k) + n)

(* The location the host makes of an item whose is_planet reads as true. *)
Collected(item) ==
  IF item = Junk THEN Junk ELSE Location(item.x, item.y, ToMpz(item.hash))

(* Freshly allocated memory: what it holds is settled when it is read. *)
Uninitialized(size) == [n \in 0 .. size-1 |-> Junk]

(* Any call may end the process; the planets of those that may return. *)
Fatal == Calls

PlanetsOf == [c \in {d \in Calls : d.rarity # 0 /\ Launchable(d)} |-> Planets(c)]

(* The contract of common::Miner, on this module's variables. *)
Contract == INSTANCE Miner

Init ==
  /\ host = "ready"
  /\ call = NoCall
  /\ iter = 0
  /\ base = 0
  /\ result = << >>
  /\ stage = "idle"
  /\ initialized = FALSE
  /\ cached = NoCache
  /\ batch = << >>
  /\ copy = << >>
  /\ done = << >>
  /\ i = 0

MineSingle(c) ==
  /\ Contract!Begin(c)
  /\ stage' = "initialize"
  /\ UNCHANGED <<initialized, cached, batch, copy, done, i>>

BenchmarkAgain ==
  /\ Contract!BeginAgain
  /\ stage' = "initialize"
  /\ UNCHANGED <<initialized, cached, batch, copy, done, i>>

Initialize ==
  /\ stage = "initialize"
  /\ initialized' = TRUE
  /\ stage' = "cache"
  /\ UNCHANGED <<callVars, result, cached, batch, copy, done, i>>

(* Mutant: any buffer will do. *)
Reusable_Any == cached # NoCache

Reusable == cached = call.side

(* prepare_cache keeps a buffer of the right side length, stale items and  *)
(* all, and replaces any other.                                            *)
PrepareCache ==
  /\ stage = "cache"
  /\ \/ /\ Reusable
        /\ UNCHANGED <<cached, batch, copy>>
     \/ /\ ~ Reusable
        /\ cached' = call.side
        /\ batch' = Uninitialized(BatchSize(call.side))
        /\ copy' = Uninitialized(BatchSize(call.side))
  /\ stage' = "launch"
  /\ UNCHANGED <<callVars, result, initialized, done, i>>

(* The threshold, the grid and the kernel launch. *)
Launch ==
  /\ stage = "launch"
  /\ call.rarity # 0
  /\ Launchable(call)
  /\ done' = [k \in Groups(call) |-> 0]
  /\ stage' = "kernel"
  /\ UNCHANGED <<callVars, result, initialized, cached, batch, copy, i>>

(***************************************************************************)
(* One work item of one group.  A store outside the buffer, which the      *)
(* index arithmetic allows when side * side wraps, is lost here or ends    *)
(* the process in CudaError.                                               *)
(***************************************************************************)
Advance(k) ==
  /\ stage = "kernel"
  /\ ~ Finished(call, k, done[k])
  /\ done' = [done EXCEPT ![k] = @ + 1]

MineItem(k) ==
  /\ Advance(k)
  /\ batch' = [n \in DOMAIN batch |->
                 IF n = ResultIdx(call, k, done[k])
                 THEN WorkItem(call, k, done[k]) ELSE batch[n]]
  /\ UNCHANGED <<callVars, result, stage, initialized, cached, copy, i>>

(* Mutants: the buffer is copied without waiting for the kernel; a group   *)
(* that leaves the loop early is missed at a barrier after it.             *)
KernelDone_NoWait == TRUE

KernelDone_Full == \A k \in DOMAIN done : done[k] = ThreadWorkSize

KernelDone == \A k \in DOMAIN done : Finished(call, k, done[k])

(* cudaDeviceSynchronize and the copy to the host. *)
Synchronize ==
  /\ stage = "kernel"
  /\ KernelDone
  /\ copy' = batch
  /\ done' = << >>
  /\ i' = 0
  /\ stage' = "collect"
  /\ UNCHANGED <<callVars, result, initialized, cached, batch>>

(* An uninitialised item reads as a planet or not, with any location. *)
Collect ==
  /\ stage = "collect"
  /\ i < BatchSize(call.side)
  /\ i' = i + 1
  /\ \/ /\ copy[i] # NoPlanet
        /\ result' = Append(result, Collected(copy[i]))
     \/ /\ copy[i] \in {NoPlanet, Junk}
        /\ UNCHANGED result
  /\ UNCHANGED <<callVars, stage, initialized, cached, batch, copy, done>>

Return ==
  /\ stage = "collect"
  /\ i >= BatchSize(call.side)
  /\ host' = "returned"
  /\ stage' = "idle"
  /\ i' = 0
  /\ UNCHANGED <<call, iter, base, result, initialized, cached, batch, copy,
                 done>>

(***************************************************************************)
(* The process ends: SIGFPE on the rarity or the items per block, exit(1)  *)
(* on a launch the device rejects or on any failing call of the runtime.   *)
(***************************************************************************)
CudaError ==
  /\ \/ stage = "initialize" /\ ~ initialized
     \/ stage = "cache" /\ cached # call.side
     \/ stage \in {"launch", "kernel"}
  /\ host' = "aborted"
  /\ stage' = "idle"
  /\ done' = << >>
  /\ UNCHANGED <<call, iter, base, result, initialized, cached, batch, copy, i>>

HostStep ==
  \/ Initialize
  \/ PrepareCache
  \/ Launch
  \/ Synchronize
  \/ Collect
  \/ Return

Next ==
  \/ \E c \in Calls : MineSingle(c)
  \/ BenchmarkAgain
  \/ HostStep
  \/ \E k \in DOMAIN done : MineItem(k)
  \/ CudaError

Spec == Init /\ [][Next]_vars

(***************************************************************************)
(* The host and the device go on; a call that cannot be launched fails.    *)
(* Nothing obliges another call of the runtime to fail.                    *)
(***************************************************************************)
FairSpec ==
  /\ Spec
  /\ WF_vars(HostStep)
  /\ WF_done(\E k \in DOMAIN done : Advance(k))
  /\ WF_vars(CudaError /\ stage = "launch"
               /\ (call.rarity = 0 \/ ~ Launchable(call)))
-----------------------------------------------------------------------------
Found == {result[n] : n \in base+1 .. Len(result)}

Items == Stored \cup {NoPlanet, Junk}

Buffers ==
  IF cached = NoCache THEN {<< >>} ELSE [0 .. BatchSize(cached)-1 -> Items]

TypeOK ==
  /\ host \in {"ready", "mining", "returned", "aborted"}
  /\ call \in Calls \cup {NoCall}
  /\ iter \in Nat
  /\ result \in Seq(LocationType \cup {Junk})
  /\ base \in 0 .. Len(result)
  /\ stage \in {"idle", "initialize", "cache", "launch", "kernel", "collect"}
  /\ initialized \in BOOLEAN
  /\ cached \in (0 .. Word-1) \cup {NoCache}
  /\ batch \in Buffers /\ copy \in Buffers
  /\ i \in Nat

(***************************************************************************)
(* The rows the launch reaches, from its configuration alone.              *)
(***************************************************************************)
Covered(c) ==
  \A row \in 0 .. c.side-1 : \E k \in Groups(c), n \in 0 .. ThreadWorkSize-1 :
    NextRow(k, n) = row

(* side_length * side_length, and every index below it, fit in 32 bits. *)
NoWrap(c) == c.side * c.side < Word

(***************************************************************************)
(* So does every row number.  It takes options far beyond what a device    *)
(* accepts to break this, and then two groups mine the same row under      *)
(* different coordinates.                                                  *)
(***************************************************************************)
RowsFit(c) ==
  \A k \in Groups(c) : \A n \in 0 .. ThreadWorkSize-1 :
    k[2] * (BlockDimY + ThreadWorkSize) + ThreadWorkSize * k[3] + n < Word

Proper(c) == NoWrap(c) /\ RowsFit(c) /\ Covered(c)

(***************************************************************************)
(* When mine returns, it has appended exactly the planets of the chunk,    *)
(* each once, for every chunk of fewer than 2^32 locations whose rows the  *)
(* launch covers: every item of the buffer was written by this call, so    *)
(* that neither an uninitialised item nor a stale one of an earlier call   *)
(* is collected.                                                           *)
(***************************************************************************)
CoveredCorrect ==
  host = "returned" /\ Proper(call) =>
    /\ Found = Planets(call)
    /\ Cardinality(Found) = Len(result) - base

(***************************************************************************)
(* The kernel stores inside the buffer, unless side * side wraps.          *)
(***************************************************************************)
InBounds ==
  stage = "kernel" /\ NoWrap(call) =>
    \A k \in DOMAIN done :
      ~ Finished(call, k, done[k]) =>
          ResultIdx(call, k, done[k]) \in DOMAIN batch

(***************************************************************************)
(* No two thread groups of a launch with a single row of blocks write the  *)
(* same work item: the kernel needs no synchronisation between groups.     *)
(***************************************************************************)
DisjointWrites ==
  stage = "kernel" /\ NoWrap(call) /\ RowsFit(call) /\ GridSizeY(call) = 1 =>
    \A k, m \in DOMAIN done :
      k # m /\ ~ Finished(call, k, done[k]) /\ ~ Finished(call, m, done[m]) =>
        ResultIdx(call, k, done[k]) # ResultIdx(call, m, done[m])

(***************************************************************************)
(* What makes it so, as an inductive invariant.  The buffer is the one for *)
(* this call's side length from the launch on.  Every item a group of the  *)
(* kernel has finished is in its place, whatever other groups have stored, *)
(* so that the copy holds the item of every location; and what has been    *)
(* appended are the planets among the items before the loop's index.       *)
(***************************************************************************)
StageInv ==
  /\ stage # "idle" <=> host = "mining"
  /\ host # "ready" => call \in Calls
  /\ stage \in {"launch", "kernel", "collect"} => cached = call.side
  /\ stage \in {"kernel", "collect"} \/ host = "returned" =>
       call.rarity # 0 /\ Launchable(call)
  /\ IF stage = "kernel" THEN done \in [Groups(call) -> 0 .. ThreadWorkSize]
                         ELSE done = << >>
  /\ stage = "collect" => i <= BatchSize(call.side)

KernelInv ==
  stage = "kernel" /\ NoWrap(call) /\ RowsFit(call) =>
    \A k \in Groups(call) : \A n \in 0 .. done[k]-1 :
      /\ NextRow(k, n) < call.side
      /\ batch[ResultIdx(call, k, n)] = WorkItem(call, k, n)

CopyInv ==
  stage = "collect" /\ Proper(call) =>
    \A a, b \in 0 .. call.side-1 :
      copy[a + call.side * b] = ItemAt(call, call.x + a, call.y + b)

PlanetsBefore(c, n) ==
  { Location(c.x + q[1], c.y + q[2], KernelHash(c.x + q[1], c.y + q[2], c.key)) :
      q \in { r \in (0 .. c.side-1) \X (0 .. c.side-1) :
               /\ r[1] + c.side * r[2] < n
               /\ IsPlanet(KernelHash(c.x + r[1], c.y + r[2], c.key),
                           Threshold(c)) } }

FoundInv ==
  /\ host = "mining" /\ stage # "collect" => Len(result) = base
  /\ stage = "collect" /\ Proper(call) =>
       /\ Found = PlanetsBefore(call, i)
       /\ Cardinality(Found) = Len(result) - base

IInv ==
  TypeOK /\ StageInv /\ KernelInv /\ CopyInv /\ FoundInv /\ CoveredCorrect

(***************************************************************************)
(* mine finds the planets of the chunk, as the repository's test of the    *)
(* CUDA miner asserts, whatever the launch configuration.                  *)
(***************************************************************************)
FindsPlanets == host = "returned" => Found = Planets(call)

(***************************************************************************)
(* mine comes back or the process ends: no group of the kernel is waited   *)
(* for that has nothing left to do.                                        *)
(***************************************************************************)
MineReturns == host = "mining" ~> host \in {"returned", "aborted"}

(***************************************************************************)
(* The CUDA miner keeps the contract of common::Miner.                     *)
(***************************************************************************)
KeepsContract == Contract!Spec
=============================================================================
