------------------------------ MODULE CpuMiner ------------------------------
(***************************************************************************)
(* CpuMiner::mine (miner-cpu/lib/miner.cc): a team of OpenMP threads walks *)
(* the columns of a chunk, hashes every row of a column with a private     *)
(* sponge, and pushes the planets it finds into one shared vector inside   *)
(* an omp critical section.  Nothing is atomic but the steps below: the    *)
(* push_back itself is split into reading the size and storing the         *)
(* element, so that two threads inside it would lose one.                  *)
(***************************************************************************)
EXTENDS CpuHash

CONSTANTS
  Threads,    \* the thread team
  Calls,      \* argument tuples [x, y, side, rarity, key] of mine
  NumIter,    \* run_benchmark's num_iter
  NoCall

ASSUME CallAssumption ==
  /\ Calls \subseteq [x : Int, y : Int, side : 0 .. Word-1,
                      rarity : 0 .. Word-1, key : 0 .. Word-1]
  /\ NoCall \notin Calls
  /\ NumIter \in Nat

ASSUME TeamAssumption == Threads # {}

VARIABLES
  host,       \* the calling thread: "ready", "mining", "returned", "aborted"
  call,       \* chunk, rarity and key of the current or last call
  iter,       \* calls so far that passed this vector
  base,       \* size of the vector when the current call began
  result,     \* std::vector<PlanetLocation> &result
  todo,       \* columns of the omp for no thread has taken yet
  pc,         \* where each thread of the team is
  x, y,       \* its loop variables
  sponge,     \* its private Sponge
  slot        \* the vector's size as its push_back has read it

teamVars == <<todo, pc, x, y, sponge, slot>>
vars == <<host, call, iter, base, result, todo, pc, x, y, sponge, slot>>

Columns(c) == c.x .. c.x + c.side - 1

Rows(c) == c.y .. c.y + c.side - 1

Threshold(c) == P \div c.rarity

Location(px, py, hash) == [x |-> px, y |-> py, hash |-> hash]

(***************************************************************************)
(* The planets of a chunk, from the hash alone.                            *)
(***************************************************************************)
Planets(c) ==
  { Location(q[1], q[2], PlanetHash(q[1], q[2], c.key)) :
      q \in { r \in Columns(c) \X Rows(c) :
               IsPlanet(PlanetHash(r[1], r[2], c.key), Threshold(c)) } }

(* Arguments on which the process ends, and the planets of the others. *)
Fatal == {c \in Calls : c.rarity = 0}

PlanetsOf == [c \in Calls \ Fatal |-> Planets(c)]

(* The contract of common::Miner, on this module's variables. *)
Contract == INSTANCE Miner

Init ==
  /\ host = "ready"
  /\ call = NoCall
  /\ iter = 0
  /\ base = 0
  /\ result = << >>
  /\ todo = {}
  /\ pc = [t \in Threads |-> "idle"]
  /\ x = [t \in Threads |-> 0]
  /\ y = [t \in Threads |-> 0]
  /\ sponge = [t \in Threads |-> NewSponge]
  /\ slot = [t \in Threads |-> 0]

(***************************************************************************)
(* The callers of mine: mine_single with an empty vector, run_benchmark    *)
(* with the vector of its previous iteration.                              *)
(***************************************************************************)
MineSingle(c) == Contract!Begin(c) /\ UNCHANGED teamVars

BenchmarkAgain == Contract!BeginAgain /\ UNCHANGED teamVars

(***************************************************************************)
(* Before the parallel region: the threshold is a GMP division, which      *)
(* raises SIGFPE for a rarity of zero.  Then the team starts, each thread  *)
(* with a Sponge of its own.                                               *)
(***************************************************************************)
DivideByZero ==
  /\ host = "mining"
  /\ \A t \in Threads : pc[t] = "idle"
  /\ call.rarity = 0
  /\ host' = "aborted"
  /\ UNCHANGED <<call, iter, base, result>>
  /\ UNCHANGED teamVars

Fork ==
  /\ host = "mining"
  /\ \A t \in Threads : pc[t] = "idle"
  /\ call.rarity # 0
  /\ todo' = Columns(call)
  /\ pc' = [t \in Threads |-> "columns"]
  /\ UNCHANGED <<host, call, iter, base, result, x, y, sponge, slot>>

(* Mutants: the sponge is not reset between two columns; a row starts from *)
(* what the previous one left in it; ++y is skipped where no planet is.    *)
AtColumn_NoReset(s, cx, key) == Save(Mix(Inject(s, WrapCoordinate(cx)), key))

AtRow_NoRestore(s, cy, key) == Mix(Inject(s, WrapCoordinate(cy)), key)

NextRow_Stuck(t) == IF pc[t] = "rows" THEN y ELSE [y EXCEPT ![t] = @ + 1]

(* A thread's sponge at the top of a column and after a row, and ++y. *)
AtColumn(s, cx, key) == Save(Mix(Inject(Reset(s), WrapCoordinate(cx)), key))

AtRow(s, cy, key) == Mix(Inject(Restore(s), WrapCoordinate(cy)), key)

NextRow(t) == [y EXCEPT ![t] = @ + 1]

(* The schedule of the omp for is not fixed: any thread takes any column. *)
TakeColumn(t) ==
  /\ pc[t] = "columns"
  /\ \E cx \in todo :
       /\ todo' = todo \ {cx}
       /\ x' = [x EXCEPT ![t] = cx]
       /\ sponge' = [sponge EXCEPT ![t] = AtColumn(@, cx, call.key)]
  /\ y' = [y EXCEPT ![t] = call.y]
  /\ pc' = [pc EXCEPT ![t] = "rows"]
  /\ UNCHANGED <<host, call, iter, base, result, slot>>

HashRow(t) ==
  /\ pc[t] = "rows"
  /\ y[t] < call.y + call.side
  /\ LET s == AtRow(sponge[t], y[t], call.key)
     IN  /\ sponge' = [sponge EXCEPT ![t] = s]
         /\ \/ /\ IsPlanet(Result(s), Threshold(call))
               /\ pc' = [pc EXCEPT ![t] = "enter"]
               /\ UNCHANGED y
            \/ /\ ~ IsPlanet(Result(s), Threshold(call))
               /\ y' = NextRow(t)
               /\ UNCHANGED pc
  /\ UNCHANGED <<host, call, iter, base, result, todo, x, slot>>

EndColumn(t) ==
  /\ pc[t] = "rows"
  /\ y[t] >= call.y + call.side
  /\ pc' = [pc EXCEPT ![t] = "columns"]
  /\ UNCHANGED <<host, call, iter, base, result, todo, x, y, sponge, slot>>

(* Mutant: push_back outside a critical section, as before release 0.2.0. *)
Unlocked_Always == TRUE

Unlocked == \A u \in Threads : pc[u] # "push"

(* #pragma omp critical, and the read half of push_back. *)
EnterCritical(t) ==
  /\ pc[t] = "enter"
  /\ Unlocked
  /\ pc' = [pc EXCEPT ![t] = "push"]
  /\ slot' = [slot EXCEPT ![t] = Len(result)]
  /\ UNCHANGED <<host, call, iter, base, result, todo, x, y, sponge>>

(* The store half of push_back, the end of the critical section, ++y. *)
PushBack(t) ==
  /\ pc[t] = "push"
  /\ result' = [i \in 1 .. slot[t] + 1 |->
                  IF i <= slot[t] THEN result[i]
                  ELSE Location(x[t], y[t], Result(sponge[t]))]
  /\ pc' = [pc EXCEPT ![t] = "rows"]
  /\ y' = NextRow(t)
  /\ UNCHANGED <<host, call, iter, base, todo, x, sponge, slot>>

(* Mutant: the loop ends without a barrier once no column is left. *)
Arrived_NoWait == \A t \in Threads : pc[t] # "idle"

Arrived == \A t \in Threads : pc[t] = "columns"

(* The barrier that ends the omp for and with it the thread-private        *)
(* variables, and mine's return.                                           *)
Join ==
  /\ host = "mining"
  /\ todo = {}
  /\ Arrived
  /\ host' = "returned"
  /\ pc' = [t \in Threads |-> "idle"]
  /\ x' = [t \in Threads |-> 0]
  /\ y' = [t \in Threads |-> 0]
  /\ sponge' = [t \in Threads |-> NewSponge]
  /\ slot' = [t \in Threads |-> 0]
  /\ UNCHANGED <<call, iter, base, result, todo>>

ThreadStep(t) ==
  \/ TakeColumn(t)
  \/ HashRow(t)
  \/ EndColumn(t)
  \/ EnterCritical(t)
  \/ PushBack(t)

MineStep == DivideByZero \/ Fork \/ Join

Next ==
  \/ \E c \in Calls : MineSingle(c)
  \/ BenchmarkAgain
  \/ MineStep
  \/ \E t \in Threads : ThreadStep(t)

(***************************************************************************)
(* Every runnable thread is scheduled; a thread waiting at the critical    *)
(* section gets in although others may overtake it finitely often: each    *)
(* has finitely many rows.  Callers owe nothing.                           *)
(***************************************************************************)
Fairness ==
  /\ WF_vars(MineStep)
  /\ \A t \in Threads : WF_vars(ThreadStep(t))

Spec == Init /\ [][Next]_vars

FairSpec == Spec /\ Fairness
-----------------------------------------------------------------------------
Busy(t) == pc[t] \in {"rows", "enter", "push"}

Working == \E t \in Threads : pc[t] # "idle"

Locations == UNION {PlanetsOf[c] : c \in Calls \ Fatal}

(* The values in a sponge are the business of the hash, not of mine. *)
TypeOK ==
  /\ host \in {"ready", "mining", "returned", "aborted"}
  /\ call \in Calls \cup {NoCall}
  /\ iter \in Nat
  /\ result \in Seq(Locations)
  /\ base \in 0 .. Len(result)
  /\ todo \subseteq Int
  /\ pc \in [Threads -> {"idle", "columns", "rows", "enter", "push"}]
  /\ x \in [Threads -> Int]
  /\ y \in [Threads -> Int]
  /\ slot \in [Threads -> Nat]
  /\ DOMAIN sponge = Threads
  /\ \A t \in Threads : DOMAIN sponge[t] = {"l", "r", "snap_l", "snap_r"}

(***************************************************************************)
(* What the call has appended to the caller's vector.                      *)
(***************************************************************************)
Found == {result[i] : i \in base+1 .. Len(result)}

(***************************************************************************)
(* When mine returns, it has appended exactly the planets of the chunk,    *)
(* each once: no planet is lost by two threads in push_back, none is       *)
(* reported twice, and no row is hashed from a sponge another row left     *)
(* behind.                                                                 *)
(***************************************************************************)
MineCorrect ==
  host = "returned" =>
    /\ Found = PlanetsOf[call]
    /\ \A i, j \in base+1 .. Len(result) : result[i] = result[j] => i = j

(***************************************************************************)
(* The inductive strengthening of MineCorrect, in parts.                   *)
(*                                                                         *)
(* The team exists exactly while a call with a valid rarity is between     *)
(* Fork and Join.                                                          *)
(***************************************************************************)
TeamInv ==
  /\ host # "ready" => call \in Calls
  /\ host = "returned" => call \notin Fatal
  /\ Working => /\ host = "mining"
                /\ call \notin Fatal
                /\ \A t \in Threads : pc[t] # "idle"
                /\ todo \subseteq Columns(call)

(* No two threads walk one column, and the walk stays inside the chunk. *)
ColumnInv ==
  \A t \in Threads : Busy(t) =>
    /\ x[t] \in Columns(call) \ todo
    /\ y[t] \in call.y .. call.y + call.side
    /\ \A u \in Threads : Busy(u) /\ x[u] = x[t] => u = t

(* A snapshot is the column's, and a thread about to push holds a planet. *)
SpongeInv ==
  \A t \in Threads :
    /\ Busy(t) =>
         <<sponge[t].snap_l, sponge[t].snap_r>> = ColumnState(x[t], call.key)
    /\ pc[t] \in {"enter", "push"} =>
         /\ y[t] \in Rows(call)
         /\ Result(sponge[t]) = PlanetHash(x[t], y[t], call.key)
         /\ IsPlanet(Result(sponge[t]), Threshold(call))

(* The size a thread has read inside the critical section is still right. *)
CriticalInv ==
  \A t \in Threads : pc[t] = "push" =>
    /\ slot[t] = Len(result)
    /\ \A u \in Threads : pc[u] = "push" => u = t

(* Whether the team has already walked past a location. *)
Passed(p) ==
  /\ p.x \notin todo
  /\ \A t \in Threads : Busy(t) /\ x[t] = p.x => p.y < y[t]

(***************************************************************************)
(* At every step of a call, what has been appended is exactly the planets  *)
(* the team has walked past, without a repetition.                         *)
(***************************************************************************)
FoundInv ==
  /\ Working => Found = {p \in PlanetsOf[call] : Passed(p)}
  /\ host = "mining" /\ ~ Working => base = Len(result)
  /\ \A i, j \in base+1 .. Len(result) : result[i] = result[j] => i = j

IInv ==
  /\ TypeOK /\ TeamInv /\ ColumnInv /\ SpongeInv /\ CriticalInv /\ FoundInv
  /\ MineCorrect

(***************************************************************************)
(* mine comes back to its caller: no thread is left waiting at the         *)
(* critical section or at the barrier that ends the loop.                  *)
(***************************************************************************)
MineReturns == host = "mining" ~> host \in {"returned", "aborted"}

(***************************************************************************)
(* The OpenMP miner keeps the contract of common::Miner: while a call is   *)
(* running the vector only grows, by a planet of the chunk it does not     *)
(* have yet, and the call returns only with all of them.                   *)
(***************************************************************************)
KeepsContract == Contract!Spec
=============================================================================
