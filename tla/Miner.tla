------------------------------- MODULE Miner -------------------------------
(***************************************************************************)
(* What a caller of common::Miner::mine may rely on, whichever miner is    *)
(* behind the pointer: a call appends to the caller's vector the planets   *)
(* of the chunk, each of them once and in any order, leaves what the       *)
(* vector already holds alone, and then returns.                           *)
(***************************************************************************)
EXTENDS Integers, Sequences

CONSTANTS
  Calls,      \* the argument tuples a call may have
  Fatal,      \* those of them that may end the process instead of returning
  PlanetsOf,  \* for each of those that may return, the chunk's planets
  NumIter,    \* how often run_benchmark calls mine on one vector
  NoCall

VARIABLES
  host,       \* "ready", "mining", "returned" or "aborted"
  call,       \* the arguments of the current or last call
  iter,       \* calls so far that passed this vector
  base,       \* size of the vector when the current call began
  result      \* the caller's vector of planet locations

vars == <<host, call, iter, base, result>>

Found == {result[i] : i \in base+1 .. Len(result)}

Init ==
  /\ host = "ready"
  /\ call = NoCall
  /\ iter = 0
  /\ base = 0
  /\ result = << >>

(* StatelessApi::mine_single passes an empty vector. *)
Begin(c) ==
  /\ host \in {"ready", "returned"}
  /\ host' = "mining"
  /\ call' = c
  /\ iter' = 1
  /\ base' = 0
  /\ result' = << >>

(* run_benchmark mines the same chunk again into the same vector. *)
BeginAgain ==
  /\ host = "returned"
  /\ iter < NumIter
  /\ host' = "mining"
  /\ iter' = iter + 1
  /\ base' = Len(result)
  /\ UNCHANGED <<call, result>>

Abort ==
  /\ host = "mining"
  /\ call \in Fatal
  /\ host' = "aborted"
  /\ UNCHANGED <<call, iter, base, result>>

Find ==
  /\ host = "mining"
  /\ call \in DOMAIN PlanetsOf
  /\ \E p \in PlanetsOf[call] \ Found : result' = Append(result, p)
  /\ UNCHANGED <<host, call, iter, base>>

Return ==
  /\ host = "mining"
  /\ call \in DOMAIN PlanetsOf
  /\ Found = PlanetsOf[call]
  /\ host' = "returned"
  /\ UNCHANGED <<call, iter, base, result>>

Next ==
  \/ \E c \in Calls : Begin(c)
  \/ BeginAgain
  \/ Abort
  \/ Find
  \/ Return

Spec == Init /\ [][Next]_vars
=============================================================================
