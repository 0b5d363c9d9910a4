-------------------------------- MODULE Api --------------------------------
(***************************************************************************)
(* A request's way through the endpoints: the RPC method's checks          *)
(* (rpc/stateless.cpp) or the REST server's decoding (rest.cpp), the cut   *)
(* of the 64-bit arguments to what the miner takes (api/stateless.cpp), a  *)
(* miner as its contract describes it, and the encoding of the answer.     *)
(* The io_context has one thread: one request at a time.                   *)
(***************************************************************************)
EXTENDS CpuHash, FiniteSets

CONSTANTS
  Half,               \* 2^63
  Requests,           \* the requests clients send, [via, body]
  Empty, Invalid,     \* a body of no bytes, and one that is not JSON
  Blank,              \* the JSON string ""
  NoRequest, NoReply, NoCall

Int64Range == -Half .. Half-1

Fields == {"x", "y", "size", "rarity", "key"}

(***************************************************************************)
(* A JSON value, as far as the decoders tell values apart: an integer of   *)
(* 64 bits written as a number or as a string, or anything else.           *)
(***************************************************************************)
JsonValues ==
  [json : {"number", "string"}, value : Int64Range]
    \cup [json : {"other"}, value : {0}]

ASSUME RequestAssumption ==
  /\ Half \in Nat /\ Word < Half
  /\ \A r \in Requests :
       /\ r.via \in {"rpc", "rest"}
       /\ \/ r.body \in {Empty, Invalid}
          \/ r.via = "rpc" /\ r.body \in Seq(JsonValues)
          \/ r.via = "rest" /\ \E F \in SUBSET Fields : r.body \in [F -> JsonValues]

VARIABLES
  request,                           \* the request received last
  reply,                             \* what was sent for it, or NoReply
  host, call, iter, base, result     \* as in Miner

minerVars == <<host, call, iter, base, result>>
vars == <<request, reply, minerVars>>

(* Five integers, by position; a string of digits is not one. *)
RpcValid(body) == Len(body) = 5 /\ \A i \in 1 .. 5 : body[i].json = "number"

(* Five fields, by name; a property tree makes no difference between a     *)
(* number and a string that holds one.                                     *)
RestValid(body) ==
  Fields \subseteq DOMAIN body /\ \A f \in Fields : body[f].json # "other"

Valid(r) ==
  /\ r.body \notin {Empty, Invalid}
  /\ IF r.via = "rpc" THEN RpcValid(r.body) ELSE RestValid(r.body)

Args(r) ==
  IF r.via = "rpc"
  THEN [x |-> r.body[1].value, y |-> r.body[2].value, size |-> r.body[3].value,
        rarity |-> r.body[4].value, key |-> r.body[5].value]
  ELSE [f \in Fields |-> r.body[f].value]

(* Mutant: the arguments reach the miner uncut. *)
Chunk_Uncut(a) ==
  [x |-> a.x, y |-> a.y, side |-> a.size, rarity |-> a.rarity, key |-> a.key]

(* mine takes the side length, the rarity and the key as uint32_t. *)
Chunk(a) ==
  [x |-> a.x, y |-> a.y, side |-> Uint32(a.size), rarity |-> Uint32(a.rarity),
   key |-> Uint32(a.key)]

(***************************************************************************)
(* The planets of a chunk.  A coordinate past the end of int64_t is where  *)
(* the miner's loop overflows; the loop then goes round, or never begins.  *)
(***************************************************************************)
Int64(n) == ((n + Half) % (2 * Half)) - Half

Span(from, length) == {Int64(from + i) : i \in 0 .. length-1}

Overflows(c) == c.x + c.side >= Half \/ c.y + c.side >= Half

Planets(c) ==
  { [x |-> q[1], y |-> q[2], hash |-> PlanetHash(q[1], q[2], c.key)] :
      q \in { s \in Span(c.x, c.side) \X Span(c.y, c.side) :
               IsPlanet(PlanetHash(s[1], s[2], c.key), P \div c.rarity) } }

Calls == {Chunk(Args(r)) : r \in {q \in Requests : Valid(q)}}

(* Any miner may be behind the pointer, and a device may always fail. *)
Mine == INSTANCE Miner WITH
  Fatal <- Calls, NumIter <- 1,
  PlanetsOf <- [c \in {d \in Calls : d.rarity # 0} |-> Planets(c)]

(***************************************************************************)
(* The answers: the 64-bit arguments and the planets.  A property tree is  *)
(* written with every number as a string, and without children as "".      *)
(***************************************************************************)
Encode(r, planets) ==
  [kind      |-> "result",
   numbers   |-> IF r.via = "rpc" THEN "number" ELSE "string",
   footprint |-> [f \in {"x", "y", "size"} |-> Args(r)[f]],
   locations |-> IF r.via = "rest" /\ planets = << >> THEN Blank ELSE planets]

Fault == [kind |-> "fault"]

ResultType(c) ==
  [kind      : {"result"},
   numbers   : {"number", "string"},
   footprint : [{"x", "y", "size"} -> Int64Range],
   locations : Seq(Planets(c)) \cup {Blank}]

(* An empty string is no array, and no answer is not an answer. *)
ASSUME AnswerAssumption ==
  /\ NoReply # Fault
  /\ \A c \in Calls : c.rarity # 0 =>
       Blank \notin Seq(Planets(c)) /\ NoReply \notin ResultType(c)

Init ==
  /\ request = NoRequest
  /\ reply = NoReply
  /\ Mine!Init

Idle == host \in {"ready", "returned"}

(* Neither server calls back for an empty body. *)
Ignore(r) ==
  /\ Idle /\ r.body = Empty
  /\ request' = r
  /\ reply' = NoReply
  /\ UNCHANGED minerVars

RpcFault(r) ==
  /\ Idle /\ r.via = "rpc" /\ r.body # Empty /\ ~ Valid(r)
  /\ request' = r
  /\ reply' = Fault
  /\ UNCHANGED minerVars

(* The exception of read_json or of a get ends the process. *)
RestThrow(r) ==
  /\ Idle /\ r.via = "rest" /\ r.body # Empty /\ ~ Valid(r)
  /\ request' = r
  /\ reply' = NoReply
  /\ host' = "aborted"
  /\ UNCHANGED <<call, iter, base, result>>

(* Mutant: the planets of the last request are still in the vector. *)
MineSingle_KeepsVector(r) ==
  /\ Idle /\ Valid(r)
  /\ request' = r
  /\ reply' = NoReply
  /\ host' = "mining" /\ call' = Chunk(Args(r)) /\ iter' = 1
  /\ base' = Len(result) /\ UNCHANGED result

MineSingle(r) ==
  /\ Idle /\ Valid(r)
  /\ request' = r
  /\ reply' = NoReply
  /\ Mine!Begin(Chunk(Args(r)))

MinerStep == (Mine!Find \/ Mine!Abort) /\ UNCHANGED <<request, reply>>

Respond ==
  /\ Mine!Return
  /\ reply' = Encode(request, result)
  /\ UNCHANGED request

(* The overflowed bound is below the first coordinate. *)
RespondOverflow ==
  /\ host = "mining" /\ Overflows(call) /\ call.rarity # 0 /\ result = << >>
  /\ host' = "returned"
  /\ reply' = Encode(request, << >>)
  /\ UNCHANGED <<request, call, iter, base, result>>

Next ==
  \/ \E r \in Requests : Ignore(r) \/ RpcFault(r) \/ RestThrow(r) \/ MineSingle(r)
  \/ MinerStep
  \/ Respond
  \/ RespondOverflow

Spec == Init /\ [][Next]_vars
-----------------------------------------------------------------------------
TypeOK ==
  /\ request \in Requests \cup {NoRequest}
  /\ reply # NoReply => reply.kind \in {"fault", "result"}
  /\ host \in {"ready", "mining", "returned", "aborted"}
  /\ call \in Calls \cup {NoCall}
  /\ call # NoCall => {call.side, call.rarity, call.key} \subseteq 0 .. Word-1
  /\ iter \in 0 .. 1 /\ base \in Nat

(* The set of planets a client reads out of an answer. *)
Decode(locations) ==
  IF locations = Blank THEN {} ELSE {locations[n] : n \in DOMAIN locations}

Meaning(rep) ==
  IF rep = NoReply \/ rep = Fault THEN rep
  ELSE [rep EXCEPT !.locations = Decode(@)]

ResultOf(r, planets) == [Encode(r, << >>) EXCEPT !.locations = planets]

(* What a request may be answered; one with a rarity that is a multiple of *)
(* 2^32 is not, since the miner's division by zero ends the process.       *)
AnswersTo(r) ==
  IF r.body = Empty THEN {NoReply}
  ELSE IF ~ Valid(r) THEN {Fault}
  ELSE IF Chunk(Args(r)).rarity = 0 THEN {}
  ELSE LET c == Chunk(Args(r))
       IN  {ResultOf(r, Planets(c))} \cup
             (IF Overflows(c) THEN {ResultOf(r, {})} ELSE {})

Abstract == INSTANCE Stateless WITH
  up <- host # "aborted", busy <- host = "mining", reply <- Meaning(reply),
  Answers <- AnswersTo

(***************************************************************************)
(* The service is stateless: whatever was asked before, on either          *)
(* endpoint, a request is ignored, faulted, the end of the process, or     *)
(* answered with the planets of its own chunk.                             *)
(***************************************************************************)
KeepsStateless == Abstract!Spec

(* A request whose arguments the miner takes without a change of value. *)
InRange(a) ==
  /\ {a.size, a.rarity, a.key} \subseteq 0 .. Word-1
  /\ a.x + a.size < Half /\ a.y + a.size < Half

Location(px, py, key) == [x |-> px, y |-> py, hash |-> PlanetHash(px, py, key)]

(***************************************************************************)
(* The answer to a request in range says: this footprint, and in it each   *)
(* location whose hash is below the threshold, once.  Coordinates may be   *)
(* negative and beyond 32 bits, and the last location may be the last one  *)
(* but one of int64_t.                                                     *)
(***************************************************************************)
ExactAnswer ==
  reply # NoReply /\ Valid(request) /\ InRange(Args(request)) =>
    LET a == Args(request)
    IN  /\ reply.footprint = [x |-> a.x, y |-> a.y, size |-> a.size]
        /\ Decode(reply.locations) =
             { l \in {Location(px, py, a.key) : px \in a.x .. a.x + a.size - 1,
                                                py \in a.y .. a.y + a.size - 1} :
                 l.hash < P \div a.rarity }
        /\ Cardinality(Decode(reply.locations)) =
             IF reply.locations = Blank THEN 0 ELSE Len(reply.locations)

(***************************************************************************)
(* The method's parameters are int64_t: the planets of an answer are those *)
(* of the footprint it names, whose side length the request gave.          *)
(***************************************************************************)
MinesFootprint ==
  reply # NoReply /\ Valid(request) =>
    LET c == [Chunk(Args(request)) EXCEPT !.side = Args(request).size]
    IN  c.side >= 0 /\ ~ Overflows(c) => Decode(reply.locations) = Planets(c)
-----------------------------------------------------------------------------
EachOnce == \A m, n \in 1 .. Len(result) : result[m] = result[n] => m = n

(***************************************************************************)
(* The inductive invariant.  While a request is mined, the miner works on  *)
(* its chunk, and has found some of the planets, each once.                *)
(***************************************************************************)
MiningInv ==
  host = "mining" =>
    /\ request \in Requests /\ Valid(request)
    /\ call = Chunk(Args(request))
    /\ reply = NoReply
    /\ IF call.rarity = 0 THEN result = << >> ELSE result \in Seq(Planets(call))
    /\ EachOnce

(* The answer to a request is still the vector of the call it has led to. *)
AnswerInv ==
  reply # NoReply =>
    /\ request \in Requests /\ request.body # Empty
    /\ IF Valid(request)
       THEN /\ host = "returned" /\ call = Chunk(Args(request)) /\ call.rarity # 0
            /\ reply = Encode(request, result)
            /\ result \in Seq(Planets(call))
            /\ EachOnce
            /\ \/ Mine!Found = Planets(call)
               \/ result = << >> /\ Overflows(call)
       ELSE reply = Fault

IInv ==
  /\ TypeOK
  /\ MiningInv
  /\ AnswerInv
  /\ base = 0
  /\ host = "aborted" => reply = NoReply
=============================================================================
