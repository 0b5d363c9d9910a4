----------------------------- MODULE ApiProofs -----------------------------
(***************************************************************************)
(* For any field, words and requests: every answer is exact for arguments  *)
(* the miner takes unchanged, and depends on its own request alone.        *)
(***************************************************************************)
EXTENDS Api, SequenceTheorems, FiniteSetTheorems, TLAPS

(***************************************************************************)
(* The arguments of a valid request.                                       *)
(***************************************************************************)
LEMMA Widths == Word \in Nat \ {0} /\ Half \in Nat /\ Word < Half
BY FieldAssumption, RequestAssumption

LEMMA ArgsType ==
  ASSUME NEW r \in Requests, Valid(r)
  PROVE  /\ Args(r).x \in Int64Range /\ Args(r).y \in Int64Range
         /\ Args(r).size \in Int64Range
         /\ Args(r).rarity \in Int64Range /\ Args(r).key \in Int64Range
<1>1. \A v \in JsonValues : v.value \in Int64Range
  BY Widths DEF JsonValues, Int64Range
<1>2. r.via \in {"rpc", "rest"} /\ r.body \notin {Empty, Invalid}
  BY RequestAssumption DEF Valid
<1>3. CASE r.via = "rpc"
  <2>1. r.body \in Seq(JsonValues) /\ Len(r.body) = 5
    BY <1>2, <1>3, RequestAssumption DEF Valid, RpcValid
  <2>2. \A n \in 1 .. 5 : r.body[n] \in JsonValues
    BY <2>1, ElementOfSeq
  <2>3. \A n \in 1 .. 5 : r.body[n].value \in Int64Range
    BY <1>1, <2>2
  <2> QED
    BY <1>3, <2>3 DEF Args
<1>4. CASE r.via = "rest"
  <2>1. PICK F \in SUBSET Fields : r.body \in [F -> JsonValues]
    BY <1>2, <1>4, RequestAssumption
  <2>2. Fields \subseteq DOMAIN r.body
    BY <1>4 DEF Valid, RestValid
  <2>3. \A f \in Fields : r.body[f] \in JsonValues
    BY <2>1, <2>2
  <2>4. \A f \in Fields : r.body[f].value \in Int64Range
    BY <1>1, <2>3
  <2>5. Args(r) = [f \in Fields |-> r.body[f].value]
    BY <1>4 DEF Args
  <2> QED
    BY <2>4, <2>5 DEF Fields
<1> QED
  BY <1>2, <1>3, <1>4

LEMMA Cut ==
  ASSUME NEW n \in Int
  PROVE  Uint32(n) \in 0 .. Word-1 /\ (n \in 0 .. Word-1 => Uint32(n) = n)
BY Widths DEF Uint32

LEMMA ChunkType ==
  ASSUME NEW r \in Requests, Valid(r)
  PROVE  /\ Chunk(Args(r)) \in Calls
         /\ Chunk(Args(r)).x = Args(r).x /\ Chunk(Args(r)).y = Args(r).y
         /\ Chunk(Args(r)).side = Uint32(Args(r).size)
         /\ Chunk(Args(r)).rarity = Uint32(Args(r).rarity)
         /\ Chunk(Args(r)).key = Uint32(Args(r).key)
BY DEF Chunk, Calls

LEMMA CallType ==
  ASSUME NEW c \in Calls
  PROVE  {c.side, c.rarity, c.key} \subseteq 0 .. Word-1
<1>1. PICK r \in Requests : Valid(r) /\ c = Chunk(Args(r))
  BY DEF Calls
<1>2. Args(r).size \in Int /\ Args(r).rarity \in Int /\ Args(r).key \in Int
  BY <1>1, ArgsType, Widths DEF Int64Range
<1>3. /\ Uint32(Args(r).size) \in 0 .. Word-1
      /\ Uint32(Args(r).rarity) \in 0 .. Word-1
      /\ Uint32(Args(r).key) \in 0 .. Word-1
  BY <1>2, Cut
<1> QED
  BY <1>1, <1>3, ChunkType
-----------------------------------------------------------------------------
(***************************************************************************)
(* An answer is a result, and what a client reads out of it are the        *)
(* elements of the vector, whichever endpoint it comes from.               *)
(***************************************************************************)
LEMMA Relocated ==
  ASSUME NEW k, NEW m, NEW f, NEW a, NEW v
  PROVE  [[kind |-> k, numbers |-> m, footprint |-> f, locations |-> a]
            EXCEPT !.locations = v]
           = [kind |-> k, numbers |-> m, footprint |-> f, locations |-> v]
OBVIOUS

LEMMA EncodeType ==
  ASSUME NEW r \in Requests, Valid(r), NEW s,
         Chunk(Args(r)).rarity # 0, s \in Seq(Planets(Chunk(Args(r))))
  PROVE  /\ Encode(r, s).kind = "result"
         /\ Encode(r, s) # NoReply /\ Encode(r, s) # Fault
         /\ Encode(r, s).footprint =
              [x |-> Args(r).x, y |-> Args(r).y, size |-> Args(r).size]
         /\ Decode(Encode(r, s).locations) = Range(s)
         /\ Encode(r, s).locations = Blank => s = << >>
         /\ Encode(r, s).locations # Blank => Encode(r, s).locations = s
         /\ Meaning(Encode(r, s)) = ResultOf(r, Range(s))
<1> DEFINE c == Chunk(Args(r))
           e == Encode(r, s)
<1>1. c \in Calls /\ Blank \notin Seq(Planets(c)) /\ NoReply \notin ResultType(c)
  BY ChunkType, AnswerAssumption
<1>2. /\ e.kind = "result" /\ e.numbers \in {"number", "string"}
      /\ e.footprint = [f \in {"x", "y", "size"} |-> Args(r)[f]]
      /\ e.locations = IF r.via = "rest" /\ s = << >> THEN Blank ELSE s
  BY DEF Encode
<1>3. e.footprint \in [{"x", "y", "size"} -> Int64Range]
  BY <1>2, ArgsType
<1>4. e.locations \in Seq(Planets(c)) \cup {Blank}
  BY <1>2
<1>5. e \in ResultType(c)
  BY <1>2, <1>3, <1>4 DEF Encode, ResultType
<1>6. e # NoReply
  BY <1>1, <1>5
<1>7. e # Fault
  BY <1>2 DEF Fault
<1>8. e.footprint = [x |-> Args(r).x, y |-> Args(r).y, size |-> Args(r).size]
  BY <1>2
<1>9. s # Blank
  BY <1>1
<1>10. /\ e.locations = Blank => s = << >>
       /\ e.locations # Blank => e.locations = s
  BY <1>2, <1>9
<1>11. Decode(e.locations) = Range(s)
  <2>1. CASE e.locations = Blank
    <3>1. s = << >> /\ DOMAIN s = {}
      BY <1>10, <2>1
    <3> QED
      BY <2>1, <3>1 DEF Decode, Range
  <2>2. CASE e.locations # Blank
    BY <1>10, <2>2 DEF Decode, Range
  <2> QED
    BY <2>1, <2>2
<1>12. Meaning(e) = [e EXCEPT !.locations = Decode(@)]
  BY <1>6, <1>7 DEF Meaning
<1>13. Meaning(e) = ResultOf(r, Range(s))
  <2> DEFINE v == Range(s)
             m == IF r.via = "rpc" THEN "number" ELSE "string"
             f == [g \in {"x", "y", "size"} |-> Args(r)[g]]
             a(t) == IF r.via = "rest" /\ t = << >> THEN Blank ELSE t
             w(t) == [kind |-> "result", numbers |-> m, footprint |-> f, locations |-> t]
  <2>1. Encode(r, s) = w(a(s)) /\ Encode(r, << >>) = w(a(<< >>))
    BY DEF Encode
  <2> HIDE DEF v, m, f, a
  <2>2. \A t : [w(t) EXCEPT !.locations = v] = w(v)
    BY Relocated
  <2> HIDE DEF w
  <2>3. [e EXCEPT !.locations = v] = [Encode(r, << >>) EXCEPT !.locations = v]
    BY <2>1, <2>2
  <2> USE DEF v
  <2> QED
    BY <1>11, <1>12, <2>3 DEF ResultOf
<1> QED
  BY <1>2, <1>6, <1>7, <1>8, <1>10, <1>11, <1>13
-----------------------------------------------------------------------------
(***************************************************************************)
(* The inductive invariant, one lemma per action.                          *)
(***************************************************************************)
LEMMA InitInv == Init => IInv
BY EmptySeq DEF Init, Mine!Init, IInv, TypeOK, MiningInv, AnswerInv

LEMMA IgnoreInv ==
  ASSUME IInv, NEW r \in Requests, Ignore(r)
  PROVE  IInv'
<1>1. host # "mining" /\ UNCHANGED minerVars /\ request' = r /\ reply' = NoReply
  BY DEF Ignore, Idle
<1> QED
  BY <1>1 DEF minerVars, IInv, TypeOK, MiningInv, AnswerInv

LEMMA RpcFaultInv ==
  ASSUME IInv, NEW r \in Requests, RpcFault(r)
  PROVE  IInv'
<1>1. /\ host \in {"ready", "returned"} /\ UNCHANGED minerVars
      /\ request' = r /\ reply' = Fault
      /\ r.body # Empty /\ ~ Valid(r)
  BY DEF RpcFault, Idle
<1>2. Fault.kind = "fault"
  BY DEF Fault
<1>3. TypeOK'
  BY <1>1, <1>2 DEF minerVars, IInv, TypeOK
<1>4. AnswerInv'
  BY <1>1 DEF AnswerInv
<1> QED
  BY <1>1, <1>3, <1>4 DEF minerVars, IInv, MiningInv

LEMMA RestThrowInv ==
  ASSUME IInv, NEW r \in Requests, RestThrow(r)
  PROVE  IInv'
<1>1. /\ host' = "aborted" /\ UNCHANGED <<call, iter, base, result>>
      /\ request' = r /\ reply' = NoReply
  BY DEF RestThrow
<1> QED
  BY <1>1 DEF IInv, TypeOK, MiningInv, AnswerInv

LEMMA MineSingleInv ==
  ASSUME IInv, NEW r \in Requests, MineSingle(r)
  PROVE  IInv'
<1> DEFINE c == Chunk(Args(r))
<1>1. /\ host' = "mining" /\ call' = c /\ iter' = 1 /\ base' = 0
      /\ result' = << >> /\ request' = r /\ reply' = NoReply /\ Valid(r)
  BY DEF MineSingle, Mine!Begin
<1>2. c \in Calls
  BY <1>1, ChunkType
<1>3. {c.side, c.rarity, c.key} \subseteq 0 .. Word-1
  BY <1>2, CallType
<1> HIDE DEF c
<1>4. TypeOK'
  BY <1>1, <1>2, <1>3 DEF TypeOK
<1>5. result' \in Seq(Planets(c)) /\ Len(result') = 0
  BY <1>1, EmptySeq
<1>6. MiningInv'
  BY <1>1, <1>5 DEF MiningInv, EachOnce, c
<1> QED
  BY <1>1, <1>4, <1>6 DEF IInv, AnswerInv

LEMMA FindInv == IInv /\ Mine!Find /\ UNCHANGED <<request, reply>> => IInv'
<1> SUFFICES ASSUME IInv, Mine!Find, UNCHANGED <<request, reply>> PROVE IInv'
  OBVIOUS
<1> DEFINE S == Planets(call)
<1>1. /\ host = "mining" /\ call \in {d \in Calls : d.rarity # 0}
      /\ UNCHANGED <<host, call, iter, base>>
      /\ \E p \in S \ Mine!Found : result' = Append(result, p)
  BY DEF Mine!Find
<1>2. PICK p \in S \ Mine!Found : result' = Append(result, p)
  BY <1>1
<1>3. /\ result \in Seq(S) /\ EachOnce /\ base = 0 /\ reply = NoReply
      /\ request \in Requests /\ Valid(request) /\ call = Chunk(Args(request))
  BY <1>1 DEF IInv, MiningInv
<1> HIDE DEF S
<1>4. /\ Len(result) \in Nat /\ Len(result') = Len(result) + 1
      /\ result' \in Seq(S) /\ result'[Len(result) + 1] = p
      /\ \A n \in 1 .. Len(result) : result'[n] = result[n]
  BY <1>2, <1>3, AppendProperties, LenProperties
<1>5. \A n \in 1 .. Len(result) : result[n] # p
  BY <1>2, <1>3 DEF Mine!Found
<1>6. EachOnce'
  <2> SUFFICES ASSUME NEW m \in 1 .. Len(result) + 1, NEW n \in 1 .. Len(result) + 1,
                      result'[m] = result'[n]
               PROVE  m = n
    BY <1>4 DEF EachOnce
  <2>1. CASE m = Len(result) + 1 \/ n = Len(result) + 1
    BY <1>4, <1>5, <2>1
  <2>2. CASE m \in 1 .. Len(result) /\ n \in 1 .. Len(result)
    BY <1>3, <1>4, <2>2 DEF EachOnce
  <2> QED
    BY <1>4, <2>1, <2>2
<1>7. MiningInv'
  BY <1>1, <1>3, <1>4, <1>6 DEF MiningInv, S
<1>8. TypeOK'
  BY <1>1 DEF IInv, TypeOK
<1> QED
  BY <1>1, <1>3, <1>7, <1>8 DEF IInv, AnswerInv

LEMMA AbortInv == IInv /\ Mine!Abort /\ UNCHANGED <<request, reply>> => IInv'
<1> SUFFICES ASSUME IInv, Mine!Abort, UNCHANGED <<request, reply>> PROVE IInv'
  OBVIOUS
<1>1. /\ host = "mining" /\ host' = "aborted"
      /\ UNCHANGED <<call, iter, base, result>>
  BY DEF Mine!Abort
<1>2. reply = NoReply
  BY <1>1 DEF IInv, MiningInv
<1> QED
  BY <1>1, <1>2 DEF IInv, TypeOK, MiningInv, AnswerInv

(* Both ways a call comes back: with its planets, or past the overflow. *)
LEMMA AnsweredInv ==
  ASSUME IInv, host = "mining", host' = "returned", call.rarity # 0,
         reply' = Encode(request, result),
         UNCHANGED <<request, call, iter, base, result>>,
         Mine!Found = Planets(call) \/ (result = << >> /\ Overflows(call))
  PROVE  IInv'
<1>1. /\ request \in Requests /\ Valid(request)
      /\ call = Chunk(Args(request)) /\ result \in Seq(Planets(call)) /\ EachOnce
  BY DEF IInv, MiningInv
<1>2. request.body # Empty
  BY <1>1 DEF Valid
<1>3. reply'.kind = "result"
  BY <1>1, EncodeType
<1>4. TypeOK'
  BY <1>3 DEF IInv, TypeOK
<1>5. EachOnce' /\ Mine!Found' = Mine!Found
  BY <1>1 DEF EachOnce, Mine!Found
<1>6. AnswerInv'
  BY <1>1, <1>2, <1>5 DEF AnswerInv
<1> QED
  BY <1>4, <1>6 DEF IInv, MiningInv

LEMMA RespondInv == IInv /\ Respond => IInv'
<1> SUFFICES ASSUME IInv, Respond PROVE IInv'
  OBVIOUS
<1>1. /\ host = "mining" /\ host' = "returned"
      /\ call \in {d \in Calls : d.rarity # 0}
      /\ reply' = Encode(request, result)
      /\ UNCHANGED <<request, call, iter, base, result>>
      /\ Mine!Found = Planets(call)
  BY DEF Respond, Mine!Return
<1>2. call.rarity # 0
  BY <1>1
<1>3. /\ host = "mining" /\ host' = "returned" /\ reply' = Encode(request, result)
      /\ UNCHANGED <<request, call, iter, base, result>>
      /\ Mine!Found = Planets(call) \/ (result = << >> /\ Overflows(call))
  BY <1>1
<1> QED
  BY <1>2, <1>3, AnsweredInv

LEMMA RespondOverflowInv == IInv /\ RespondOverflow => IInv'
<1> SUFFICES ASSUME IInv, RespondOverflow PROVE IInv'
  OBVIOUS
<1>1. /\ host = "mining" /\ host' = "returned" /\ call.rarity # 0
      /\ reply' = Encode(request, result)
      /\ UNCHANGED <<request, call, iter, base, result>>
      /\ result = << >> /\ Overflows(call)
  BY DEF RespondOverflow
<1> QED
  BY <1>1, AnsweredInv

LEMMA NextInv == IInv /\ [Next]_vars => IInv'
<1> SUFFICES ASSUME IInv, [Next]_vars PROVE IInv'
  OBVIOUS
<1>1. CASE UNCHANGED vars
  BY <1>1 DEF vars, minerVars, IInv, TypeOK, MiningInv, AnswerInv, EachOnce, Mine!Found
<1>2. CASE \E r \in Requests : Ignore(r) \/ RpcFault(r) \/ RestThrow(r) \/ MineSingle(r)
  BY <1>2, IgnoreInv, RpcFaultInv, RestThrowInv, MineSingleInv
<1>3. CASE MinerStep
  BY <1>3, FindInv, AbortInv DEF MinerStep
<1> QED
  BY <1>1, <1>2, <1>3, RespondInv, RespondOverflowInv DEF Next
-----------------------------------------------------------------------------
(***************************************************************************)
(* The inductive invariant of the endpoints: the miner always works on the *)
(* chunk of the request in hand, and an answer is what that call found.    *)
(***************************************************************************)
THEOREM AlwaysIInv == Spec => []IInv
<1>1. Init => IInv
  BY InitInv
<1>2. IInv /\ [Next]_vars => IInv'
  BY NextInv
<1> QED
  BY <1>1, <1>2, PTL DEF Spec

(***************************************************************************)
(* Every variable keeps its type; arguments reach the miner in 32 bits.    *)
(***************************************************************************)
THEOREM TypeCorrect == Spec => []TypeOK
<1>1. IInv => TypeOK
  BY DEF IInv
<1> QED
  BY <1>1, AlwaysIInv, PTL
-----------------------------------------------------------------------------
(***************************************************************************)
(* The chunk of a request in range is the square the request names.        *)
(***************************************************************************)
LEMMA SpanInRange ==
  ASSUME NEW from \in Int64Range, NEW length \in Nat, from + length < Half
  PROVE  Span(from, length) = from .. from + length - 1
<1>1. \A n \in Int64Range : Int64(n) = n
  BY Widths DEF Int64Range, Int64
<1>2. \A k \in 0 .. length-1 : from + k \in Int64Range
  BY Widths DEF Int64Range
<1>3. \A k \in 0 .. length-1 : Int64(from + k) = from + k
  BY <1>1, <1>2
<1>4. Span(from, length) = {from + k : k \in 0 .. length-1}
  BY <1>3 DEF Span
<1>5. from \in Int
  BY Widths DEF Int64Range
<1>6. ASSUME NEW n \in from .. from + length - 1
      PROVE  n \in {from + k : k \in 0 .. length-1}
  <2>1. n - from \in 0 .. length-1 /\ n = from + (n - from)
    BY <1>5
  <2> QED
    BY <2>1
<1>7. \A k \in 0 .. length-1 : from + k \in from .. from + length - 1
  BY <1>5
<1> QED
  BY <1>4, <1>6, <1>7

LEMMA PlanetsInRange ==
  ASSUME NEW r \in Requests, Valid(r), InRange(Args(r))
  PROVE  /\ ~ Overflows(Chunk(Args(r)))
         /\ Planets(Chunk(Args(r))) =
              { l \in {Location(px, py, Args(r).key) :
                        px \in Args(r).x .. Args(r).x + Args(r).size - 1,
                        py \in Args(r).y .. Args(r).y + Args(r).size - 1} :
                  l.hash < P \div Args(r).rarity }
<1> DEFINE a == Args(r)
           c == Chunk(a)
           X == a.x .. a.x + a.size - 1
           Y == a.y .. a.y + a.size - 1
<1>1. /\ a.x \in Int64Range /\ a.y \in Int64Range
      /\ a.size \in 0 .. Word-1 /\ a.rarity \in 0 .. Word-1 /\ a.key \in 0 .. Word-1
      /\ a.x + a.size < Half /\ a.y + a.size < Half
  BY ArgsType DEF InRange
<1>2. a.size \in Int /\ a.rarity \in Int /\ a.key \in Int /\ a.x \in Int /\ a.y \in Int
  BY <1>1, Widths DEF Int64Range
<1>3. Uint32(a.size) = a.size /\ Uint32(a.rarity) = a.rarity /\ Uint32(a.key) = a.key
  BY <1>1, <1>2, Cut
<1>4. c.x = a.x /\ c.y = a.y /\ c.side = a.size /\ c.rarity = a.rarity /\ c.key = a.key
  BY <1>3, ChunkType
<1>5. ~ Overflows(c)
  BY <1>1, <1>2, <1>4, Widths DEF Overflows
<1>6. a.size \in Nat
  BY <1>1, Widths
<1>7. Span(c.x, c.side) = X /\ Span(c.y, c.side) = Y
  BY <1>1, <1>4, <1>6, SpanInRange
<1> HIDE DEF a, X, Y
<1>8. Planets(c) =
        { [x |-> q[1], y |-> q[2], hash |-> PlanetHash(q[1], q[2], a.key)] :
            q \in { s \in X \X Y : PlanetHash(s[1], s[2], a.key) < P \div a.rarity } }
  BY <1>4, <1>7 DEF Planets, IsPlanet
<1> HIDE DEF c
<1> DEFINE L == {Location(px, py, a.key) : px \in X, py \in Y}
           T == {l \in L : l.hash < P \div a.rarity}
           h(px, py) == PlanetHash(px, py, a.key)
<1>9. \A px, py : /\ Location(px, py, a.key) = [x |-> px, y |-> py, hash |-> h(px, py)]
                   /\ Location(px, py, a.key).hash = h(px, py)
  BY DEF Location
<1>10. ASSUME NEW l \in Planets(c)
       PROVE  l \in T
  <2>1. PICK q \in {s \in X \X Y : h(s[1], s[2]) < P \div a.rarity} :
               l = [x |-> q[1], y |-> q[2], hash |-> h(q[1], q[2])]
    BY <1>8
  <2> HIDE DEF h
  <2>2. /\ q[1] \in X /\ q[2] \in Y /\ h(q[1], q[2]) < P \div a.rarity
        /\ l = Location(q[1], q[2], a.key) /\ l.hash = h(q[1], q[2])
    BY <1>9, <2>1
  <2> QED
    BY <2>2
<1>11. ASSUME NEW l \in T
       PROVE  l \in Planets(c)
  <2>1. PICK px \in X, py \in Y : l = Location(px, py, a.key)
    OBVIOUS
  <2>2. l = [x |-> px, y |-> py, hash |-> h(px, py)] /\ h(px, py) < P \div a.rarity
    BY <1>9, <2>1
  <2>3. <<px, py>> \in {s \in X \X Y : h(s[1], s[2]) < P \div a.rarity}
    BY <2>2
  <2>4. <<px, py>>[1] = px /\ <<px, py>>[2] = py
    OBVIOUS
  <2> QED
    BY <1>8, <2>2, <2>3, <2>4
<1>12. Planets(c) = T
  BY <1>10, <1>11
<1> QED
  BY <1>5, <1>12 DEF a, c, X, Y

(* A sequence with no element twice is as long as its set. *)
LEMMA SequenceLength ==
  ASSUME NEW S, NEW s \in Seq(S),
         \A m, n \in 1 .. Len(s) : s[m] = s[n] => m = n
  PROVE  Cardinality(Range(s)) = Len(s)
<1> DEFINE I == 1 .. Len(s)
           T == Range(s)
<1>1. Len(s) \in Nat /\ DOMAIN s = I /\ s \in [I -> S]
  BY LenProperties
<1>2. s \in [I -> T]
  BY <1>1 DEF Range
<1>3. s \in Injection(I, T)
  BY <1>1, <1>2 DEF Injection, IsInjective
<1>4. s \in Surjection(I, T)
  BY <1>1, <1>2 DEF Surjection, Range
<1>5. IsFiniteSet(I) /\ Cardinality(I) = Len(s)
  BY <1>1, FS_Interval
<1> HIDE DEF I, T
<1>6. ExistsBijection(I, T)
  BY <1>3, <1>4 DEF ExistsBijection, Bijection
<1>7. Cardinality(T) = Cardinality(I)
  BY <1>5, <1>6, FS_Bijection
<1> QED
  BY <1>5, <1>7 DEF T

(***************************************************************************)
(* Whatever was asked before, the answer to a request whose arguments fit  *)
(* names its footprint and has each planet of that square once.            *)
(***************************************************************************)
THEOREM AlwaysExact == Spec => []ExactAnswer
<1>1. IInv => ExactAnswer
  <2> SUFFICES ASSUME IInv, reply # NoReply, Valid(request), InRange(Args(request))
               PROVE  ExactAnswer
    BY DEF ExactAnswer
  <2> DEFINE a == Args(request)
             c == Chunk(a)
             S == Range(result)
  <2>1. /\ request \in Requests /\ call = c /\ c.rarity # 0
        /\ reply = Encode(request, result)
        /\ result \in Seq(Planets(c)) /\ EachOnce /\ base = 0
        /\ Mine!Found = Planets(c) \/ Overflows(c)
    BY DEF IInv, AnswerInv
  <2>2. Mine!Found = Planets(c)
    BY <2>1, PlanetsInRange
  <2>3. S = Planets(c) /\ Len(result) \in Nat
    <3>1. DOMAIN result = 1 .. Len(result) /\ Len(result) \in Nat
      BY <2>1, LenProperties
    <3> QED
      BY <2>1, <2>2, <3>1 DEF Mine!Found, Range
  <2>4. /\ reply.footprint = [x |-> a.x, y |-> a.y, size |-> a.size]
        /\ Decode(reply.locations) = S
        /\ reply.locations = Blank => result = << >>
        /\ reply.locations # Blank => reply.locations = result
    <3>1. request \in Requests /\ Valid(request) /\ Chunk(Args(request)).rarity # 0
      BY <2>1
    <3>2. result \in Seq(Planets(Chunk(Args(request))))
      BY <2>1
    <3> DEFINE e == Encode(request, result)
    <3>3. /\ e.footprint = [x |-> Args(request).x, y |-> Args(request).y,
                            size |-> Args(request).size]
          /\ Decode(e.locations) = Range(result)
          /\ e.locations = Blank => result = << >>
          /\ e.locations # Blank => e.locations = result
      BY <3>1, <3>2, EncodeType
    <3> HIDE DEF e
    <3>4. reply = e
      BY <2>1 DEF e
    <3> QED
      BY <3>3, <3>4
  <2>5. Cardinality(S) = Len(result)
    BY <2>1, SequenceLength DEF EachOnce
  <2>6. Cardinality(S) = IF reply.locations = Blank THEN 0 ELSE Len(reply.locations)
    BY <2>4, <2>5, EmptySeq
  <2>7. Decode(reply.locations) =
          { l \in {Location(px, py, a.key) : px \in a.x .. a.x + a.size - 1,
                                             py \in a.y .. a.y + a.size - 1} :
              l.hash < P \div a.rarity }
    BY <2>1, <2>3, <2>4, PlanetsInRange
  <2>8. Cardinality(Decode(reply.locations)) =
          IF reply.locations = Blank THEN 0 ELSE Len(reply.locations)
    BY <2>4, <2>6
  <2> QED
    BY <2>4, <2>7, <2>8 DEF ExactAnswer
<1> QED
  BY <1>1, AlwaysIInv, PTL
-----------------------------------------------------------------------------
(***************************************************************************)
(* The steps of the endpoints as steps of Stateless.                       *)
(***************************************************************************)
LEMMA NoAnswer == Meaning(NoReply) = NoReply /\ Meaning(Fault) = Fault
BY DEF Meaning

(* Whichever way a call comes back, its answer is one the request may get. *)
LEMMA AnswerAllowed ==
  ASSUME IInv, host = "mining", call.rarity # 0,
         Mine!Found = Planets(call) \/ (result = << >> /\ Overflows(call))
  PROVE  Meaning(Encode(request, result)) \in AnswersTo(request)
<1> DEFINE c == Chunk(Args(request))
<1>1. /\ request \in Requests /\ Valid(request) /\ call = c /\ c.rarity # 0
      /\ result \in Seq(Planets(c)) /\ base = 0
  BY DEF IInv, MiningInv
<1>2. request.body # Empty
  BY <1>1 DEF Valid
<1>3. Meaning(Encode(request, result)) = ResultOf(request, Range(result))
  BY <1>1, EncodeType
<1>4. Range(result) = Mine!Found
  BY <1>1, LenProperties DEF Mine!Found, Range
<1>5. result = << >> => Range(result) = {}
  BY DEF Range
<1>6. AnswersTo(request) = {ResultOf(request, Planets(c))} \cup
                             (IF Overflows(c) THEN {ResultOf(request, {})} ELSE {})
  BY <1>1, <1>2 DEF AnswersTo
<1>7. CASE Mine!Found = Planets(c)
  BY <1>3, <1>4, <1>6, <1>7
<1>8. CASE result = << >> /\ Overflows(c)
  <2>1. Range(result) = {} /\ ResultOf(request, {}) \in AnswersTo(request)
    BY <1>5, <1>6, <1>8
  <2> QED
    BY <1>3, <2>1
<1> QED
  BY <1>1, <1>7, <1>8

LEMMA IgnoreTakes ==
  ASSUME NEW r \in Requests, Ignore(r)
  PROVE  Abstract!Take(r)
<1>1. /\ host # "aborted" /\ host # "mining" /\ host' = host
      /\ request' = r /\ reply' = NoReply /\ r.body = Empty
  BY DEF Ignore, Idle, minerVars
<1>2. Meaning(reply)' = NoReply
  BY <1>1, NoAnswer
<1>3. Meaning(reply)' \in AnswersTo(r)
  BY <1>1, <1>2 DEF AnswersTo
<1> QED
  BY <1>1, <1>3 DEF Abstract!Take

LEMMA RpcFaultTakes ==
  ASSUME NEW r \in Requests, RpcFault(r)
  PROVE  Abstract!Take(r)
<1>1. /\ host # "aborted" /\ host # "mining" /\ host' = host
      /\ request' = r /\ reply' = Fault /\ r.body # Empty /\ ~ Valid(r)
  BY DEF RpcFault, Idle, minerVars
<1>2. Meaning(reply)' = Fault
  BY <1>1, NoAnswer
<1>3. Meaning(reply)' \in AnswersTo(r)
  BY <1>1, <1>2 DEF AnswersTo
<1> QED
  BY <1>1, <1>3 DEF Abstract!Take

LEMMA RestThrowTakes ==
  ASSUME NEW r \in Requests, RestThrow(r)
  PROVE  Abstract!Take(r)
<1>1. /\ host # "aborted" /\ host # "mining" /\ host' = "aborted"
      /\ request' = r /\ reply' = NoReply
  BY DEF RestThrow, Idle
<1>2. Meaning(reply)' = NoReply
  BY <1>1, NoAnswer
<1> QED
  BY <1>1, <1>2 DEF Abstract!Take

LEMMA MineSingleTakes ==
  ASSUME NEW r \in Requests, MineSingle(r)
  PROVE  Abstract!Take(r)
<1>1. /\ host # "aborted" /\ host # "mining" /\ host' = "mining"
      /\ request' = r /\ reply' = NoReply
  BY DEF MineSingle, Mine!Begin, Idle
<1>2. Meaning(reply)' = NoReply
  BY <1>1, NoAnswer
<1> QED
  BY <1>1, <1>2 DEF Abstract!Take

LEMMA ComesBack ==
  ASSUME IInv, host = "mining", host' = "returned", call.rarity # 0,
         reply' = Encode(request, result), request' = request,
         Mine!Found = Planets(call) \/ (result = << >> /\ Overflows(call))
  PROVE  Abstract!Answer
<1>1. Meaning(Encode(request, result)) \in AnswersTo(request)
  BY AnswerAllowed
<1>2. Meaning(reply)' \in AnswersTo(request)
  <2>1. Meaning(reply)' = Meaning(Encode(request, result))
    BY DEF Meaning, Fault, Decode
  <2> QED
    BY <1>1, <2>1
<1> QED
  BY <1>2 DEF Abstract!Answer

LEMMA AbstractStep == IInv /\ [Next]_vars => [Abstract!Next]_(Abstract!vars)
<1> SUFFICES ASSUME IInv, [Next]_vars PROVE Abstract!Next \/ UNCHANGED Abstract!vars
  OBVIOUS
<1>1. CASE UNCHANGED vars
  BY <1>1 DEF vars, minerVars, Abstract!vars, Meaning, Decode, Fault
<1>2. CASE \E r \in Requests : Ignore(r) \/ RpcFault(r) \/ RestThrow(r) \/ MineSingle(r)
  BY <1>2, IgnoreTakes, RpcFaultTakes, RestThrowTakes, MineSingleTakes
     DEF Abstract!Next
<1>3. CASE MinerStep
  <2>1. CASE Mine!Find
    <3>1. UNCHANGED <<host, request, reply>>
      BY <1>3, <2>1 DEF MinerStep, Mine!Find
    <3> QED
      BY <3>1 DEF Abstract!vars, Meaning, Decode, Fault
  <2>2. CASE Mine!Abort
    <3>1. host = "mining" /\ host' = "aborted" /\ UNCHANGED <<request, reply>>
      BY <1>3, <2>2 DEF MinerStep, Mine!Abort
    <3>2. Meaning(reply)' = Meaning(reply)
      BY <3>1 DEF Meaning, Decode, Fault
    <3> QED
      BY <3>1, <3>2 DEF Abstract!Next, Abstract!Terminate
  <2> QED
    BY <1>3, <2>1, <2>2 DEF MinerStep
<1>4. CASE Respond
  <2>1. /\ host = "mining" /\ host' = "returned"
        /\ call \in {d \in Calls : d.rarity # 0}
        /\ reply' = Encode(request, result) /\ request' = request
        /\ Mine!Found = Planets(call)
    BY <1>4 DEF Respond, Mine!Return
  <2>2. call.rarity # 0
    BY <2>1
  <2> QED
    BY <2>1, <2>2, ComesBack DEF Abstract!Next
<1>5. CASE RespondOverflow
  <2>1. /\ host = "mining" /\ host' = "returned" /\ call.rarity # 0
        /\ reply' = Encode(request, result) /\ request' = request
        /\ result = << >> /\ Overflows(call)
    BY <1>5 DEF RespondOverflow
  <2> QED
    BY <2>1, ComesBack DEF Abstract!Next
<1> QED
  BY <1>1, <1>2, <1>3, <1>4, <1>5 DEF Next

(***************************************************************************)
(* The API is stateless: every step of the endpoints and the miner is a    *)
(* step of Stateless, in which an answer depends on its request alone.     *)
(***************************************************************************)
THEOREM ImplementsStateless == Spec => KeepsStateless
<1>1. Init => Abstract!Init
  BY NoAnswer DEF Init, Mine!Init, Abstract!Init
<1>2. IInv /\ [Next]_vars => [Abstract!Next]_(Abstract!vars)
  BY AbstractStep
<1> QED
  BY <1>1, <1>2, AlwaysIInv, PTL DEF Spec, KeepsStateless, Abstract!Spec
=============================================================================
