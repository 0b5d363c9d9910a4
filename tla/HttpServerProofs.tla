-------------------------- MODULE HttpServerProofs --------------------------
(***************************************************************************)
(* For any number of connections, requests and descriptors: the web server *)
(* keeps one operation pending per stream, answers the requests of each    *)
(* connection in order, and implements Exchange.                           *)
(***************************************************************************)
EXTENDS HttpServer, SequenceTheorems, TLAPS

(***************************************************************************)
(* The session's operations, on their types.                               *)
(***************************************************************************)
LEMMA NewSessionType ==
  NewSession \in SessionType /\ NewSession.reads = 0 /\ NewSession.writes = << >>
BY DEF NewSession, SessionType, Replies

LEMMA SendMessageType ==
  ASSUME NEW s \in SessionType, NEW m \in Replies
  PROVE  /\ SendMessage(s, m) \in SessionType
         /\ SendMessage(s, m).socket = s.socket
         /\ SendMessage(s, m).on_request = s.on_request
         /\ SendMessage(s, m).reads = s.reads
         /\ SendMessage(s, m).writes = Append(s.writes, m)
BY DEF SendMessage, SessionType

LEMMA ReleaseType ==
  ASSUME NEW s \in SessionType
  PROVE  /\ Release(s) \in SessionType
         /\ Release(s).on_request = s.on_request
         /\ Release(s).reads = s.reads
         /\ Release(s).writes = s.writes
         /\ s.writes # << >> => Release(s) = s
         /\ s.reads = 0 /\ s.writes = << >> => Release(s).socket = "closed"
BY DEF Release, SessionType

LEMMA StopType ==
  ASSUME NEW s \in SessionType
  PROVE  /\ Stop(TimeOut(s)) \in SessionType
         /\ Stop(TimeOut(s)).on_request = s.on_request
         /\ Stop(TimeOut(s)).reads = s.reads
         /\ Stop(TimeOut(s)).writes = s.writes
         /\ Stop(TimeOut(s)).socket # "open"
         /\ s.socket # "none" => Stop(TimeOut(s)).socket # "none"
BY DEF Stop, TimeOut, SessionType

LEMMA StartType ==
  ASSUME NEW s \in SessionType
  PROVE  /\ Start(s) \in SessionType
         /\ Start(s).socket = s.socket
         /\ Start(s).on_request = s.on_request
         /\ Start(s).reads = s.reads + 1
         /\ Start(s).writes = s.writes
<1>1. s.reads \in Nat /\ s.reads + 1 \in Nat
  BY DEF SessionType
<1>2. \A n \in Nat : [s EXCEPT !.reads = n, !.expired = FALSE] \in SessionType
  BY DEF SessionType
<1>3. Start(s) \in SessionType
  BY <1>1, <1>2 DEF Start
<1>4. /\ Start(s).socket = s.socket
      /\ Start(s).on_request = s.on_request
      /\ Start(s).reads = s.reads + 1
      /\ Start(s).writes = s.writes
  BY DEF Start, SessionType
<1> QED
  BY <1>3, <1>4

LEMMA AcceptedType ==
  ASSUME NEW s \in SessionType
  PROVE  LET o == SetRequestHandler([s EXCEPT !.socket = "open"])
         IN  /\ o \in SessionType
             /\ o.socket = "open" /\ o.on_request = TRUE
             /\ o.reads = s.reads /\ o.writes = s.writes
<1> DEFINE o == [s EXCEPT !.socket = "open"]
<1>1. /\ o \in SessionType /\ o.socket = "open"
      /\ o.reads = s.reads /\ o.writes = s.writes
  BY DEF SessionType
<1> HIDE DEF o
<1>2. /\ SetRequestHandler(o) \in SessionType
      /\ SetRequestHandler(o).socket = o.socket
      /\ SetRequestHandler(o).on_request = TRUE
      /\ SetRequestHandler(o).reads = o.reads
      /\ SetRequestHandler(o).writes = o.writes
  BY <1>1 DEF SetRequestHandler, SessionType
<1> QED
  BY <1>1, <1>2 DEF o

LEMMA ReadDoneType ==
  ASSUME NEW s \in SessionType, s.reads = 1
  PROVE  /\ ReadDone(s) \in SessionType
         /\ ReadDone(s).reads = 0
         /\ ReadDone(s).socket = s.socket
         /\ ReadDone(s).on_request = s.on_request
         /\ ReadDone(s).writes = s.writes
BY DEF ReadDone, SessionType

LEMMA AtMostOne ==
  ASSUME NEW n \in Nat \ {0}, n <= 1
  PROVE  n = 1
OBVIOUS

(***************************************************************************)
(* A pending write is the only one, and the message it sends the head.     *)
(***************************************************************************)
LEMMA OneWrite ==
  ASSUME NEW w \in Seq(Replies), Len(w) <= 1, w # << >>
  PROVE  Len(w) = 1 /\ Tail(w) = << >> /\ Head(w) \in Replies
<1>1. Len(w) = 1
  <2>1. Len(w) \in Nat \ {0}
    BY EmptySeq, Zenon
  <2>2. Len(w) <= 1
    OBVIOUS
  <2> QED
    BY <2>1, <2>2, AtMostOne, Zenon
<1>2. Tail(w) \in Seq(Replies) /\ Len(Tail(w)) = 0
  <2>1. Tail(w) \in Seq(Replies) /\ Len(Tail(w)) = Len(w) - 1
    BY HeadTailProperties, Zenon
  <2> QED
    BY <1>1, <2>1
<1> QED
  BY <1>1, <1>2, EmptySeq, HeadTailProperties

(***************************************************************************)
(* What a step leaves alone stays consistent.                              *)
(***************************************************************************)
LEMMA ConsistentKept ==
  ASSUME NEW d \in Conns, Consistent(d),
         session'[d] = session[d], asked'[d] = asked[d],
         delivered'[d] = delivered[d],
         serving' = d <=> serving = d,
         serving = d => mining' = mining
  PROVE  Consistent(d)'
BY DEF Consistent, Unanswered, LastAsked

LEMMA InitInv == Init => IInv
<1> SUFFICES ASSUME Init PROVE IInv
  OBVIOUS
<1>1. TypeOK
  <2>1. session \in [Conns -> SessionType]
    BY NewSessionType DEF Init
  <2>2. /\ inbox \in [Conns -> Seq(Requests)]
        /\ asked \in [Conns -> Seq(Requests)]
        /\ delivered \in [Conns -> Seq(Replies)]
    BY EmptySeq DEF Init
  <2> QED
    BY <2>1, <2>2 DEF Init, TypeOK, Messages
<1>2. SetupInv
  BY DEF Init, SetupInv
<1>3. ASSUME NEW c \in Conns PROVE Consistent(c)
  BY ServerAssumption DEF Init, Consistent, NewSession, Unanswered, LastAsked
<1> QED
  BY <1>1, <1>2, <1>3 DEF IInv

-----------------------------------------------------------------------------
(***************************************************************************)
(* The steps that no session takes part in.                                *)
(***************************************************************************)
LEMMA ConnectionsKept ==
  ASSUME IInv, UNCHANGED <<session, serving, mining, history>>
  PROVE  \A c \in Conns : Consistent(c)'
BY ConsistentKept DEF IInv, history

LEMMA InitializeInv ==
  ASSUME IInv, Initialize
  PROVE  IInv'
<1>1. TypeOK' /\ SetupInv'
  BY DEF Initialize, IInv, TypeOK, SetupInv, clientVars, history
<1> QED
  BY <1>1, ConnectionsKept DEF Initialize, IInv

LEMMA StartListenerInv ==
  ASSUME IInv, StartListener
  PROVE  IInv'
<1>1. TypeOK' /\ SetupInv'
  BY DEF StartListener, AcceptOne, IInv, TypeOK, SetupInv, clientVars, history
<1> QED
  BY <1>1, ConnectionsKept DEF StartListener, IInv

LEMMA SetNewSessionHandlerInv ==
  ASSUME IInv, SetNewSessionHandler
  PROVE  IInv'
<1>1. TypeOK' /\ SetupInv'
  BY DEF SetNewSessionHandler, IInv, TypeOK, SetupInv, clientVars, history
<1> QED
  BY <1>1, ConnectionsKept DEF SetNewSessionHandler, IInv

LEMMA MinerAbortsInv ==
  ASSUME IInv, MinerAborts
  PROVE  IInv'
<1>1. TypeOK' /\ SetupInv'
  BY DEF MinerAborts, IInv, TypeOK, SetupInv, clientVars, history
<1> QED
  BY <1>1, ConnectionsKept DEF MinerAborts, IInv

LEMMA ClientStepInv ==
  ASSUME IInv, NEW c \in Conns, ClientStep(c)
  PROVE  IInv'
<1>1. UNCHANGED <<serverVars, history>>
  BY DEF ClientStep, Connect, BeginRequest, EndRequest, HalfClose, Vanish
<1>2. /\ peer' \in [Conns -> {"absent", "open", "half", "reset"}]
      /\ partial' \in [Conns -> Requests \cup {"none"}]
      /\ inbox' \in [Conns -> Seq(Requests)]
  <2> USE DEF IInv, TypeOK
  <2>1. CASE Connect(c)
    BY <2>1 DEF Connect
  <2>2. CASE BeginRequest(c)
    BY <2>2, ServerAssumption DEF BeginRequest
  <2>3. CASE EndRequest(c)
    <3>1. partial[c] \in Requests /\ inbox[c] \in Seq(Requests)
      BY <2>3 DEF EndRequest
    <3>2. Append(inbox[c], partial[c]) \in Seq(Requests)
      BY <3>1, AppendProperties
    <3> QED
      BY <2>3, <3>2 DEF EndRequest
  <2>4. CASE HalfClose(c)
    BY <2>4 DEF HalfClose
  <2>5. CASE Vanish(c)
    BY <2>5, EmptySeq DEF Vanish
  <2> QED
    BY <2>1, <2>2, <2>3, <2>4, <2>5 DEF ClientStep
<1>3. TypeOK' /\ SetupInv'
  BY <1>1, <1>2 DEF IInv, TypeOK, SetupInv, serverVars, history
<1> QED
  BY <1>1, <1>3, ConnectionsKept DEF IInv, serverVars

-----------------------------------------------------------------------------
(***************************************************************************)
(* The steps of one connection.  It is enough to know its new session, and *)
(* that of the others nothing changes.                                     *)
(***************************************************************************)
LEMMA OneConnection ==
  ASSUME IInv, phase = "run", NEW c \in Conns,
         phase' \in {"run", "terminated"}, UNCHANGED installed,
         accepting' \in BOOLEAN,
         NEW s \in SessionType, session' = [session EXCEPT ![c] = s],
         serving \in {Nobody, c}, serving' \in {Nobody, c},
         mining' \in Messages,
         serving' # Nobody => mining' \in {"rpc", "rest"},
         peer' = peer, partial' = partial, inbox' \in [Conns -> Seq(Requests)],
         asked' \in [Conns -> Seq(Requests)],
         delivered' \in [Conns -> Seq(Replies)],
         \A d \in Conns \ {c} : asked'[d] = asked[d] /\ delivered'[d] = delivered[d],
         Consistent(c)'
  PROVE  IInv'
<1>1. TypeOK' /\ SetupInv'
  BY DEF IInv, TypeOK, SetupInv
<1>2. ASSUME NEW d \in Conns, d # c PROVE Consistent(d)'
  <2>1. session'[d] = session[d] /\ Consistent(d)
    BY <1>2 DEF IInv, TypeOK
  <2>2. serving # d /\ serving' # d
    BY <1>2, ServerAssumption
  <2> QED
    BY <1>2, <2>1, <2>2, ConsistentKept
<1> QED
  BY <1>1, <1>2 DEF IInv

LEMMA OnAcceptInv ==
  ASSUME IInv, NEW c \in Conns, OnAccept(c)
  PROVE  IInv'
<1> DEFINE a == SetRequestHandler([session[c] EXCEPT !.socket = "open"])
           s == Start(a)
<1>1. /\ phase = "run" /\ serving = Nobody /\ installed
      /\ session[c] = NewSession /\ session \in [Conns -> SessionType]
      /\ Len(asked[c]) = Len(delivered[c])
      /\ Consistent(c)
  BY DEF OnAccept, Acceptable, Free, IInv, TypeOK, SetupInv, Consistent
<1>2. /\ a \in SessionType /\ a.socket = "open" /\ a.on_request = TRUE
      /\ a.reads = 0 /\ a.writes = << >>
  <2>1. session[c] \in SessionType /\ session[c].reads = 0 /\ session[c].writes = << >>
    BY <1>1, NewSessionType
  <2> QED
    BY <2>1, AcceptedType
<1> HIDE DEF a
<1>3. /\ s \in SessionType /\ s.socket = "open" /\ s.on_request = TRUE
      /\ s.reads = 1 /\ s.writes = << >>
  BY <1>2, StartType
<1>4. session' = [session EXCEPT ![c] = s] /\ session'[c] = s
  BY <1>1 DEF OnAccept, Equip, a
<1> HIDE DEF s
<1>5. Consistent(c)'
  BY <1>1, <1>3, <1>4, ServerAssumption
  DEF OnAccept, Consistent, Unanswered, LastAsked, history
<1> QED
  BY <1>1, <1>3, <1>4, <1>5, OneConnection
  DEF OnAccept, AcceptOne, IInv, TypeOK, clientVars, history, SetupInv

LEMMA OnAcceptErrorInv ==
  ASSUME IInv, NEW c \in Conns, OnAcceptError(c)
  PROVE  IInv'
<1> DEFINE s == [session[c] EXCEPT !.socket = "closed"]
<1>1. /\ phase = "run" /\ serving = Nobody /\ installed
      /\ session[c] = NewSession /\ session \in [Conns -> SessionType]
      /\ Consistent(c)
  BY DEF OnAcceptError, Acceptable, Free, IInv, TypeOK, SetupInv, Consistent
<1>2. /\ s \in SessionType /\ s.socket = "closed"
      /\ s.reads = 0 /\ s.writes = << >>
  <2>1. session[c] \in SessionType /\ session[c].reads = 0 /\ session[c].writes = << >>
    BY <1>1, NewSessionType
  <2> QED
    BY <2>1 DEF SessionType
<1>3. session' = [session EXCEPT ![c] = s] /\ session'[c] = s
  BY <1>1 DEF OnAcceptError
<1> HIDE DEF s
<1>4. Consistent(c)'
  <2>1. serving' # c /\ asked' = asked /\ delivered' = delivered
    BY <1>1, ServerAssumption DEF OnAcceptError, history
  <2>2. session'[c].reads = 0 /\ session'[c].writes = << >> /\ session'[c].socket = "closed"
    BY <1>2, <1>3
  <2> QED
    BY <1>1, <2>1, <2>2 DEF Consistent
<1> QED
  BY <1>1, <1>2, <1>3, <1>4, OneConnection
  DEF OnAcceptError, AcceptOne, IInv, TypeOK, clientVars, history, SetupInv

LEMMA ExpireInv ==
  ASSUME IInv, NEW c \in Conns, Expire(c)
  PROVE  IInv'
<1> DEFINE s == [session[c] EXCEPT !.expired = TRUE]
<1>1. /\ phase = "run" /\ session[c] \in SessionType
      /\ session[c].socket = "open"
      /\ session \in [Conns -> SessionType] /\ Consistent(c)
  BY DEF Expire, IInv, TypeOK
<1>2. /\ s \in SessionType /\ s.socket = "open"
      /\ s.on_request = session[c].on_request
      /\ s.reads = session[c].reads /\ s.writes = session[c].writes
  BY <1>1 DEF SessionType
<1>3. session' = [session EXCEPT ![c] = s] /\ session'[c] = s
  BY <1>1 DEF Expire
<1> HIDE DEF s
<1>4. Consistent(c)'
  BY <1>1, <1>2, <1>3
  DEF Expire, Consistent, Unanswered, LastAsked, history
<1>5. ASSUME NEW d \in Conns, d # c PROVE Consistent(d)'
  BY <1>1, <1>3, <1>5, ConsistentKept DEF Expire, IInv, history
<1>6. TypeOK' /\ SetupInv'
  BY <1>1, <1>2, <1>3
  DEF Expire, IInv, TypeOK, SetupInv, setupVars, clientVars, history
<1> QED
  BY <1>4, <1>5, <1>6 DEF IInv

(***************************************************************************)
(* A session with nothing pending, which a step has made out of s for the  *)
(* request m: nothing is pending, its reply is, or it is being mined.      *)
(***************************************************************************)
LEMMA DispatchedConsistent ==
  ASSUME IInv, NEW c \in Conns, NEW s \in SessionType, NEW m \in Messages,
         NEW r \in SessionType, session'[c] = r,
         asked'[c] \in Seq(Requests), delivered' = delivered,
         s.on_request = TRUE, s.socket # "none",
         r.reads = 0, r.on_request = TRUE,
         \/ r.writes = << >> /\ serving' = Nobody /\ r.socket # "none"
         \/ r.writes = <<ReplyTo(m)>> /\ serving' = Nobody /\ r.socket = s.socket
         \/ /\ r.writes = << >> /\ serving' = c /\ mining' = m
            /\ r.socket = s.socket,
         s.socket = "open" => Unanswered(c)' /\ m = LastAsked(c)',
         Len(delivered[c]) <= Len(asked'[c]),
         \A n \in 1 .. Len(delivered[c]) : delivered[c][n] = ReplyTo(asked'[c][n])
  PROVE  Consistent(c)'
<1>1. CASE r.writes = << >> /\ serving' = Nobody /\ r.socket # "none"
  BY <1>1, ServerAssumption DEF Consistent
<1>2. CASE r.writes = <<ReplyTo(m)>> /\ serving' = Nobody /\ r.socket = s.socket
  <2>1. Len(r.writes) = 1 /\ Head(r.writes) = ReplyTo(m) /\ r.writes # << >>
    BY <1>2
  <2> QED
    BY <1>2, <2>1, ServerAssumption DEF Consistent
<1>3. CASE r.writes = << >> /\ serving' = c /\ mining' = m /\ r.socket = s.socket
  BY <1>3 DEF Consistent
<1> QED
  BY <1>1, <1>2, <1>3

LEMMA DispatchInv ==
  ASSUME IInv, Free, NEW c \in Conns, NEW s \in SessionType, NEW m \in Messages,
         s.reads = 0, s.writes = << >>, s.on_request = TRUE, s.socket # "none",
         Dispatch(c, s, m),
         UNCHANGED <<installed, accepting, peer, partial, delivered>>,
         inbox' \in [Conns -> Seq(Requests)],
         asked' \in [Conns -> Seq(Requests)],
         \A d \in Conns \ {c} : asked'[d] = asked[d],
         s.socket = "open" => Unanswered(c)' /\ m = LastAsked(c)',
         Len(delivered[c]) <= Len(asked'[c]),
         \A n \in 1 .. Len(delivered[c]) : delivered[c][n] = ReplyTo(asked'[c][n])
  PROVE  IInv'
<1> DEFINE Good(r) ==
      /\ r \in SessionType /\ session' = [session EXCEPT ![c] = r]
      /\ r.reads = 0 /\ r.on_request = TRUE
      /\ \/ r.writes = << >> /\ serving' = Nobody /\ r.socket # "none"
         \/ r.writes = <<ReplyTo(m)>> /\ serving' = Nobody /\ r.socket = s.socket
         \/ /\ r.writes = << >> /\ serving' = c /\ mining' = m
            /\ r.socket = s.socket
      /\ phase' \in {"run", "terminated"}
      /\ mining' \in Messages
      /\ serving' # Nobody => mining' \in {"rpc", "rest"}
<1>1. /\ phase = "run" /\ serving = Nobody /\ mining \in Messages
      /\ session \in [Conns -> SessionType]
  BY DEF Free, IInv, TypeOK
<1>2. \A reply \in Replies : /\ SendMessage(s, reply).writes = <<reply>>
                             /\ Release(SendMessage(s, reply)) = SendMessage(s, reply)
  <2> TAKE reply \in Replies
  <2>1. /\ SendMessage(s, reply) \in SessionType
        /\ SendMessage(s, reply).writes = Append(s.writes, reply)
    BY SendMessageType
  <2>2. Append(s.writes, reply) = <<reply>> /\ <<reply>> # << >>
    OBVIOUS
  <2> QED
    BY <2>1, <2>2, ReleaseType
<1>3. \E r : Good(r)
  <2>1. CASE m \notin Post /\ session' = [session EXCEPT ![c] = Release(HandleRequest(s, m))]
                           /\ UNCHANGED <<phase, serving, mining>>
    <3>1. HandleRequest(s, m) = SendMessage(s, ReplyTo(m)) /\ ReplyTo(m) \in Replies
      BY <2>1 DEF HandleRequest, ReplyTo, Post, Replies
    <3>2. Good(SendMessage(s, ReplyTo(m)))
      BY <1>1, <1>2, <2>1, <3>1, SendMessageType
    <3> QED
      BY <3>2
  <2>2. CASE m = "empty" /\ session' = [session EXCEPT ![c] = Release(s)]
                         /\ UNCHANGED <<phase, serving, mining>>
    <3>1. Good(Release(s))
      BY <1>1, <2>2, ReleaseType
    <3> QED
      BY <3>1
  <2>3. CASE m = "rpc_bad" /\ session' = [session EXCEPT ![c] = SendMessage(s, "rpc_fault")]
                           /\ UNCHANGED <<phase, serving, mining>>
    <3>1. ReplyTo(m) = "rpc_fault" /\ "rpc_fault" \in Replies
      BY <2>3 DEF ReplyTo, Replies
    <3>2. Good(SendMessage(s, ReplyTo(m)))
      BY <1>1, <1>2, <2>3, <3>1, SendMessageType
    <3> QED
      BY <3>2
  <2>4. CASE m \in Throws /\ session' = [session EXCEPT ![c] = s]
                         /\ phase' = "terminated" /\ UNCHANGED <<serving, mining>>
    <3>1. Good(s)
      BY <1>1, <2>4
    <3> QED
      BY <3>1
  <2>5. CASE m \in {"rpc", "rest"} /\ session' = [session EXCEPT ![c] = s]
                         /\ serving' = c /\ mining' = m /\ UNCHANGED phase
    <3>1. Good(s)
      BY <1>1, <2>5
    <3> QED
      BY <3>1
  <2> QED
    BY <2>1, <2>2, <2>3, <2>4, <2>5 DEF Dispatch, Become
<1>4. PICK r : Good(r)
  BY <1>3
<1>5. session'[c] = r
  BY <1>1, <1>4
<1>6. Consistent(c)'
  BY <1>4, <1>5, DispatchedConsistent
<1> QED
  BY <1>1, <1>4, <1>6, OneConnection DEF IInv, TypeOK

(***************************************************************************)
(* A session with a read pending.                                          *)
(***************************************************************************)
LEMMA Reading ==
  ASSUME IInv, NEW c \in Conns, session[c].reads > 0
  PROVE  /\ session[c] \in SessionType
         /\ session[c].reads = 1 /\ session[c].writes = << >>
         /\ session[c].on_request = TRUE /\ session[c].socket = "open"
         /\ serving # c
         /\ asked[c] \in Seq(Requests) /\ delivered[c] \in Seq(Replies)
         /\ Len(asked[c]) \in Nat
         /\ Len(asked[c]) = Len(delivered[c])
         /\ \A n \in 1 .. Len(delivered[c]) : delivered[c][n] = ReplyTo(asked[c][n])
<1>1. /\ session[c] \in SessionType /\ Consistent(c)
      /\ asked[c] \in Seq(Requests) /\ delivered[c] \in Seq(Replies)
  BY DEF IInv, TypeOK
<1>2. /\ session[c].writes \in Seq(Replies) /\ session[c].reads \in Nat
      /\ session[c].on_request \in BOOLEAN
  BY <1>1 DEF SessionType
<1>3. Len(session[c].writes) \in Nat /\ Len(asked[c]) \in Nat
  BY <1>1, <1>2, LenProperties
<1>4. session[c].reads = 1 /\ Len(session[c].writes) = 0 /\ serving # c
  BY <1>1, <1>2, <1>3 DEF Consistent
<1>5. session[c].writes = << >>
  BY <1>2, <1>4, EmptySeq
<1> QED
  BY <1>1, <1>2, <1>3, <1>4, <1>5 DEF Consistent

LEMMA OnReadInv ==
  ASSUME IInv, NEW c \in Conns, OnRead(c)
  PROVE  IInv'
<1> DEFINE s == ReadDone(session[c])
           m == Head(inbox[c])
<1>1. /\ Free /\ session[c].reads > 0 /\ inbox[c] # << >>
      /\ asked \in [Conns -> Seq(Requests)] /\ inbox \in [Conns -> Seq(Requests)]
      /\ inbox[c] \in Seq(Requests)
      /\ Dispatch(c, s, m)
      /\ UNCHANGED <<installed, accepting, peer, partial, delivered>>
  BY DEF OnRead, IInv, TypeOK
<1>2. /\ s \in SessionType /\ s.reads = 0 /\ s.writes = << >>
      /\ s.on_request = TRUE /\ s.socket # "none"
  BY <1>1, Reading, ReadDoneType
<1>3. m \in Requests /\ Tail(inbox[c]) \in Seq(Requests) /\ m \in Messages
  BY <1>1, HeadTailProperties DEF Messages
<1> HIDE DEF s, m
<1>4. /\ asked' = [asked EXCEPT ![c] = Append(asked[c], m)]
      /\ inbox' = [inbox EXCEPT ![c] = Tail(inbox[c])]
  BY DEF OnRead, m
<1>5. /\ asked'[c] = Append(asked[c], m)
      /\ asked'[c] \in Seq(Requests)
      /\ Len(asked'[c]) = Len(asked[c]) + 1
      /\ \A n \in 1 .. Len(asked[c]) : asked'[c][n] = asked[c][n]
      /\ asked'[c][Len(asked[c]) + 1] = m
  BY <1>1, <1>3, <1>4, AppendProperties
<1>6. /\ Unanswered(c)' /\ m = LastAsked(c)'
      /\ Len(delivered[c]) <= Len(asked'[c])
      /\ \A n \in 1 .. Len(delivered[c]) : delivered[c][n] = ReplyTo(asked'[c][n])
  <2>1. /\ Len(asked[c]) \in Nat /\ Len(asked[c]) = Len(delivered[c])
        /\ \A n \in 1 .. Len(delivered[c]) : delivered[c][n] = ReplyTo(asked[c][n])
    BY <1>1, Reading
  <2>2. delivered' = delivered
    BY <1>1
  <2> QED
    BY <1>5, <2>1, <2>2 DEF Unanswered, LastAsked
<1>7. /\ inbox' \in [Conns -> Seq(Requests)]
      /\ asked' \in [Conns -> Seq(Requests)]
      /\ \A d \in Conns \ {c} : asked'[d] = asked[d]
  BY <1>1, <1>3, <1>4, <1>5
<1> QED
  BY <1>1, <1>2, <1>3, <1>6, <1>7, DispatchInv

LEMMA OnReadErrorInv ==
  ASSUME IInv, NEW c \in Conns, OnReadError(c)
  PROVE  IInv'
<1> DEFINE d == ReadDone(session[c])
           s == Stop(TimeOut(d))
<1>1. /\ Free /\ session[c].reads > 0 /\ TypeOK
      /\ UNCHANGED <<installed, accepting, clientVars, history>>
  BY DEF OnReadError, IInv
<1>2. Dispatch(c, s, FailedMessage(c))
  BY DEF OnReadError
<1>3. FailedMessage(c) \in Messages
  BY DEF FailedMessage, Messages
<1>4. /\ d \in SessionType /\ d.reads = 0 /\ d.writes = << >>
      /\ d.on_request = TRUE /\ d.socket # "none"
  BY <1>1, Reading, ReadDoneType
<1> HIDE DEF d
<1>5. /\ s \in SessionType /\ s.reads = 0 /\ s.writes = << >>
      /\ s.on_request = TRUE /\ s.socket # "none" /\ s.socket # "open"
  BY <1>4, StopType
<1> HIDE DEF s
<1>6. /\ asked' = asked /\ delivered' = delivered /\ inbox' = inbox
      /\ peer' = peer /\ partial' = partial
  BY <1>1 DEF clientVars, history
<1>7. /\ Len(delivered[c]) <= Len(asked'[c])
      /\ \A n \in 1 .. Len(delivered[c]) : delivered[c][n] = ReplyTo(asked'[c][n])
  <2>1. /\ Len(asked[c]) \in Nat /\ Len(asked[c]) = Len(delivered[c])
        /\ \A n \in 1 .. Len(delivered[c]) : delivered[c][n] = ReplyTo(asked[c][n])
    BY <1>1, Reading
  <2> QED
    BY <1>6, <2>1
<1>8. /\ inbox' \in [Conns -> Seq(Requests)]
      /\ asked' \in [Conns -> Seq(Requests)]
  BY <1>1, <1>6 DEF TypeOK
<1> QED
  BY <1>1, <1>2, <1>3, <1>5, <1>6, <1>7, <1>8, DispatchInv

(***************************************************************************)
(* A session with a write pending.                                         *)
(***************************************************************************)
LEMMA Writing ==
  ASSUME IInv, NEW c \in Conns, session[c].writes # << >>
  PROVE  /\ session[c] \in SessionType
         /\ WriteDone(session[c]) \in SessionType
         /\ WriteDone(session[c]).reads = 0
         /\ WriteDone(session[c]).writes = << >>
         /\ WriteDone(session[c]).on_request = TRUE
         /\ WriteDone(session[c]).socket = session[c].socket
         /\ session[c].socket # "none"
         /\ Head(session[c].writes) \in Replies
         /\ serving # c
<1>1. session[c] \in SessionType /\ Consistent(c)
  BY DEF IInv, TypeOK
<1>2. /\ session[c].writes \in Seq(Replies) /\ session[c].reads \in Nat
      /\ session[c].on_request \in BOOLEAN
  BY <1>1 DEF SessionType
<1>3. Len(session[c].writes) \in Nat \ {0}
  BY <1>2, EmptySeq
<1>4. session[c].reads = 0 /\ Len(session[c].writes) <= 1 /\ serving # c
  BY <1>1, <1>2, <1>3 DEF Consistent
<1>5. Tail(session[c].writes) = << >> /\ Head(session[c].writes) \in Replies
  BY <1>2, <1>4, OneWrite
<1>6. session[c].socket # "none" /\ session[c].on_request = TRUE
  BY <1>1, <1>2, NewSessionType DEF Consistent
<1>7. /\ WriteDone(session[c]) \in SessionType
      /\ WriteDone(session[c]).reads = session[c].reads
      /\ WriteDone(session[c]).writes = Tail(session[c].writes)
      /\ WriteDone(session[c]).on_request = session[c].on_request
      /\ WriteDone(session[c]).socket = session[c].socket
  <2>1. Tail(session[c].writes) \in Seq(Replies)
    BY <1>5, EmptySeq
  <2> HIDE DEF WriteDone
  <2> DEFINE t == Tail(session[c].writes)
  <2>2. WriteDone(session[c]) = [session[c] EXCEPT !.writes = t]
    BY DEF WriteDone
  <2> HIDE DEF t
  <2>3. t \in Seq(Replies) /\ Tail(session[c].writes) = t
    BY <2>1 DEF t
  <2> QED
    BY <1>1, <2>2, <2>3 DEF SessionType
<1> QED
  BY <1>1, <1>4, <1>5, <1>6, <1>7

LEMMA OnWriteInv ==
  ASSUME IInv, NEW c \in Conns, OnWrite(c)
  PROVE  IInv'
<1> DEFINE w == WriteDone(session[c])
           s == Start(w)
           reply == Head(session[c].writes)
<1>1. /\ phase = "run" /\ serving = Nobody
      /\ session[c].writes # << >> /\ session[c].socket = "open"
      /\ session \in [Conns -> SessionType]
      /\ asked \in [Conns -> Seq(Requests)] /\ delivered \in [Conns -> Seq(Replies)]
      /\ Consistent(c)
  BY DEF OnWrite, Free, IInv, TypeOK
<1>2. /\ w \in SessionType /\ w.reads = 0 /\ w.writes = << >>
      /\ w.on_request = TRUE /\ w.socket = "open"
      /\ reply \in Replies
  BY <1>1, Writing
<1>3. /\ Len(asked[c]) = Len(delivered[c]) + 1 /\ Len(delivered[c]) \in Nat
      /\ reply = ReplyTo(asked[c][Len(delivered[c]) + 1])
      /\ \A n \in 1 .. Len(delivered[c]) : delivered[c][n] = ReplyTo(asked[c][n])
  <2>1. Len(delivered[c]) \in Nat
    BY <1>1, LenProperties
  <2> QED
    BY <1>1, <2>1 DEF Consistent, Unanswered, LastAsked
<1> HIDE DEF w
<1>4. /\ s \in SessionType /\ s.socket = "open" /\ s.on_request = TRUE
      /\ s.reads = 1 /\ s.writes = << >>
  BY <1>2, StartType
<1>5. /\ session' = [session EXCEPT ![c] = s]
      /\ delivered' = [delivered EXCEPT ![c] = Append(delivered[c], reply)]
  BY DEF OnWrite, w
<1> HIDE DEF s, reply
<1>6. /\ delivered'[c] = Append(delivered[c], reply)
      /\ delivered'[c] \in Seq(Replies)
      /\ Len(delivered'[c]) = Len(delivered[c]) + 1
      /\ \A n \in 1 .. Len(delivered[c]) : delivered'[c][n] = delivered[c][n]
      /\ delivered'[c][Len(delivered[c]) + 1] = reply
  BY <1>1, <1>2, <1>5, AppendProperties
<1>7. /\ session'[c] = s /\ asked' = asked /\ serving' = Nobody /\ c # Nobody
      /\ \A n \in 1 .. Len(delivered'[c]) : delivered'[c][n] = ReplyTo(asked[c][n])
  <2>1. session'[c] = s /\ asked' = asked /\ serving' = Nobody /\ c # Nobody
    BY <1>1, <1>5, ServerAssumption DEF OnWrite
  <2>2. \A n \in 1 .. Len(delivered'[c]) :
          n \in 1 .. Len(delivered[c]) \/ n = Len(delivered[c]) + 1
    BY <1>3, <1>6
  <2> QED
    BY <1>3, <1>6, <2>1, <2>2
<1>8. Consistent(c)'
  BY <1>3, <1>4, <1>6, <1>7 DEF Consistent
<1>9. \A d \in Conns \ {c} : delivered'[d] = delivered[d]
  BY <1>1, <1>5
<1>10. delivered' \in [Conns -> Seq(Replies)]
  BY <1>1, <1>5, <1>6
<1> QED
  BY <1>1, <1>4, <1>5, <1>8, <1>9, <1>10, OneConnection
  DEF OnWrite, IInv, TypeOK, setupVars, clientVars, SetupInv

LEMMA OnWriteErrorInv ==
  ASSUME IInv, NEW c \in Conns, OnWriteError(c)
  PROVE  IInv'
<1> DEFINE w == WriteDone(session[c])
           t == Stop(TimeOut(w))
           s == Release(t)
<1>1. /\ phase = "run" /\ serving = Nobody /\ session[c].writes # << >>
      /\ session \in [Conns -> SessionType] /\ Consistent(c)
  BY DEF OnWriteError, Free, IInv, TypeOK
<1>2. w \in SessionType /\ w.reads = 0 /\ w.writes = << >>
  BY <1>1, Writing
<1> HIDE DEF w
<1>3. t \in SessionType /\ t.reads = 0 /\ t.writes = << >>
  BY <1>2, StopType
<1> HIDE DEF t
<1>4. /\ s \in SessionType /\ s.reads = 0 /\ s.writes = << >>
      /\ s.socket = "closed"
  BY <1>3, ReleaseType
<1>5. session' = [session EXCEPT ![c] = s]
  BY DEF OnWriteError, w, t
<1> HIDE DEF s
<1>6. Consistent(c)'
  <2>1. /\ serving' # c /\ asked' = asked /\ delivered' = delivered
        /\ session'[c] = s
    BY <1>1, <1>5, ServerAssumption DEF OnWriteError, history
  <2> QED
    BY <1>1, <1>4, <2>1 DEF Consistent
<1> QED
  BY <1>1, <1>4, <1>5, <1>6, OneConnection
  DEF OnWriteError, IInv, TypeOK, setupVars, clientVars, history, SetupInv

LEMMA MinedInv ==
  ASSUME IInv, Mined
  PROVE  IInv'
<1> DEFINE c == serving
           reply == IF mining = "rpc" THEN "rpc_result" ELSE "rest_result"
           s == SendMessage(session[c], reply)
<1>1. /\ phase = "run" /\ c \in Conns /\ mining \in {"rpc", "rest"}
      /\ session \in [Conns -> SessionType] /\ session[c] \in SessionType
      /\ asked \in [Conns -> Seq(Requests)] /\ delivered \in [Conns -> Seq(Replies)]
      /\ Consistent(c)
  BY DEF Mined, IInv, TypeOK, SetupInv
<1>2. reply \in Replies /\ reply = ReplyTo(mining)
  BY <1>1 DEF Replies, ReplyTo
<1>3. /\ session[c].reads = 0 /\ session[c].writes = << >>
      /\ session[c].on_request = TRUE /\ session[c].socket # "none"
  <2>1. /\ session[c].writes \in Seq(Replies) /\ session[c].reads \in Nat
        /\ session[c].on_request \in BOOLEAN
    BY <1>1 DEF SessionType
  <2>2. Len(session[c].writes) \in Nat
    BY <2>1, LenProperties
  <2>3. session[c].reads = 0 /\ Len(session[c].writes) = 0
    BY <1>1, <2>1, <2>2 DEF Consistent
  <2> QED
    BY <1>1, <2>1, <2>3, EmptySeq DEF Consistent
<1> HIDE DEF reply
<1>4. /\ s \in SessionType /\ s.socket = session[c].socket
      /\ s.on_request = TRUE /\ s.reads = 0
      /\ s.writes = <<reply>>
  BY <1>1, <1>2, <1>3, SendMessageType
<1>5. session' = [session EXCEPT ![c] = s]
  BY DEF Mined, reply
<1> HIDE DEF s
<1>6. /\ session'[c] = s /\ serving' = Nobody /\ asked' = asked
      /\ delivered' = delivered
  BY <1>1, <1>5 DEF Mined, history
<1>7. /\ s.socket = "open" => Unanswered(c) /\ mining = LastAsked(c)
      /\ Len(delivered[c]) <= Len(asked[c])
      /\ \A n \in 1 .. Len(delivered[c]) : delivered[c][n] = ReplyTo(asked[c][n])
  BY <1>1, <1>4 DEF Consistent
<1>8. \A d \in Conns : d = c => Consistent(d)'
  <2> SUFFICES ASSUME NEW d \in Conns, d = c PROVE Consistent(d)'
    OBVIOUS
  <2>1. /\ session'[d] = s /\ serving' # d /\ asked'[d] = asked[c]
        /\ delivered'[d] = delivered[c]
    BY <1>6, ServerAssumption
  <2>2. Len(s.writes) = 1 /\ Head(s.writes) = reply /\ s.writes # << >>
    BY <1>4
  <2>3. s.socket # "none" /\ s.on_request = TRUE /\ s.reads = 0
    BY <1>3, <1>4
  <2>4. s.socket = "open" => Unanswered(d)' /\ reply = ReplyTo(LastAsked(d)')
    BY <1>2, <1>7, <2>1 DEF Unanswered, LastAsked
  <2>5. /\ Len(delivered'[d]) <= Len(asked'[d])
        /\ \A n \in 1 .. Len(delivered'[d]) : delivered'[d][n] = ReplyTo(asked'[d][n])
    BY <1>7, <2>1
  <2> QED
    BY <2>1, <2>2, <2>3, <2>4, <2>5 DEF Consistent
<1>9. ASSUME NEW e \in Conns, e = c PROVE IInv'
  <2>1. /\ session' = [session EXCEPT ![e] = s] /\ serving \in {Nobody, e}
        /\ Consistent(e)'
    BY <1>5, <1>8, <1>9
  <2>2. /\ asked' = asked /\ delivered' = delivered /\ inbox' = inbox
        /\ peer' = peer /\ partial' = partial
        /\ phase' = phase /\ installed' = installed /\ accepting' = accepting
        /\ serving' = Nobody /\ mining' = "unknown"
    BY DEF Mined, setupVars, clientVars, history
  <2>3. /\ inbox \in [Conns -> Seq(Requests)] /\ accepting \in BOOLEAN
        /\ "unknown" \in Messages
    BY DEF IInv, TypeOK, Messages
  <2> QED
    BY <1>1, <1>4, <2>1, <2>2, <2>3, OneConnection
<1> QED
  BY <1>1, <1>9

LEMMA StutterInv ==
  ASSUME IInv, UNCHANGED vars
  PROVE  IInv'
<1>1. UNCHANGED <<serverVars, clientVars, history>>
  BY DEF vars
<1>2. TypeOK' /\ SetupInv'
  BY <1>1 DEF IInv, TypeOK, SetupInv, serverVars, clientVars, history
<1> QED
  BY <1>1, <1>2, ConnectionsKept DEF IInv, serverVars

(***************************************************************************)
(* IInv is an invariant of the web server: connections do not disturb one  *)
(* another, and each is consistent with what was asked and delivered.      *)
(***************************************************************************)
THEOREM AlwaysIInv == Spec => []IInv
<1>1. IInv /\ [Next]_vars => IInv'
  <2> SUFFICES ASSUME IInv, [Next]_vars PROVE IInv'
    OBVIOUS
  <2>1. CASE Setup
    BY <2>1, InitializeInv, StartListenerInv, SetNewSessionHandlerInv DEF Setup
  <2>2. CASE MinerStep
    BY <2>2, MinedInv, MinerAbortsInv DEF MinerStep
  <2>3. ASSUME NEW c \in Conns, AcceptStep(c) PROVE IInv'
    BY <2>3, OnAcceptInv, OnAcceptErrorInv DEF AcceptStep
  <2>4. ASSUME NEW c \in Conns, ReadStep(c) PROVE IInv'
    BY <2>4, OnReadInv, OnReadErrorInv DEF ReadStep
  <2>5. ASSUME NEW c \in Conns, WriteStep(c) PROVE IInv'
    BY <2>5, OnWriteInv, OnWriteErrorInv DEF WriteStep
  <2>6. ASSUME NEW c \in Conns, Expire(c) PROVE IInv'
    BY <2>6, ExpireInv
  <2>7. ASSUME NEW c \in Conns, ClientStep(c) PROVE IInv'
    BY <2>7, ClientStepInv
  <2>8. CASE UNCHANGED vars
    BY <2>8, StutterInv
  <2> QED
    BY <2>1, <2>2, <2>3, <2>4, <2>5, <2>6, <2>7, <2>8 DEF Next
<1> QED
  BY <1>1, InitInv, PTL DEF Spec

(***************************************************************************)
(* Every variable of the web server keeps its type.                        *)
(***************************************************************************)
THEOREM TypeCorrect == Spec => []TypeOK
<1>1. IInv => TypeOK
  BY DEF IInv
<1> QED
  BY <1>1, AlwaysIInv, PTL

(***************************************************************************)
(* No session ever has two operations pending, or one while it is mined.   *)
(***************************************************************************)
THEOREM AlwaysOneOperation == Spec => []OneOperation
<1>1. IInv => OneOperation
  BY DEF IInv, Consistent, OneOperation
<1> QED
  BY <1>1, AlwaysIInv, PTL

(***************************************************************************)
(* No session reads a request before it has its handler.                   *)
(***************************************************************************)
THEOREM AlwaysHandlerInstalled == Spec => []HandlerInstalled
<1>1. IInv => HandlerInstalled
  BY DEF IInv, Consistent, HandlerInstalled
<1> QED
  BY <1>1, AlwaysIInv, PTL

(***************************************************************************)
(* Replies are delivered in the order of the requests, one for each.       *)
(***************************************************************************)
THEOREM AlwaysInOrder == Spec => []RepliesInOrder
<1>1. IInv => RepliesInOrder
  BY DEF IInv, Consistent, RepliesInOrder
<1> QED
  BY <1>1, AlwaysIInv, PTL

-----------------------------------------------------------------------------
(***************************************************************************)
(* What ends the process.  Of the steps that do, setting up comes before   *)
(* any accept, and the miner's has a connection it serves; a failed read   *)
(* has no body to throw on.  What is left is a request read in full.       *)
(***************************************************************************)
LEMMA DispatchEnds ==
  ASSUME NEW c \in Conns, NEW s, NEW m, phase = "run",
         Dispatch(c, s, m), phase' = "terminated"
  PROVE  m = "rest_bad"
BY DEF Dispatch, Throws

LEMMA EndingStep ==
  ASSUME IInv, [Next]_vars, accepting, phase # phase', phase' = "terminated",
         serving = Nobody
  PROVE  \E c \in Conns : asked' = [asked EXCEPT ![c] = Append(@, "rest_bad")]
<1>1. ASSUME NEW c \in Conns, OnRead(c)
      PROVE  asked' = [asked EXCEPT ![c] = Append(@, "rest_bad")]
  <2>1. /\ phase = "run" /\ Dispatch(c, ReadDone(session[c]), Head(inbox[c]))
        /\ asked' = [asked EXCEPT ![c] = Append(@, Head(inbox[c]))]
    BY <1>1 DEF OnRead, Free
  <2>2. Head(inbox[c]) = "rest_bad"
    BY <2>1, DispatchEnds
  <2> QED
    BY <2>1, <2>2
<1>2. \A c \in Conns : ~ OnReadError(c)
  <2> SUFFICES ASSUME NEW c \in Conns, OnReadError(c) PROVE FALSE
    OBVIOUS
  <2>1. /\ phase = "run"
        /\ Dispatch(c, Stop(TimeOut(ReadDone(session[c]))), FailedMessage(c))
    BY DEF OnReadError, Free
  <2>2. FailedMessage(c) = "rest_bad"
    BY <2>1, DispatchEnds
  <2> QED
    BY <2>2 DEF FailedMessage
<1>3. ~ Setup /\ ~ MinerStep
  BY DEF Setup, Initialize, StartListener, SetNewSessionHandler, MinerStep, Mined,
         MinerAborts, IInv, SetupInv
<1>4. \A c \in Conns : ~ AcceptStep(c) /\ ~ WriteStep(c) /\ ~ Expire(c)
  BY DEF AcceptStep, OnAccept, OnAcceptError, WriteStep, OnWrite, OnWriteError,
         Expire, setupVars
<1>5. \A c \in Conns : ~ ClientStep(c)
  BY DEF ClientStep, Connect, BeginRequest, EndRequest, HalfClose, Vanish, serverVars
<1>6. phase' # phase /\ Next
  BY DEF vars, serverVars
<1>7. \E c \in Conns : OnRead(c) \/ OnReadError(c)
  BY <1>3, <1>4, <1>5, <1>6 DEF Next, ReadStep
<1> QED
  BY <1>1, <1>2, <1>7

(***************************************************************************)
(* Once connections are accepted, only the miner, and a complete POST to   *)
(* /mine whose body cannot be decoded, end the process; no disconnect,     *)
(* timeout, cut or ill-formed request does.                                *)
(***************************************************************************)
THEOREM MineAloneEnds == Spec => OnlyMineEnds
<1>1. IInv /\ [Next]_vars =>
        [accepting /\ phase # phase' /\ phase' = "terminated" /\ serving = Nobody =>
           \E c \in Conns :
             asked' = [asked EXCEPT ![c] = Append(@, "rest_bad")]]_vars
  BY EndingStep
<1> QED
  BY <1>1, AlwaysIInv, PTL DEF Spec, OnlyMineEnds

-----------------------------------------------------------------------------
(***************************************************************************)
(* Exchange, step by step.  Links is what the abstract link is mapped to.  *)
(***************************************************************************)
Links == [c \in Conns |-> Link(c)]

LEMMA LinksKept ==
  ASSUME session' = session
  PROVE  Links' = Links
BY DEF Links, Link

LEMMA LinkChange ==
  ASSUME IInv, NEW c \in Conns, NEW s, session' = [session EXCEPT ![c] = s]
  PROVE  /\ Links' = [Links EXCEPT ![c] = Link(c)']
         /\ Link(c)' = CASE s.socket = "none" -> "waiting"
                        [] s.socket = "open" -> "open"
                        [] OTHER -> "ended"
         /\ Links[c] = Link(c)
         /\ s.socket = session[c].socket => Links' = Links
<1>1. session'[c] = s /\ \A d \in Conns \ {c} : session'[d] = session[d]
  BY DEF IInv, TypeOK
<1>2. \A d \in Conns \ {c} : Link(d)' = Link(d)
  BY <1>1 DEF Link
<1>3. Link(c)' = CASE s.socket = "none" -> "waiting"
                   [] s.socket = "open" -> "open"
                   [] OTHER -> "ended"
  BY <1>1 DEF Link
<1>4. s.socket = session[c].socket => Link(c)' = Link(c)
  BY <1>1 DEF Link
<1> HIDE DEF Link
<1>5. Links' = [Links EXCEPT ![c] = Link(c)'] /\ Links[c] = Link(c)
  BY <1>2 DEF Links
<1>6. s.socket = session[c].socket => Links' = Links
  BY <1>2, <1>4 DEF Links
<1> QED
  BY <1>3, <1>5, <1>6

LEMMA OpenStep ==
  ASSUME IInv, NEW c \in Conns, OnAccept(c)
  PROVE  Promise!Open(c)
<1> DEFINE a == SetRequestHandler([session[c] EXCEPT !.socket = "open"])
<1>1. /\ phase = "run" /\ phase' = phase /\ installed
      /\ session[c] \in SessionType /\ session[c].socket = "none"
      /\ session' = [session EXCEPT ![c] = Start(a)]
      /\ asked' = asked /\ delivered' = delivered
  BY DEF OnAccept, Acceptable, Equip, Free, IInv, TypeOK, SetupInv, history
<1>2. a \in SessionType /\ a.socket = "open"
  BY <1>1, AcceptedType
<1> HIDE DEF a
<1>3. Start(a).socket = "open"
  BY <1>2, StartType
<1>4. Link(c) = "waiting"
  BY <1>1 DEF Link
<1>5. Links' = [Links EXCEPT ![c] = "open"] /\ Links[c] = "waiting"
  BY <1>1, <1>3, <1>4, LinkChange
<1> QED
  BY <1>1, <1>5 DEF Promise!Open, Links

LEMMA FailedAcceptStep ==
  ASSUME IInv, NEW c \in Conns, OnAcceptError(c)
  PROVE  Promise!End(c)
<1> DEFINE s == [session[c] EXCEPT !.socket = "closed"]
<1>1. /\ phase = "run" /\ phase' = phase
      /\ session[c] \in SessionType /\ session[c].socket = "none"
      /\ session' = [session EXCEPT ![c] = s]
      /\ asked' = asked /\ delivered' = delivered
  BY DEF OnAcceptError, Acceptable, Free, IInv, TypeOK, history
<1>2. s.socket = "closed"
  BY <1>1 DEF SessionType
<1> HIDE DEF s
<1>3. Link(c) = "waiting"
  BY <1>1 DEF Link
<1>4. Links' = [Links EXCEPT ![c] = "ended"] /\ Links[c] = "waiting"
  BY <1>1, <1>2, <1>3, LinkChange
<1> QED
  BY <1>1, <1>4 DEF Promise!End, Links

(***************************************************************************)
(* The three ends of a dispatch: the session goes on, it is released, or   *)
(* the process ends with the session as it was.                            *)
(***************************************************************************)
LEMMA DispatchOutcome ==
  ASSUME NEW c \in Conns, NEW s \in SessionType, NEW m \in Messages,
         s.reads = 0, s.writes = << >>, s.on_request = TRUE,
         Dispatch(c, s, m)
  PROVE  \E r : /\ session' = [session EXCEPT ![c] = r]
               /\ \/ phase' = phase /\ r.socket = s.socket
                  \/ phase' = phase /\ r.socket = "closed"
                  \/ phase' = "terminated" /\ r.socket = s.socket
<1>1. \A reply \in Replies : /\ SendMessage(s, reply).socket = s.socket
                             /\ Release(SendMessage(s, reply)) = SendMessage(s, reply)
  <2> TAKE reply \in Replies
  <2>1. /\ SendMessage(s, reply) \in SessionType
        /\ SendMessage(s, reply).socket = s.socket
        /\ SendMessage(s, reply).writes = Append(s.writes, reply)
    BY SendMessageType
  <2>2. Append(s.writes, reply) # << >>
    OBVIOUS
  <2> QED
    BY <2>1, <2>2, ReleaseType
<1>2. CASE m \notin Post /\ session' = [session EXCEPT ![c] = Release(HandleRequest(s, m))]
                         /\ phase' = phase
  <2>1. \E reply \in Replies : HandleRequest(s, m) = SendMessage(s, reply)
    BY DEF HandleRequest, Replies
  <2> QED
    BY <1>1, <1>2, <2>1
<1>3. CASE session' = [session EXCEPT ![c] = Release(s)] /\ phase' = phase
  BY <1>3, ReleaseType
<1>4. CASE session' = [session EXCEPT ![c] = SendMessage(s, "rpc_fault")] /\ phase' = phase
  <2>1. "rpc_fault" \in Replies
    BY DEF Replies
  <2> QED
    BY <1>1, <1>4, <2>1
<1>5. CASE session' = [session EXCEPT ![c] = s] /\ phase' \in {phase, "terminated"}
  BY <1>5
<1> QED
  BY <1>2, <1>3, <1>4, <1>5 DEF Dispatch, Become

LEMMA AskStep ==
  ASSUME IInv, NEW c \in Conns, OnRead(c)
  PROVE  \E m \in Requests : Promise!Ask(c, m)
<1> DEFINE s == ReadDone(session[c])
           m == Head(inbox[c])
<1>1. /\ phase = "run" /\ session[c].reads > 0 /\ inbox[c] # << >>
      /\ inbox[c] \in Seq(Requests)
      /\ Dispatch(c, s, m)
      /\ asked' = [asked EXCEPT ![c] = Append(asked[c], m)]
      /\ delivered' = delivered
  BY DEF OnRead, Free, IInv, TypeOK
<1>2. session[c].socket = "open" /\ Len(asked[c]) = Len(delivered[c])
  BY <1>1, Reading
<1>3. /\ s \in SessionType /\ s.reads = 0 /\ s.writes = << >>
      /\ s.on_request = TRUE /\ s.socket = "open"
  BY <1>1, Reading, ReadDoneType
<1>4. m \in Requests /\ m \in Messages
  BY <1>1, HeadTailProperties DEF Messages
<1> HIDE DEF s, m
<1>5. PICK r : /\ session' = [session EXCEPT ![c] = r]
               /\ \/ phase' = phase /\ r.socket = s.socket
                  \/ phase' = phase /\ r.socket = "closed"
                  \/ phase' = "terminated" /\ r.socket = s.socket
  BY <1>1, <1>3, <1>4, DispatchOutcome
<1>6. Link(c) = "open"
  BY <1>2 DEF Link
<1>7. /\ Links[c] = "open"
      /\ r.socket = "closed" => Links' = [Links EXCEPT ![c] = "ended"]
      /\ r.socket = "open" => Links' = Links
  BY <1>2, <1>5, <1>6, LinkChange
<1>8. Promise!Ask(c, m)
  BY <1>1, <1>2, <1>3, <1>5, <1>7 DEF Promise!Ask, Links
<1> QED
  BY <1>4, <1>8

LEMMA FailedReadStep ==
  ASSUME IInv, NEW c \in Conns, OnReadError(c)
  PROVE  Promise!End(c)
<1> DEFINE d == ReadDone(session[c])
           s == Stop(TimeOut(d))
<1>1. /\ phase = "run" /\ session[c].reads > 0 /\ TypeOK
      /\ asked' = asked /\ delivered' = delivered
  BY DEF OnReadError, Free, IInv, history
<1>2. Dispatch(c, s, "unknown")
  BY DEF OnReadError, FailedMessage
<1>3. "unknown" \in Messages /\ phase' # "terminated"
  BY <1>1, <1>2, DispatchEnds DEF Messages
<1>4. /\ d \in SessionType /\ d.reads = 0 /\ d.writes = << >>
      /\ d.on_request = TRUE /\ d.socket # "none"
      /\ session[c].socket = "open"
  BY <1>1, Reading, ReadDoneType
<1> HIDE DEF d
<1>5. /\ s \in SessionType /\ s.reads = 0 /\ s.writes = << >>
      /\ s.on_request = TRUE /\ s.socket # "none" /\ s.socket # "open"
  BY <1>4, StopType
<1> HIDE DEF s
<1>6. PICK r : /\ session' = [session EXCEPT ![c] = r]
               /\ phase' = phase
               /\ r.socket \in {s.socket, "closed"}
  BY <1>2, <1>3, <1>5, DispatchOutcome
<1>7. Link(c) = "open"
  BY <1>4 DEF Link
<1>8. r.socket # "none" /\ r.socket # "open"
  BY <1>5, <1>6
<1>9. Links[c] = "open" /\ Links' = [Links EXCEPT ![c] = "ended"]
  BY <1>6, <1>7, <1>8, LinkChange
<1> QED
  BY <1>1, <1>6, <1>9 DEF Promise!End, Links

LEMMA AnswerStep ==
  ASSUME IInv, NEW c \in Conns, OnWrite(c)
  PROVE  Promise!Answer(c)
<1> DEFINE w == WriteDone(session[c])
<1>1. /\ phase = "run" /\ phase' = phase
      /\ session[c].writes # << >> /\ session[c].socket = "open"
      /\ session' = [session EXCEPT ![c] = Start(w)]
      /\ delivered' = [delivered EXCEPT ![c] =
                         Append(delivered[c], Head(session[c].writes))]
      /\ asked' = asked /\ Consistent(c) /\ delivered[c] \in Seq(Replies)
  BY DEF OnWrite, Free, IInv, TypeOK, setupVars
<1>2. w \in SessionType /\ w.socket = "open"
  BY <1>1, Writing
<1> HIDE DEF w
<1>3. Start(w).socket = "open"
  BY <1>2, StartType
<1>4. Len(delivered[c]) \in Nat
  BY <1>1, LenProperties
<1>5. /\ Len(asked[c]) = Len(delivered[c]) + 1
      /\ Head(session[c].writes) = ReplyTo(asked[c][Len(delivered[c]) + 1])
  BY <1>1, <1>4 DEF Consistent, Unanswered, LastAsked
<1>6. Link(c) = "open"
  BY <1>1 DEF Link
<1>7. Links[c] = "open" /\ Links' = Links
  BY <1>1, <1>3, <1>6, LinkChange
<1>8. delivered' = [delivered EXCEPT ![c] =
        Append(delivered[c], ReplyTo(asked[c][Len(delivered[c]) + 1]))]
  BY <1>1, <1>5
<1>9. Len(delivered[c]) < Len(asked[c])
  BY <1>4, <1>5
<1>10. (phase # "terminated")' = (phase # "terminated") /\ phase # "terminated"
  BY <1>1
<1> QED
  BY <1>1, <1>7, <1>8, <1>9, <1>10 DEF Promise!Answer, Links

LEMMA FailedWriteStep ==
  ASSUME IInv, NEW c \in Conns, OnWriteError(c)
  PROVE  Promise!End(c) \/ UNCHANGED Promise!vars
<1> DEFINE w == WriteDone(session[c])
           t == Stop(TimeOut(w))
<1>1. /\ phase = "run" /\ phase' = phase /\ session[c].writes # << >>
      /\ session' = [session EXCEPT ![c] = Release(t)]
      /\ asked' = asked /\ delivered' = delivered
  BY DEF OnWriteError, Free, setupVars, history
<1>2. w \in SessionType /\ w.reads = 0 /\ w.writes = << >>
  BY <1>1, Writing
<1> HIDE DEF w
<1>3. t \in SessionType /\ t.reads = 0 /\ t.writes = << >>
  BY <1>2, StopType
<1> HIDE DEF t
<1>4. Release(t).socket = "closed"
  BY <1>3, ReleaseType
<1>5. /\ Links' = [Links EXCEPT ![c] = "ended"] /\ Links[c] = Link(c)
  BY <1>1, <1>4, LinkChange
<1>6. CASE Link(c) # "ended"
  BY <1>1, <1>5, <1>6 DEF Promise!End, Links
<1>7. CASE Link(c) = "ended"
  <2>1. Links' = Links
    BY <1>5, <1>7 DEF Links
  <2> QED
    BY <1>1, <2>1 DEF Promise!vars, Links
<1> QED
  BY <1>6, <1>7

LEMMA MinedStep ==
  ASSUME IInv, Mined
  PROVE  UNCHANGED Promise!vars
<1> DEFINE reply == IF mining = "rpc" THEN "rpc_result" ELSE "rest_result"
           s == SendMessage(session[serving], reply)
<1>1. /\ serving \in Conns /\ session[serving] \in SessionType
      /\ session' = [session EXCEPT ![serving] = s]
      /\ phase' = phase /\ asked' = asked /\ delivered' = delivered
  BY DEF Mined, IInv, TypeOK, setupVars, history
<1>2. s.socket = session[serving].socket
  <2>1. reply \in Replies
    BY DEF Replies
  <2> QED
    BY <1>1, <2>1, SendMessageType
<1> HIDE DEF s
<1>3. Links' = Links
  BY <1>1, <1>2, LinkChange
<1> QED
  BY <1>1, <1>3 DEF Promise!vars, Links

LEMMA ExpireStep ==
  ASSUME IInv, NEW c \in Conns, Expire(c)
  PROVE  UNCHANGED Promise!vars
<1> DEFINE s == [session[c] EXCEPT !.expired = TRUE]
<1>1. /\ session[c] \in SessionType /\ session' = [session EXCEPT ![c] = s]
      /\ phase' = phase /\ asked' = asked /\ delivered' = delivered
  BY DEF Expire, IInv, TypeOK, setupVars, history
<1>2. s.socket = session[c].socket
  BY <1>1 DEF SessionType
<1> HIDE DEF s
<1>3. Links' = Links
  BY <1>1, <1>2, LinkChange
<1> QED
  BY <1>1, <1>3 DEF Promise!vars, Links

(***************************************************************************)
(* The web server keeps its promise to the clients: it implements          *)
(* Exchange.  OnAccept is Open, OnRead is Ask, OnWrite is Answer; a failed *)
(* accept, read or write is End; what ends the process is Terminate.       *)
(***************************************************************************)
THEOREM ImplementsExchange == Spec => KeepsPromise
<1>1. Init => Promise!Init
  <2> SUFFICES ASSUME Init PROVE Promise!Init
    OBVIOUS
  <2>1. \A c \in Conns : Link(c) = "waiting"
    BY DEF Init, Link, NewSession
  <2>2. Links = [c \in Conns |-> "waiting"]
    BY <2>1 DEF Links
  <2> QED
    BY <2>2 DEF Init, Promise!Init, Links
<1>2. IInv /\ [Next]_vars => [Promise!Next]_(Promise!vars)
  <2> SUFFICES ASSUME IInv, [Next]_vars
               PROVE  Promise!Next \/ UNCHANGED Promise!vars
    OBVIOUS
  <2>1. CASE Setup
    <3>1. /\ session' = session /\ asked' = asked /\ delivered' = delivered
          /\ phase # "terminated"
      BY <2>1 DEF Setup, Initialize, StartListener, SetNewSessionHandler, history
    <3>2. Links' = Links
      BY <3>1, LinksKept
    <3>3. CASE phase' = "terminated"
      <4>1. Promise!Terminate
        BY <3>1, <3>2, <3>3 DEF Promise!Terminate, Links
      <4> QED
        BY <4>1 DEF Promise!Next
    <3>4. CASE phase' # "terminated"
      BY <3>1, <3>2, <3>4 DEF Promise!vars, Links
    <3> QED
      BY <3>3, <3>4
  <2>2. CASE Mined
    BY <2>2, MinedStep
  <2>3. CASE MinerAborts
    <3>1. /\ session' = session /\ asked' = asked /\ delivered' = delivered
          /\ phase # "terminated" /\ phase' = "terminated"
      BY <2>3 DEF MinerAborts, history
    <3>2. Links' = Links
      BY <3>1, LinksKept
    <3>3. Promise!Terminate
      BY <3>1, <3>2 DEF Promise!Terminate, Links
    <3> QED
      BY <3>3 DEF Promise!Next
  <2>4. ASSUME NEW c \in Conns, AcceptStep(c) PROVE Promise!Next
    BY <2>4, OpenStep, FailedAcceptStep DEF AcceptStep, Promise!Next
  <2>5. ASSUME NEW c \in Conns, ReadStep(c) PROVE Promise!Next
    BY <2>5, AskStep, FailedReadStep DEF ReadStep, Promise!Next
  <2>6. ASSUME NEW c \in Conns, WriteStep(c)
        PROVE  Promise!Next \/ UNCHANGED Promise!vars
    BY <2>6, AnswerStep, FailedWriteStep DEF WriteStep, Promise!Next
  <2>7. ASSUME NEW c \in Conns, Expire(c) PROVE UNCHANGED Promise!vars
    BY <2>7, ExpireStep
  <2>8. CASE (\E c \in Conns : ClientStep(c)) \/ UNCHANGED vars
    <3>1. UNCHANGED <<serverVars, history>>
      BY <2>8 DEF ClientStep, Connect, BeginRequest, EndRequest, HalfClose, Vanish,
                  vars
    <3>2. phase' = phase /\ session' = session /\ asked' = asked /\ delivered' = delivered
      BY <3>1 DEF serverVars, history
    <3>3. Links' = Links
      BY <3>2, LinksKept
    <3> QED
      BY <3>2, <3>3 DEF Promise!vars, Links
  <2> QED
    BY <2>1, <2>2, <2>3, <2>4, <2>5, <2>6, <2>7, <2>8 DEF Next, MinerStep
<1> QED
  BY <1>1, <1>2, AlwaysIInv, PTL DEF Spec, KeepsPromise, Promise!Spec
=============================================================================
