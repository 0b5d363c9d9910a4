----------------------------- MODULE HttpServer -----------------------------
(***************************************************************************)
(* The web server: Server::start, the Listener's accept loop and the       *)
(* sessions, on an io_context run by one thread.  Handlers run to          *)
(* completion one at a time; a request that mines keeps the thread until   *)
(* the miner returns, while clients and deadlines go on.                   *)
(***************************************************************************)
EXTENDS Session, FiniteSets

CONSTANTS
  Conns,        \* client connections
  Sendable,     \* requests that clients send, a subset of Requests
  MaxRequests,  \* requests a client sends on one connection
  MaxSockets,   \* descriptors the process has for connections
  Nobody

ASSUME ServerAssumption ==
  /\ Sendable \subseteq Requests
  /\ MaxRequests \in Nat /\ MaxSockets \in Nat \ {0}
  /\ Nobody \notin Conns

VARIABLES
  phase,      \* Server::start: "initialize", "start", "install", "run", or
              \* "terminated" when an exception or a signal ends the process
  installed,  \* the listener has its on_new_session_
  accepting,  \* an async_accept is pending
  session,    \* the sessions
  serving,    \* the connection whose request is being mined, or Nobody
  mining,     \* that request
  peer,       \* each client: "absent", "open", "half" closed, or "reset"
  inbox,      \* requests that have arrived in full and are not read yet
  partial,    \* the request a client has begun to send, or "none"
  asked,      \* requests a session has read in full, oldest first
  delivered   \* replies that were written to a client, oldest first

serverVars == <<phase, installed, accepting, session, serving, mining>>
setupVars == <<phase, installed, accepting>>
clientVars == <<peer, inbox, partial>>
history == <<asked, delivered>>
vars == <<serverVars, clientVars, history>>

(* Mutant: the io_context runs before the listener has its handler. *)
Free_Early == phase \in {"install", "run"} /\ serving = Nobody

(* ioc->run calls a handler when its only thread is not mining. *)
Free == phase = "run" /\ serving = Nobody

Init ==
  /\ phase = "initialize"
  /\ installed = FALSE
  /\ accepting = FALSE
  /\ session = [c \in Conns |-> NewSession]
  /\ serving = Nobody
  /\ mining = "unknown"
  /\ peer = [c \in Conns |-> "absent"]
  /\ inbox = [c \in Conns |-> << >>]
  /\ partial = [c \in Conns |-> "none"]
  /\ asked = [c \in Conns |-> << >>]
  /\ delivered = [c \in Conns |-> << >>]

(***************************************************************************)
(* Server::start: Listener::initialize (which throws when the port cannot  *)
(* be bound), Listener::start, set_new_session_handler, ioc->run.          *)
(***************************************************************************)
Initialize ==
  /\ phase = "initialize"
  /\ phase' \in {"start", "terminated"}
  /\ UNCHANGED <<installed, accepting, session, serving, mining, clientVars,
                 history>>

(* Mutant: a failed accept is the last one. *)
AcceptOne_GivesUp(ok) == accepting' = ok

(* accept_one begins another async_accept, whether the last succeeded or not. *)
AcceptOne(ok) == accepting' = TRUE

StartListener ==
  /\ phase = "start"
  /\ AcceptOne(TRUE)
  /\ phase' = "install"
  /\ UNCHANGED <<installed, session, serving, mining, clientVars, history>>

SetNewSessionHandler ==
  /\ phase = "install"
  /\ installed' = TRUE
  /\ phase' = "run"
  /\ UNCHANGED <<accepting, session, serving, mining, clientVars, history>>

(***************************************************************************)
(* on_accept: the new session gets its handler and is started, and the     *)
(* next accept is begun; a connection that is gone only does the latter.   *)
(* Without a descriptor to spare the accept fails, is begun again and      *)
(* fails again, and the connection stays where it is: no step here.        *)
(***************************************************************************)
Sockets == {c \in Conns : session[c].socket \in {"open", "shut"}}

Acceptable(c) ==
  /\ Free /\ accepting
  /\ peer[c] # "absent" /\ session[c].socket = "none"
  /\ Cardinality(Sockets) < MaxSockets

Equip(s) == IF installed THEN SetRequestHandler(s) ELSE s

OnAccept(c) ==
  /\ Acceptable(c)
  /\ session' = [session EXCEPT ![c] =
                   Start(Equip([@ EXCEPT !.socket = "open"]))]
  /\ AcceptOne(TRUE)
  /\ UNCHANGED <<phase, installed, serving, mining, clientVars, history>>

OnAcceptError(c) ==
  /\ Acceptable(c) /\ peer[c] = "reset"
  /\ session' = [session EXCEPT ![c].socket = "closed"]
  /\ AcceptOne(FALSE)
  /\ UNCHANGED <<phase, installed, serving, mining, clientVars, history>>

(* The bodies read_json or a get of the REST server throws on. *)
Throws == {"rest_bad"}

Become(c, s) == session' = [session EXCEPT ![c] = s]

(***************************************************************************)
(* What is done with the request m of connection c, whose session is s. A  *)
(* POST goes to the RPC or the REST server.  Neither answers an empty      *)
(* body.  The RPC server turns a bad one into a fault, the REST server     *)
(* lets the parser's exception escape from ioc->run.  A good one is mined  *)
(* on this very thread.                                                    *)
(***************************************************************************)
Dispatch(c, s, m) ==
  \/ /\ m \notin Post \/ ~ s.on_request
     /\ Become(c, Release(HandleRequest(s, m)))
     /\ UNCHANGED <<phase, serving, mining>>
  \/ /\ m = "empty" /\ s.on_request
     /\ Become(c, Release(s))
     /\ UNCHANGED <<phase, serving, mining>>
  \/ /\ m = "rpc_bad" /\ s.on_request
     /\ Become(c, SendMessage(s, "rpc_fault"))
     /\ UNCHANGED <<phase, serving, mining>>
  \/ /\ m \in Throws /\ s.on_request
     /\ phase' = "terminated"
     /\ Become(c, s)
     /\ UNCHANGED <<serving, mining>>
  \/ /\ m \in {"rpc", "rest"} /\ s.on_request
     /\ Become(c, s)
     /\ serving' = c
     /\ mining' = m
     /\ UNCHANGED phase

ReadDone(s) == [s EXCEPT !.reads = @ - 1]

OnRead(c) ==
  /\ Free
  /\ session[c].reads > 0 /\ session[c].socket = "open"
  /\ inbox[c] # << >>
  /\ inbox' = [inbox EXCEPT ![c] = Tail(@)]
  /\ asked' = [asked EXCEPT ![c] = Append(@, Head(inbox[c]))]
  /\ Dispatch(c, ReadDone(session[c]), Head(inbox[c]))
  /\ UNCHANGED <<installed, accepting, peer, partial, delivered>>

(* Mutant: nothing ends a read the client does not finish. *)
ReadFails_NoDeadline(c) ==
  inbox[c] = << >> /\ (peer[c] \in {"half", "reset"} \/ partial[c] = "malformed")

(* The deadline has passed, the client is gone, the request is malformed. *)
ReadFails(c) ==
  \/ session[c].expired
  \/ inbox[c] = << >> /\ (peer[c] \in {"half", "reset"} \/ partial[c] = "malformed")

(* Mutant: the read is given parser_ itself, which keeps what has arrived  *)
(* of a request that is cut: here a POST to /mine with part of its body.   *)
FailedMessage_Parsed(c) ==
  IF partial[c] \in {"rest", "rest_bad"} THEN "rest_bad" ELSE "unknown"

(* start gives async_read the message of parser_, which is assigned when a *)
(* read succeeds.  After one that fails it is as it was constructed,       *)
(* whatever the client has sent.                                           *)
FailedMessage(c) == "unknown"

(***************************************************************************)
(* async_read fails: the handler stops the session and then handles the    *)
(* message of parser_ all the same.                                        *)
(***************************************************************************)
OnReadError(c) ==
  /\ Free
  /\ session[c].reads > 0
  /\ ReadFails(c)
  /\ Dispatch(c, Stop(TimeOut(ReadDone(session[c]))), FailedMessage(c))
  /\ UNCHANGED <<installed, accepting, clientVars, history>>

(* The miner returns, and the result is sent. *)
Mined ==
  /\ phase = "run" /\ serving # Nobody
  /\ session' = [session EXCEPT ![serving] =
       SendMessage(@, IF mining = "rpc" THEN "rpc_result" ELSE "rest_result")]
  /\ serving' = Nobody
  /\ mining' = "unknown"
  /\ UNCHANGED <<setupVars, clientVars, history>>

(* It ends the process: a rarity of zero, a failure of the device. *)
MinerAborts ==
  /\ phase = "run" /\ serving # Nobody
  /\ phase' = "terminated"
  /\ UNCHANGED <<installed, accepting, session, serving, mining, clientVars,
                 history>>

(***************************************************************************)
(* async_write completes; the next read begins.  No reply asks for the end *)
(* of the connection: each has a length and keep-alive.                    *)
(***************************************************************************)
WriteDone(s) == [s EXCEPT !.writes = Tail(@)]

OnWrite(c) ==
  /\ Free
  /\ session[c].writes # << >> /\ session[c].socket = "open"
  /\ peer[c] # "reset"
  /\ delivered' = [delivered EXCEPT ![c] = Append(@, Head(session[c].writes))]
  /\ session' = [session EXCEPT ![c] = Start(WriteDone(@))]
  /\ UNCHANGED <<setupVars, serving, mining, clientVars, asked>>

OnWriteError(c) ==
  /\ Free
  /\ session[c].writes # << >>
  /\ session[c].socket # "open" \/ session[c].expired \/ peer[c] = "reset"
  /\ session' = [session EXCEPT ![c] = Release(Stop(TimeOut(WriteDone(@))))]
  /\ UNCHANGED <<setupVars, serving, mining, clientVars, history>>

(* The deadline set by the last start passes, mining or not. *)
Expire(c) ==
  /\ phase = "run"
  /\ session[c].socket = "open" /\ ~ session[c].expired
  /\ session' = [session EXCEPT ![c].expired = TRUE]
  /\ UNCHANGED <<setupVars, serving, mining, clientVars, history>>
-----------------------------------------------------------------------------
(***************************************************************************)
(* The clients: connect once the port is bound, send requests in two       *)
(* parts, close their side, or vanish.                                     *)
(***************************************************************************)
Connect(c) ==
  /\ phase \in {"start", "install", "run"}
  /\ peer[c] = "absent"
  /\ peer' = [peer EXCEPT ![c] = "open"]
  /\ UNCHANGED <<serverVars, inbox, partial, history>>

BeginRequest(c) ==
  /\ peer[c] = "open" /\ partial[c] = "none"
  /\ Len(asked[c]) + Len(inbox[c]) < MaxRequests
  /\ \E m \in Sendable : partial' = [partial EXCEPT ![c] = m]
  /\ UNCHANGED <<serverVars, peer, inbox, history>>

EndRequest(c) ==
  /\ peer[c] = "open" /\ partial[c] \notin {"none", "malformed"}
  /\ inbox' = [inbox EXCEPT ![c] = Append(@, partial[c])]
  /\ partial' = [partial EXCEPT ![c] = "none"]
  /\ UNCHANGED <<serverVars, peer, history>>

HalfClose(c) ==
  /\ peer[c] = "open"
  /\ peer' = [peer EXCEPT ![c] = "half"]
  /\ UNCHANGED <<serverVars, inbox, partial, history>>

Vanish(c) ==
  /\ peer[c] \in {"open", "half"}
  /\ peer' = [peer EXCEPT ![c] = "reset"]
  /\ inbox' = [inbox EXCEPT ![c] = << >>]
  /\ UNCHANGED <<serverVars, partial, history>>

Setup == Initialize \/ StartListener \/ SetNewSessionHandler

AcceptStep(c) == OnAccept(c) \/ OnAcceptError(c)

ReadStep(c) == OnRead(c) \/ OnReadError(c)

WriteStep(c) == OnWrite(c) \/ OnWriteError(c)

MinerStep == Mined \/ MinerAborts

ClientStep(c) ==
  Connect(c) \/ BeginRequest(c) \/ EndRequest(c) \/ HalfClose(c) \/ Vanish(c)

Next ==
  \/ Setup
  \/ MinerStep
  \/ \E c \in Conns :
       \/ AcceptStep(c)
       \/ ReadStep(c)
       \/ WriteStep(c)
       \/ Expire(c)
       \/ ClientStep(c)

Spec == Init /\ [][Next]_vars

(***************************************************************************)
(* The io_context calls every handler that is ready, a mine call comes to  *)
(* an end, and deadlines pass.  Clients owe nothing.                       *)
(***************************************************************************)
Fairness ==
  /\ WF_vars(Setup)
  /\ WF_vars(MinerStep)
  /\ \A c \in Conns :
       /\ WF_vars(AcceptStep(c))
       /\ WF_vars(ReadStep(c))
       /\ WF_vars(WriteStep(c))
       /\ WF_vars(Expire(c))

FairSpec == Spec /\ Fairness
-----------------------------------------------------------------------------
TypeOK ==
  /\ phase \in {"initialize", "start", "install", "run", "terminated"}
  /\ installed \in BOOLEAN
  /\ accepting \in BOOLEAN
  /\ session \in [Conns -> SessionType]
  /\ serving \in Conns \cup {Nobody}
  /\ mining \in Messages
  /\ peer \in [Conns -> {"absent", "open", "half", "reset"}]
  /\ inbox \in [Conns -> Seq(Requests)]
  /\ partial \in [Conns -> Requests \cup {"none"}]
  /\ asked \in [Conns -> Seq(Requests)]
  /\ delivered \in [Conns -> Seq(Replies)]

ReplyTo(m) ==
  CASE m = "options" -> "cors"
    [] m = "rpc"     -> "rpc_result"
    [] m = "rpc_bad" -> "rpc_fault"
    [] m = "rest"    -> "rest_result"
    [] OTHER         -> "not_found"

Link(c) ==
  CASE session[c].socket = "none" -> "waiting"
    [] session[c].socket = "open" -> "open"
    [] OTHER                      -> "ended"

Promise == INSTANCE Exchange WITH
  up <- phase # "terminated", link <- [c \in Conns |-> Link(c)],
  answered <- delivered

(***************************************************************************)
(* The server keeps the promise of Exchange: what a client receives are    *)
(* the replies to its own requests, in order and one for each, and no      *)
(* request is taken up before the last one is answered.  The reply that    *)
(* the handler of a failed read makes up is never delivered.               *)
(***************************************************************************)
KeepsPromise == Promise!Spec

(***************************************************************************)
(* What a client receives are the replies to the requests it has sent in   *)
(* full, in that order and one for each: the reply the handler of a failed *)
(* read makes up is never delivered, nor is a reply delivered twice.       *)
(***************************************************************************)
RepliesInOrder ==
  \A c \in Conns :
    /\ Len(delivered[c]) <= Len(asked[c])
    /\ \A n \in 1 .. Len(delivered[c]) : delivered[c][n] = ReplyTo(asked[c][n])

(***************************************************************************)
(* A session never has two operations pending on its stream, and none      *)
(* while its request is being mined.                                       *)
(***************************************************************************)
OneOperation ==
  \A c \in Conns :
    session[c].reads + Len(session[c].writes) + (IF serving = c THEN 1 ELSE 0)
      <= 1

(***************************************************************************)
(* Every session that has been accepted has its request handler, although  *)
(* the listener is started before it is given the means to set it.         *)
(***************************************************************************)
HandlerInstalled ==
  \A c \in Conns : session[c].reads > 0 => session[c].on_request

(***************************************************************************)
(* What keeps every connection in order, as an inductive invariant.  Until *)
(* the io_context runs there are no sessions.  A session with something    *)
(* pending has its handler, and one thing pending; a read is pending on an *)
(* open socket only.  As long as the socket is open, a read is pending     *)
(* when every request has been answered, and a write, or a call of the     *)
(* miner, when the last request is the only one without its reply, and is  *)
(* the one that is written or mined.                                       *)
(***************************************************************************)
SetupInv ==
  /\ phase \in {"initialize", "start"} => ~ accepting
  /\ phase = "run" => installed
  /\ phase \in {"initialize", "start", "install"} =>
       serving = Nobody /\ \A c \in Conns : session[c] = NewSession
  /\ serving # Nobody => mining \in {"rpc", "rest"}

Unanswered(c) == Len(asked[c]) = Len(delivered[c]) + 1

LastAsked(c) == asked[c][Len(asked[c])]

Consistent(c) ==
  /\ session[c].socket = "none" =>
       session[c] = NewSession /\ serving # c /\ Len(asked[c]) = Len(delivered[c])
  /\ session[c].reads > 0 \/ session[c].writes # << >> \/ serving = c =>
       session[c].on_request
  /\ session[c].reads + Len(session[c].writes) + (IF serving = c THEN 1 ELSE 0)
       <= 1
  /\ session[c].reads > 0 => session[c].socket = "open"
  /\ session[c].socket = "open" =>
       /\ session[c].reads > 0 => Len(asked[c]) = Len(delivered[c])
       /\ session[c].writes # << >> =>
            Unanswered(c) /\ Head(session[c].writes) = ReplyTo(LastAsked(c))
       /\ serving = c => Unanswered(c) /\ mining = LastAsked(c)
  /\ Len(delivered[c]) <= Len(asked[c])
  /\ \A n \in 1 .. Len(delivered[c]) : delivered[c][n] = ReplyTo(asked[c][n])

IInv == TypeOK /\ SetupInv /\ \A c \in Conns : Consistent(c)

(***************************************************************************)
(* Once connections are accepted, the process ends in the miner or in one  *)
(* other way: a POST to /mine has been read to its end and its body cannot *)
(* be decoded.  A client that leaves, stalls, is cut off in the middle of  *)
(* any request or sends what is no HTTP never ends it, although the        *)
(* handler of the failed read goes on to handle a message.                 *)
(***************************************************************************)
OnlyMineEnds ==
  [][accepting /\ phase # phase' /\ phase' = "terminated" /\ serving = Nobody =>
       \E c \in Conns : asked' = [asked EXCEPT ![c] = Append(@, "rest_bad")]]_vars

(***************************************************************************)
(* Every connection is taken up, unless the process ends, although there   *)
(* may be fewer descriptors than connections.                              *)
(***************************************************************************)
Accepted ==
  \A c \in Conns :
    peer[c] # "absent" ~> session[c].socket # "none" \/ phase = "terminated"

(* No read is pending forever, whatever the client does. *)
ReadsEnd ==
  \A c \in Conns : session[c].reads > 0 ~>
    session[c].reads = 0 \/ phase = "terminated"

(***************************************************************************)
(* Every request read in full is answered, unless the connection is closed *)
(* or the process ends.                                                    *)
(***************************************************************************)
RequestAnswered ==
  \A c \in Conns : Len(asked[c]) > Len(delivered[c]) ~>
    \/ Len(asked[c]) = Len(delivered[c])
    \/ session[c].socket = "closed"
    \/ phase = "terminated"
=============================================================================
