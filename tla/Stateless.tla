----------------------------- MODULE Stateless -----------------------------
(***************************************************************************)
(* What "stateless" means for the mining service: a request is taken up,   *)
(* and then the process ends or the request gets an answer that depends on *)
(* nothing but the request itself.                                         *)
(***************************************************************************)
CONSTANTS
  Requests,
  Answers(_),   \* the answers a request may get
  NoRequest, NoReply

VARIABLES
  up,           \* the process runs
  busy,         \* the request has not been dealt with yet
  request,      \* the request taken up last
  reply         \* its answer, or NoReply

vars == <<up, busy, request, reply>>

Init ==
  /\ up = TRUE
  /\ busy = FALSE
  /\ request = NoRequest
  /\ reply = NoReply

Take(r) ==
  /\ up /\ ~ busy
  /\ request' = r
  /\ \/ busy' = TRUE /\ up' = TRUE /\ reply' = NoReply
     \/ busy' = FALSE /\ up' = TRUE /\ reply' \in Answers(r)
     \/ busy' = FALSE /\ up' = FALSE /\ reply' = NoReply

Answer ==
  /\ up /\ busy
  /\ busy' = FALSE
  /\ reply' \in Answers(request)
  /\ UNCHANGED <<up, request>>

Terminate ==
  /\ up /\ busy
  /\ up' = FALSE
  /\ busy' = FALSE
  /\ UNCHANGED <<request, reply>>

Next ==
  \/ \E r \in Requests : Take(r)
  \/ Answer
  \/ Terminate

Spec == Init /\ [][Next]_vars
=============================================================================
