------------------------------ MODULE Session ------------------------------
(***************************************************************************)
(* application::Session (blue-space/lib/session.cpp): one HTTP connection, *)
(* as the operations its handlers are made of.  A session is kept alive by *)
(* the callbacks of its pending operations alone.                          *)
(***************************************************************************)
EXTENDS Integers, Sequences

(***************************************************************************)
(* Requests, by what decides how they are handled: the method, the path,   *)
(* whether there is a body and whether it is well formed.  "malformed" is  *)
(* no HTTP request, or one above the parser's limits; "unknown" is a       *)
(* default-constructed message, whose method is verb::unknown.             *)
(***************************************************************************)
Requests ==
  {"options", "get", "empty", "rpc", "rpc_bad", "rest", "rest_bad", "malformed"}

Post == {"empty", "rpc", "rpc_bad", "rest", "rest_bad"}

Replies == {"cors", "not_found", "rpc_result", "rpc_fault", "rest_result"}

Messages == Requests \cup {"unknown"}

(***************************************************************************)
(* socket: "none" before the accept, "open", "shut" by stop, or "closed"   *)
(* by the timeout of the stream or the destructor of the session.          *)
(* on_request: whether on_request_ is set.  reads, writes: the pending     *)
(* async_reads, and the messages of the pending async_writes.  expired:    *)
(* whether the 30 seconds given by expires_after are over.                 *)
(***************************************************************************)
SessionType ==
  [socket : {"none", "open", "shut", "closed"}, on_request : BOOLEAN,
   reads : Nat, writes : Seq(Replies), expired : BOOLEAN]

NewSession ==
  [socket |-> "none", on_request |-> FALSE, reads |-> 0, writes |-> << >>,
   expired |-> FALSE]

SetRequestHandler(s) == [s EXCEPT !.on_request = TRUE]

Start(s) == [s EXCEPT !.reads = @ + 1, !.expired = FALSE]

(* Mutant: the socket is not shut down. *)
Stop_KeepsSocket(s) == s

Stop(s) == [s EXCEPT !.socket = IF @ = "open" THEN "shut" ELSE @]

(* Mutants: the next read begins before the write has completed; the       *)
(* message is not sent at all.                                             *)
SendMessage_ReadsOn(s, m) == Start([s EXCEPT !.writes = Append(@, m)])

SendMessage_Drops(s, m) == s

SendMessage(s, m) == [s EXCEPT !.writes = Append(@, m)]

(* A stream whose deadline passes during an operation closes its socket. *)
TimeOut(s) == IF s.expired THEN [s EXCEPT !.socket = "closed"] ELSE s

(* The end of a handler: with nothing pending, the last pointer is gone. *)
Release(s) ==
  IF s.reads = 0 /\ s.writes = << >> THEN [s EXCEPT !.socket = "closed"] ELSE s

(* Mutant: the message is sent back. *)
HandleRequest_Echo(s, m) == IF ~ s.on_request THEN s ELSE SendMessage(s, m)

(* handle_request for everything but a POST, which goes to on_request_. *)
HandleRequest(s, m) ==
  IF ~ s.on_request THEN s
  ELSE SendMessage(s, IF m = "options" THEN "cors" ELSE "not_found")
=============================================================================
