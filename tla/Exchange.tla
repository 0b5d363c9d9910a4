------------------------------ MODULE Exchange ------------------------------
(***************************************************************************)
(* What the web server promises a client, whatever goes on inside: on each *)
(* connection one request at a time is taken up, it gets one reply, the    *)
(* one that belongs to it, and after the connection or the process has     *)
(* ended nothing more happens.                                             *)
(***************************************************************************)
EXTENDS Integers, Sequences

CONSTANTS
  Conns,
  Requests,
  ReplyTo(_)   \* the reply a request gets if it gets one

VARIABLES
  up,          \* the process runs
  link,        \* each connection: "waiting", "open" or "ended"
  asked,       \* requests taken up, oldest first
  answered     \* replies delivered, oldest first

vars == <<up, link, asked, answered>>

Init ==
  /\ up = TRUE
  /\ link = [c \in Conns |-> "waiting"]
  /\ asked = [c \in Conns |-> << >>]
  /\ answered = [c \in Conns |-> << >>]

Open(c) ==
  /\ up
  /\ link[c] = "waiting"
  /\ link' = [link EXCEPT ![c] = "open"]
  /\ UNCHANGED <<up, asked, answered>>

(* Taking a request up may be the last thing the connection does. *)
Ask(c, m) ==
  /\ up
  /\ link[c] = "open"
  /\ Len(asked[c]) = Len(answered[c])
  /\ asked' = [asked EXCEPT ![c] = Append(@, m)]
  /\ \/ UNCHANGED <<up, link>>
     \/ link' = [link EXCEPT ![c] = "ended"] /\ UNCHANGED up
     \/ up' = FALSE /\ UNCHANGED link
  /\ UNCHANGED answered

Answer(c) ==
  /\ up
  /\ link[c] = "open"
  /\ Len(answered[c]) < Len(asked[c])
  /\ answered' = [answered EXCEPT ![c] =
                    Append(@, ReplyTo(asked[c][Len(@) + 1]))]
  /\ UNCHANGED <<up, link, asked>>

End(c) ==
  /\ up
  /\ link[c] # "ended"
  /\ link' = [link EXCEPT ![c] = "ended"]
  /\ UNCHANGED <<up, asked, answered>>

Terminate ==
  /\ up
  /\ up' = FALSE
  /\ UNCHANGED <<link, asked, answered>>

Next ==
  \/ \E c \in Conns :
       \/ Open(c)
       \/ \E m \in Requests : Ask(c, m)
       \/ Answer(c)
       \/ End(c)
  \/ Terminate

Spec == Init /\ [][Next]_vars
=============================================================================
