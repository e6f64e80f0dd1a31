---------------------------- MODULE ExchangeAbs ----------------------------
(***************************************************************************)
(* What a connection promises its two ends: the server gets the client's   *)
(* request as it was sent, then the client gets the server's response as   *)
(* it was sent, each once; or a call of an end fails and it gets nothing.  *)
(***************************************************************************)
CONSTANTS Messages, Ends, Client, Server, Nothing

VARIABLES
  out,   \* the message each end sends
  got,   \* the message each end has received
  state  \* "open", "done" or "failed", for each end
vars == <<out, got, state>>

Init ==
  /\ out \in [Ends -> Messages]
  /\ got = [e \in Ends |-> Nothing] /\ state = [e \in Ends |-> "open"]

Get(e, from) ==
  /\ state[e] = "open" /\ got[e] = Nothing
  /\ got' = [got EXCEPT ![e] = out[from]]

ServerGets == Get(Server, Client) /\ UNCHANGED <<out, state>>

\* The client is done once it has its response, which answers its request.
ClientGets ==
  /\ got[Server] # Nothing
  /\ Get(Client, Server)
  /\ state' = [state EXCEPT ![Client] = "done"]
  /\ UNCHANGED out

\* The server is done once all of its response is on its way.
ServerDone ==
  /\ state[Server] = "open" /\ got[Server] # Nothing
  /\ state' = [state EXCEPT ![Server] = "done"]
  /\ UNCHANGED <<out, got>>

Fail(e) ==
  /\ state[e] = "open"
  /\ state' = [state EXCEPT ![e] = "failed"]
  /\ UNCHANGED <<out, got>>

Next == ServerGets \/ ClientGets \/ ServerDone \/ \E e \in Ends : Fail(e)
Spec == Init /\ [][Next]_vars
=============================================================================
