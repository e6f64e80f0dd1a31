------------------------------ MODULE Service ------------------------------
(***************************************************************************)
(* The private search service: client processes that register and query    *)
(* over one connection each, the server's accept loop, which serves one    *)
(* connection at a time, and its session store, of which this module uses  *)
(* only what SessionStoreAbs promises.                                     *)
(*                                                                         *)
(* A client's session id, its keys and the ciphertexts made under them are *)
(* named after the client: generate_fresh_seed never returns an id twice.  *)
(***************************************************************************)
EXTENDS Integers, Sequences

CONSTANTS
  Clients,
  Backlog,      \* connections the kernel keeps for accept
  Ttl,          \* the store's ttl_
  MaxClock,     \* bound on the clock
  MaxRestarts,  \* bound on restarts of the server
  Faults,       \* what may happen to a client: a subset of {"closed", "silent"}
  Server, Nobody, Absent, Nullopt

ASSUME ServiceAssumption ==
  /\ Backlog \in Nat \ {0}
  /\ Ttl \in Nat /\ MaxClock \in Nat /\ MaxRestarts \in Nat
  /\ Faults \subseteq {"closed", "silent"}
  /\ Nobody \notin Clients /\ Nullopt \notin Clients
  /\ Absent \notin Clients \cup [pub : Clients, until : Nat]

VARIABLES
  \* clients
  phase,        \* registration or query, or how the process ended
  step,         \* what it does in that phase: connect, send, recv
  outbox,       \* the request sent on the client's connection
  inbox,        \* the reply that has arrived on it
  scored,       \* the reply the client has decrypted
  \* the server process
  server,       \* accept, recv, dispatch, store, process, send, down
  peer,         \* the client whose connection is accepted
  backlog,      \* connections waiting for accept
  request, response,
  restarts,
  \* SessionStore
  clock, live, calls, found,
  \* history
  registered,   \* when the client's session was stored
  reconnected,  \* when the client connected for its query
  looked_up     \* when its session was looked up

client_vars == <<phase, step, outbox, inbox, scored, reconnected>>
server_vars == <<server, peer, backlog, request, response, restarts>>
store_vars == <<clock, live, calls, found>>
history_vars == <<registered, looked_up>>
vars == <<client_vars, server_vars, store_vars, history_vars>>

Store == INSTANCE SessionStoreAbs
           WITH Threads <- {Server}, Ids <- Clients, Pubs <- Clients,
                request <- calls, result <- found

----------------------------------------------------------------------------
(* Messages. *)

NoMessage == [type |-> "none"]
Registration(c) == [type |-> "registration", session_id |-> c, material |-> c]
Query(c) == [type |-> "query", session_id |-> c, under |-> c]
RegistrationAck == [type |-> "ack"]
Error == [type |-> "error"]
\* Scores of the query's ciphertexts, switched with the evaluation keys eval.
QueryResponse(eval, q) == [type |-> "response", eval |-> eval, under |-> q.under]
\* Not a message: the kernel reports that the connection is broken.
Broken == [type |-> "broken"]

Requests == {Registration(c) : c \in Clients} \cup {Query(c) : c \in Clients}

Gone == {"closed", "silent"}
Ended == {"done", "refused", "unexpected", "failed"} \cup Gone
Never == -1

----------------------------------------------------------------------------
Init ==
  /\ phase = [c \in Clients |-> "registration"]
  /\ step = [c \in Clients |-> "connect"]
  /\ outbox = [c \in Clients |-> NoMessage]
  /\ inbox = [c \in Clients |-> NoMessage]
  /\ scored = [c \in Clients |-> NoMessage]
  /\ server = "accept" /\ peer = Nobody /\ backlog = <<>>
  /\ request = NoMessage /\ response = NoMessage
  /\ restarts = 0
  /\ Store!Init
  /\ registered = [c \in Clients |-> Never]
  /\ reconnected = [c \in Clients |-> Never]
  /\ looked_up = [c \in Clients |-> Never]

Tick == Store!Tick /\ UNCHANGED <<client_vars, server_vars, history_vars>>

----------------------------------------------------------------------------
(* The client process. *)

EndAs(c, how) ==
  /\ phase' = [phase EXCEPT ![c] = how]
  /\ UNCHANGED step

\* The kernel completes the connection while the backlog has room.
Connect(c) ==
  /\ phase[c] \notin Ended /\ step[c] = "connect"
  /\ server # "down" /\ Len(backlog) < Backlog
  /\ backlog' = Append(backlog, c)
  /\ step' = [step EXCEPT ![c] = "send"]
  /\ outbox' = [outbox EXCEPT ![c] = NoMessage]
  /\ reconnected' = IF phase[c] = "query" THEN [reconnected EXCEPT ![c] = clock] ELSE reconnected
  /\ UNCHANGED <<phase, inbox, scored, server, peer, request, response, restarts>>
  /\ UNCHANGED <<store_vars, history_vars>>

\* Refused, or timed out while the backlog is full.
ConnectFails(c) ==
  /\ phase[c] \notin Ended /\ step[c] = "connect"
  /\ server = "down" \/ Len(backlog) = Backlog
  /\ EndAs(c, "failed")
  /\ UNCHANGED <<outbox, inbox, scored, reconnected, server_vars, store_vars, history_vars>>

SendRequest(c) ==
  /\ phase[c] \notin Ended /\ step[c] = "send" /\ inbox[c] = NoMessage
  /\ outbox' = [outbox EXCEPT ![c] = IF phase[c] = "registration" THEN Registration(c) ELSE Query(c)]
  /\ step' = [step EXCEPT ![c] = "recv"]
  /\ UNCHANGED <<phase, inbox, scored, reconnected, server_vars, store_vars, history_vars>>

\* send or recv throws, which main does not catch.
ConnectionLost(c) ==
  /\ phase[c] \notin Ended /\ inbox[c] = Broken
  /\ EndAs(c, "failed")
  /\ UNCHANGED <<outbox, inbox, scored, reconnected, server_vars, store_vars, history_vars>>

Registered(c) ==
  /\ phase[c] = "registration" /\ step[c] = "recv" /\ inbox[c].type = "ack"
  /\ phase' = [phase EXCEPT ![c] = "query"]
  /\ step' = [step EXCEPT ![c] = "connect"]
  /\ inbox' = [inbox EXCEPT ![c] = NoMessage]
  /\ UNCHANGED <<outbox, scored, reconnected, server_vars, store_vars, history_vars>>

Scored(c) ==
  /\ phase[c] = "query" /\ step[c] = "recv" /\ inbox[c].type = "response"
  /\ EndAs(c, "done")
  /\ scored' = [scored EXCEPT ![c] = inbox[c]]
  /\ inbox' = [inbox EXCEPT ![c] = NoMessage]
  /\ UNCHANGED <<outbox, reconnected, server_vars, store_vars, history_vars>>

Expected(c) == IF phase[c] = "registration" THEN "ack" ELSE "response"

\* An Error, or a reply of a type the request does not have.
Refused(c) ==
  /\ phase[c] \notin Ended /\ step[c] = "recv"
  /\ inbox[c].type \notin {"none", "broken", Expected(c)}
  /\ EndAs(c, IF inbox[c].type = "error" THEN "refused" ELSE "unexpected")
  /\ inbox' = [inbox EXCEPT ![c] = NoMessage]
  /\ UNCHANGED <<outbox, scored, reconnected, server_vars, store_vars, history_vars>>

\* "closed": the process dies and its kernel closes the connection.
\* "silent": its host disappears; the connection stays open for the server.
Fault(c) ==
  /\ phase[c] \notin Ended
  /\ \E how \in Faults : EndAs(c, how)
  /\ UNCHANGED <<outbox, inbox, scored, reconnected, server_vars, store_vars, history_vars>>

Client(c) ==
  \/ Connect(c) \/ ConnectFails(c) \/ SendRequest(c) \/ ConnectionLost(c)
  \/ Registered(c) \/ Scored(c) \/ Refused(c)

----------------------------------------------------------------------------
(* The server's accept loop. *)

Accept ==
  /\ server = "accept" /\ backlog # <<>>
  /\ server' = "recv"
  /\ peer' = Head(backlog)
  /\ backlog' = Tail(backlog)
  /\ UNCHANGED <<request, response, restarts, client_vars, store_vars, history_vars>>

\* recv_message returns once the whole request has arrived.
ReceiveRequest ==
  /\ server = "recv" /\ outbox[peer] # NoMessage
  /\ server' = "dispatch"
  /\ request' = outbox[peer]
  /\ UNCHANGED <<peer, backlog, response, restarts, client_vars, store_vars, history_vars>>

\* Mutant: recv() returning 0 is taken for a short read.
PeerClosed_ReadsOn == FALSE /\ UNCHANGED vars

\* The connection ends before the request does: recv_all throws, and the
\* handler answers with an Error.
PeerClosed ==
  /\ server = "recv" /\ outbox[peer] = NoMessage /\ phase[peer] = "closed"
  /\ server' = "send"
  /\ response' = Error
  /\ UNCHANGED <<peer, backlog, request, restarts, client_vars, store_vars, history_vars>>

\* handle_message: the request is deserialized, a registration's keys are
\* rebuilt, and the store is called.
Dispatch ==
  /\ server = "dispatch"
  /\ server' = "store"
  /\ Store!Call(Server, IF request.type = "registration"
                        THEN Store!Register(request.session_id, request.material)
                        ELSE Store!Lookup(request.session_id))
  /\ UNCHANGED <<peer, backlog, request, response, restarts, client_vars, history_vars>>

\* Mutant: a registration is acknowledged without being stored.
RegisterSession_NotStored ==
  /\ server = "store" /\ request.type = "registration"
  /\ calls' = [calls EXCEPT ![Server] = Store!None]
  /\ server' = "send"
  /\ response' = RegistrationAck
  /\ registered' = [registered EXCEPT ![request.session_id] = clock]
  /\ UNCHANGED <<clock, live, found, peer, backlog, request, restarts, client_vars, looked_up>>

RegisterSession ==
  /\ server = "store" /\ request.type = "registration"
  /\ Store!DoRegister(Server)
  /\ server' = "send"
  /\ response' = RegistrationAck
  /\ registered' = [registered EXCEPT ![request.session_id] = clock]
  /\ UNCHANGED <<peer, backlog, request, restarts, client_vars, looked_up>>

LookupWith(missing) ==
  /\ server = "store" /\ request.type = "query"
  /\ Store!DoLookup(Server)
  /\ IF found'[Server] = Nullopt THEN server' = "send" /\ response' = missing
     ELSE server' = "process" /\ UNCHANGED response
  /\ looked_up' = [looked_up EXCEPT ![request.session_id] = clock]
  /\ UNCHANGED <<peer, backlog, request, restarts, client_vars, registered>>

\* Mutant: for a missing session the response of the last connection is sent.
Lookup_StaleResponse == LookupWith(response)

Lookup == LookupWith(Error)

ProcessWith(eval) ==
  /\ server = "process"
  /\ server' = "send"
  /\ response' = QueryResponse(eval, request)
  /\ UNCHANGED <<peer, backlog, request, restarts, client_vars, store_vars, history_vars>>

\* Mutant: process_query takes another session's keys.
Process_AnyLiveKeys ==
  \E c \in {d \in Clients : live[d] # Absent} : ProcessWith(live[c].pub)

Process == ProcessWith(found[Server])

\* The Socket's destructor closes the connection at the end of the turn.
NextTurn ==
  /\ server' = "accept" /\ peer' = Nobody
  /\ request' = NoMessage
  /\ UNCHANGED <<backlog, response, restarts, store_vars, history_vars>>

Deliver ==
  /\ server = "send" /\ phase[peer] \notin Gone
  /\ inbox' = [inbox EXCEPT ![peer] = response]
  /\ UNCHANGED <<phase, step, outbox, scored, reconnected>>
  /\ NextTurn

\* Nobody is there to receive: the kernel takes the bytes, or send fails, the
\* Error fails too, and catch (...) drops it.
SendFails ==
  /\ server = "send" /\ phase[peer] \in Gone
  /\ UNCHANGED client_vars
  /\ NextTurn

\* A second send() on a connection that has been reset or has timed out raises
\* SIGPIPE, which the program neither blocks nor handles: the process ends, its
\* sockets and its sessions with it.
SigPipe ==
  /\ server = "send" /\ phase[peer] \in Gone
  /\ server' = "down" /\ peer' = Nobody /\ backlog' = <<>>
  /\ request' = NoMessage /\ response' = NoMessage
  /\ inbox' = [c \in Clients |->
       IF phase[c] \notin Ended /\ step[c] # "connect" /\ inbox[c] = NoMessage THEN Broken ELSE inbox[c]]
  /\ live' = [c \in Clients |-> Absent]
  /\ found' = [found EXCEPT ![Server] = Nullopt]
  /\ registered' = [c \in Clients |-> Never]
  /\ UNCHANGED <<phase, step, outbox, scored, reconnected, restarts, clock, calls, looked_up>>

\* The operator starts the server again, with an empty store.
Restart ==
  /\ server = "down" /\ restarts < MaxRestarts
  /\ server' = "accept"
  /\ restarts' = restarts + 1
  /\ UNCHANGED <<peer, backlog, request, response, client_vars, store_vars, history_vars>>

Serve ==
  \/ Accept \/ ReceiveRequest \/ PeerClosed \/ Dispatch \/ RegisterSession \/ Lookup
  \/ Process \/ Deliver \/ SendFails \/ SigPipe

Next ==
  \/ Tick
  \/ \E c \in Clients : Client(c) \/ Fault(c)
  \/ Serve
  \/ Restart

Spec == Init /\ [][Next]_vars

\* The server and every client keep running; faults, restarts and the passing
\* of time are nobody's duty.
FairSpec == Spec /\ WF_vars(Serve) /\ \A c \in Clients : WF_vars(Client(c))

----------------------------------------------------------------------------
(* Properties. *)

\* Every variable keeps its type, and between connections the server has none.
\* (Checked as a part of OwnResult.)
TypeOK ==
  /\ phase \in [Clients -> {"registration", "query"} \cup Ended]
  /\ step \in [Clients -> {"connect", "send", "recv"}]
  /\ outbox \in [Clients -> Requests \cup {NoMessage}]
  /\ \A c \in Clients : inbox[c].type \in {"none", "ack", "error", "response", "broken"}
  /\ server \in {"accept", "recv", "dispatch", "store", "process", "send", "down"}
  /\ peer \in Clients \cup {Nobody}
  /\ server \in {"accept", "down"} <=> peer = Nobody
  /\ backlog \in Seq(Clients) /\ Len(backlog) <= Backlog
  /\ request \in Requests \cup {NoMessage}
  /\ response.type \in {"none", "ack", "error", "response"}

\* A client that decrypts a response decrypts scores of its own query, switched
\* with the evaluation keys it registered: never another session's.
OwnResult ==
  TypeOK /\ \A c \in Clients : phase[c] = "done" => scored[c] = QueryResponse(c, Query(c))

\* The reply a client reads is the one to its request: the branches "unexpected
\* response type" are dead, whatever other connections carried before.
NoUnexpectedReply == \A c \in Clients : phase[c] # "unexpected"

\* "A client registers once, then can reconnect later (up to the session TTL)":
\* only a session past its time, or lost with a server process, is refused.
RefusedOnlyIfLate ==
  \A c \in Clients : phase[c] = "refused" =>
    /\ looked_up[c] # Never
    /\ registered[c] = Never \/ looked_up[c] > registered[c] + Ttl

\* Every client comes to an end, whatever the others do short of falling silent:
\* a connection that stays open without a message holds up the accept loop.
EveryClientEnds ==
  (\A c \in Clients : [](phase[c] # "silent")) => \A c \in Clients : <>(phase[c] \in Ended)

\* A broken connection is "best-effort": it never takes the server down.
ServerStaysUp == server # "down"
=============================================================================
