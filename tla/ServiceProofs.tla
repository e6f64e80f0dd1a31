--------------------------- MODULE ServiceProofs ---------------------------
(***************************************************************************)
(* For any number of clients, any backlog and any time to live, whatever   *)
(* faults and restarts happen: a client reads only the reply to its own    *)
(* request, decrypts only scores of its own query, and is refused only     *)
(* when its session is past its time or lost.                              *)
(***************************************************************************)
EXTENDS Service, SequenceTheorems, TLAPS

Replies == {RegistrationAck, Error} \cup {QueryResponse(c, Query(c)) : c \in Clients}

\* Every variable has its type, those that TypeOK leaves open included.
Types ==
  /\ TypeOK
  /\ inbox \in [Clients -> Replies \cup {NoMessage, Broken}]
  /\ scored \in [Clients -> Replies \cup {NoMessage}]
  /\ response \in Replies \cup {NoMessage}
  /\ clock \in Nat
  /\ live \in [Clients -> {Absent} \cup [pub : Clients, until : Nat]]
  /\ DOMAIN calls = {Server} /\ found \in [{Server} -> Clients \cup {Nullopt}]
  /\ registered \in [Clients -> Nat \cup {Never}] /\ looked_up \in [Clients -> Nat \cup {Never}]

InBacklog(c) == \E i \in 1 .. Len(backlog) : backlog[i] = c
Connected(c) == InBacklog(c) \/ c = peer

\* A client has at most one connection, on which it waits for one reply; the
\* server's process takes all connections with it.
ConnectionInv ==
  /\ \A i, j \in 1 .. Len(backlog) : backlog[i] = backlog[j] => i = j
  /\ ~ InBacklog(peer)
  /\ server = "down" => backlog = <<>>
  /\ \A c \in Clients : Connected(c) =>
       phase[c] \in {"registration", "query"} \cup Gone /\ step[c] # "connect" /\ inbox[c] = NoMessage
  /\ \A c \in Clients : phase[c] \notin Ended /\ step[c] = "connect" => inbox[c] = NoMessage

\* What a client has sent is what its phase asks for, and what the server works
\* on is what its peer has sent.
RequestInv ==
  /\ \A c \in Clients :
       /\ outbox[c] \in {NoMessage, Registration(c), Query(c)}
       /\ phase[c] = "registration" => outbox[c] # Query(c)
       /\ phase[c] = "query" /\ step[c] # "connect" => outbox[c] # Registration(c)
  /\ server \in {"dispatch", "store", "process"} => request = outbox[peer] /\ request # NoMessage
  /\ calls[Server] =
       IF server # "store" THEN Store!None
       ELSE IF request.type = "registration" THEN Store!Register(peer, peer) ELSE Store!Lookup(peer)

\* A stored session has its client's keys, and time is left to it at least until
\* Ttl after its registration: one that is gone is gone for that reason.
StoreInv ==
  \A c \in Clients :
    /\ live[c] # Absent => live[c].pub = c
    /\ registered[c] # Never =>
         /\ registered[c] <= clock
         /\ IF live[c] = Absent THEN clock > registered[c] + Ttl
            ELSE live[c].until >= registered[c] + Ttl

Late(c) == looked_up[c] # Never /\ (registered[c] = Never \/ looked_up[c] > registered[c] + Ttl)

\* The reply that c's request deserves.
Fits(c, reply) ==
  IF phase[c] = "registration" THEN reply = RegistrationAck
  ELSE reply = QueryResponse(c, Query(c)) \/ (reply = Error /\ Late(c))

\* A reply fits from the moment it is made until its client has read it.
ReplyInv ==
  /\ server = "process" => request = Query(peer) /\ found[Server] = peer
  /\ server = "send" /\ phase[peer] \notin Gone => Fits(peer, response)
  /\ \A c \in Clients :
       phase[c] \notin Ended /\ inbox[c] \notin {NoMessage, Broken} => Fits(c, inbox[c])

\* How clients have ended.
OutcomeInv ==
  \A c \in Clients :
    /\ phase[c] = "done" => scored[c] = QueryResponse(c, Query(c))
    /\ phase[c] # "unexpected"
    /\ phase[c] = "refused" => Late(c)

IInv == Types /\ ConnectionInv /\ RequestInv /\ StoreInv /\ ReplyInv /\ OutcomeInv

\* Messages of different types differ, and those of one type differ if they
\* belong to different clients.
LEMMA MessageFacts ==
  /\ NoMessage.type = "none" /\ RegistrationAck.type = "ack" /\ Error.type = "error"
  /\ Broken.type = "broken"
  /\ \A c \in Clients :
       /\ Registration(c).type = "registration" /\ Registration(c).session_id = c
       /\ Registration(c).material = c
       /\ Query(c).type = "query" /\ Query(c).session_id = c /\ Query(c).under = c
       /\ QueryResponse(c, Query(c)).type = "response"
       /\ Registration(c) \in Requests /\ Query(c) \in Requests
BY DEF NoMessage, RegistrationAck, Error, Broken, Registration, Query, QueryResponse, Requests

\* The invariant holds initially.
LEMMA InitInv == Init => IInv
<1> SUFFICES ASSUME Init PROVE IInv
  OBVIOUS
<1> USE ServiceAssumption, MessageFacts DEF Init
<1>1. Types
  BY DEF Types, TypeOK, Store!Init, Never
<1>2. ConnectionInv
  BY DEF ConnectionInv, InBacklog, Connected
<1>3. RequestInv
  BY DEF RequestInv, Store!Init
<1>4. StoreInv
  BY DEF StoreInv, Store!Init
<1>5. ReplyInv /\ OutcomeInv
  BY DEF ReplyInv, OutcomeInv
<1>6. QED
  BY <1>1, <1>2, <1>3, <1>4, <1>5 DEF IInv

\* Every step preserves the invariant.
LEMMA NextInv == IInv /\ [Next]_vars => IInv'
<1> SUFFICES ASSUME IInv, [Next]_vars PROVE IInv'
  OBVIOUS
<1> USE ServiceAssumption, MessageFacts
<1>1. CASE Tick
  <2> USE <1>1 DEF IInv, Tick, Store!Tick, client_vars, server_vars, store_vars, history_vars
  <2>1. Types'
    BY DEF Types, TypeOK
  <2>2. ConnectionInv'
    BY DEF Types, TypeOK, ConnectionInv, InBacklog, Connected
  <2>3. RequestInv'
    BY DEF Types, TypeOK, ConnectionInv, Connected, RequestInv
  <2>4. StoreInv'
    BY DEF Types, TypeOK, StoreInv
  <2>5. ReplyInv'
    BY DEF Types, TypeOK, ConnectionInv, Connected, RequestInv, ReplyInv, Fits, Late
  <2>6. OutcomeInv'
    BY DEF Types, TypeOK, ReplyInv, Fits, OutcomeInv, Late
  <2>7. QED
    BY <2>1, <2>2, <2>3, <2>4, <2>5, <2>6 DEF IInv
<1>2. ASSUME NEW c \in Clients, Connect(c) PROVE IInv'
  <2> USE <1>2 DEF IInv, Connect, client_vars, server_vars, store_vars, history_vars
  <2>1. Types'
    BY DEF Types, TypeOK
  <2>2. ConnectionInv'
    BY DEF Types, TypeOK, ConnectionInv, InBacklog, Connected
  <2>3. RequestInv'
    BY DEF Types, TypeOK, ConnectionInv, Connected, RequestInv
  <2>4. StoreInv'
    BY DEF Types, TypeOK, StoreInv
  <2>5. ReplyInv'
    BY DEF Types, TypeOK, ConnectionInv, Connected, RequestInv, ReplyInv, Fits, Late
  <2>6. OutcomeInv'
    BY DEF Types, TypeOK, ReplyInv, Fits, OutcomeInv, Late
  <2>7. QED
    BY <2>1, <2>2, <2>3, <2>4, <2>5, <2>6 DEF IInv
<1>3. ASSUME NEW c \in Clients, ConnectFails(c) PROVE IInv'
  <2> USE <1>3 DEF IInv, ConnectFails, EndAs, client_vars, server_vars, store_vars, history_vars
  <2>1. Types'
    BY DEF Types, TypeOK, Ended, Gone
  <2>2. ConnectionInv'
    BY DEF Types, TypeOK, ConnectionInv, InBacklog, Connected
  <2>3. RequestInv'
    BY DEF Types, TypeOK, ConnectionInv, Connected, RequestInv
  <2>4. StoreInv'
    BY DEF Types, TypeOK, StoreInv
  <2>5. ReplyInv'
    BY DEF Types, TypeOK, ConnectionInv, Connected, RequestInv, ReplyInv, Fits, Late
  <2>6. OutcomeInv'
    BY DEF Types, TypeOK, ReplyInv, Fits, OutcomeInv, Late
  <2>7. QED
    BY <2>1, <2>2, <2>3, <2>4, <2>5, <2>6 DEF IInv
<1>4. ASSUME NEW c \in Clients, SendRequest(c) PROVE IInv'
  <2> USE <1>4 DEF IInv, SendRequest, client_vars, server_vars, store_vars, history_vars
  <2>1. Types'
    BY DEF Types, TypeOK
  <2>2. ConnectionInv'
    BY DEF Types, TypeOK, ConnectionInv, InBacklog, Connected
  <2>3. RequestInv'
    BY DEF Types, TypeOK, ConnectionInv, Connected, RequestInv
  <2>4. StoreInv'
    BY DEF Types, TypeOK, StoreInv
  <2>5. ReplyInv'
    BY DEF Types, TypeOK, ConnectionInv, Connected, RequestInv, ReplyInv, Fits, Late
  <2>6. OutcomeInv'
    BY DEF Types, TypeOK, ReplyInv, Fits, OutcomeInv, Late
  <2>7. QED
    BY <2>1, <2>2, <2>3, <2>4, <2>5, <2>6 DEF IInv
<1>5. ASSUME NEW c \in Clients, ConnectionLost(c) PROVE IInv'
  <2> USE <1>5 DEF IInv, ConnectionLost, EndAs, client_vars, server_vars, store_vars, history_vars
  <2>1. Types'
    BY DEF Types, TypeOK, Ended, Gone
  <2>2. ConnectionInv'
    BY DEF Types, TypeOK, ConnectionInv, InBacklog, Connected
  <2>3. RequestInv'
    BY DEF Types, TypeOK, ConnectionInv, Connected, RequestInv
  <2>4. StoreInv'
    BY DEF Types, TypeOK, StoreInv
  <2>5. ReplyInv'
    BY DEF Types, TypeOK, ConnectionInv, Connected, RequestInv, ReplyInv, Fits, Late
  <2>6. OutcomeInv'
    BY DEF Types, TypeOK, ReplyInv, Fits, OutcomeInv, Late
  <2>7. QED
    BY <2>1, <2>2, <2>3, <2>4, <2>5, <2>6 DEF IInv
<1>6. ASSUME NEW c \in Clients, Registered(c) PROVE IInv'
  <2> USE <1>6 DEF IInv, Registered, client_vars, server_vars, store_vars, history_vars
  <2>1. Types'
    BY DEF Types, TypeOK
  <2>2. ConnectionInv'
    BY DEF Types, TypeOK, ConnectionInv, InBacklog, Connected
  <2>3. RequestInv'
    BY DEF Types, TypeOK, ConnectionInv, Connected, RequestInv
  <2>4. StoreInv'
    BY DEF Types, TypeOK, StoreInv
  <2>5. ReplyInv'
    BY DEF Types, TypeOK, ConnectionInv, Connected, RequestInv, ReplyInv, Fits, Late
  <2>6. OutcomeInv'
    BY DEF Types, TypeOK, ReplyInv, Fits, OutcomeInv, Late
  <2>7. QED
    BY <2>1, <2>2, <2>3, <2>4, <2>5, <2>6 DEF IInv
<1>7. ASSUME NEW c \in Clients, Scored(c) PROVE IInv'
  <2> USE <1>7 DEF IInv, Scored, EndAs, client_vars, server_vars, store_vars, history_vars
  <2>1. Types'
    BY DEF Types, TypeOK, Ended, Gone
  <2>2. ConnectionInv'
    BY DEF Types, TypeOK, ConnectionInv, InBacklog, Connected
  <2>3. RequestInv'
    BY DEF Types, TypeOK, ConnectionInv, Connected, RequestInv
  <2>4. StoreInv'
    BY DEF Types, TypeOK, StoreInv
  <2>5. ReplyInv'
    BY DEF Types, TypeOK, ConnectionInv, Connected, RequestInv, ReplyInv, Fits, Late
  <2>6. OutcomeInv'
    <3>1. inbox[c] = QueryResponse(c, Query(c))
      BY DEF Types, Ended, Gone, ReplyInv, Fits
    <3>2. QED
      BY <3>1 DEF Types, TypeOK, OutcomeInv, Late
  <2>7. QED
    BY <2>1, <2>2, <2>3, <2>4, <2>5, <2>6 DEF IInv
<1>8. ASSUME NEW c \in Clients, Refused(c) PROVE IInv'
  <2> USE <1>8 DEF IInv, Refused, EndAs, client_vars, server_vars, store_vars, history_vars
  <2>1. Types'
    BY DEF Types, TypeOK, Ended, Gone
  <2>2. ConnectionInv'
    BY DEF Types, TypeOK, ConnectionInv, InBacklog, Connected
  <2>3. RequestInv'
    BY DEF Types, TypeOK, ConnectionInv, Connected, RequestInv
  <2>4. StoreInv'
    BY DEF Types, TypeOK, StoreInv
  <2>5. ReplyInv'
    BY DEF Types, TypeOK, ConnectionInv, Connected, RequestInv, ReplyInv, Fits, Late
  <2>6. OutcomeInv'
    BY DEF Types, TypeOK, Replies, Ended, Gone, Expected, ReplyInv, Fits, OutcomeInv, Late
  <2>7. QED
    BY <2>1, <2>2, <2>3, <2>4, <2>5, <2>6 DEF IInv
<1>9. ASSUME NEW c \in Clients, Fault(c) PROVE IInv'
  <2> USE <1>9 DEF IInv, Fault, EndAs, client_vars, server_vars, store_vars, history_vars
  <2>1. Types'
    BY DEF Types, TypeOK, Ended, Gone
  <2>2. ConnectionInv'
    BY DEF Types, TypeOK, Ended, Gone, ConnectionInv, InBacklog, Connected
  <2>3. RequestInv'
    <3>1. PICK how \in Faults : phase' = [phase EXCEPT ![c] = how]
      BY DEF Fault
    <3>2. how \in {"closed", "silent"} /\ DOMAIN phase = Clients
      BY DEF Types, TypeOK
    <3>3. \A d \in Clients : phase'[d] # phase[d] => phase'[d] = how
      BY <3>1, <3>2
    <3>4. QED
      BY <3>2, <3>3 DEF RequestInv
  <2>4. StoreInv'
    BY DEF Types, TypeOK, StoreInv
  <2>5. ReplyInv'
    BY DEF Types, TypeOK, Ended, Gone, ConnectionInv, Connected, RequestInv, ReplyInv, Fits, Late
  <2>6. OutcomeInv'
    BY DEF Types, TypeOK, ReplyInv, Fits, OutcomeInv, Late
  <2>7. QED
    BY <2>1, <2>2, <2>3, <2>4, <2>5, <2>6 DEF IInv
<1>10. CASE Accept
  <2> USE <1>10 DEF IInv, Accept, client_vars, server_vars, store_vars, history_vars
  <2>1. Types'
    BY DEF Types, TypeOK
  <2>2. ConnectionInv'
    <3>1. /\ Len(backlog') = Len(backlog) - 1 /\ Len(backlog) >= 1
          /\ \A i \in 1 .. Len(backlog') : backlog'[i] = backlog[i + 1]
          /\ peer' = backlog[1] /\ Len(backlog) \in Nat
      BY HeadTailProperties, LenProperties DEF Types, TypeOK
    <3>2. \A d \in Clients : Connected(d)' => Connected(d)
      BY <3>1 DEF Connected, InBacklog
    <3>3. ~ InBacklog(peer)'
      BY <3>1 DEF ConnectionInv, InBacklog
    <3>4. QED
      BY <3>1, <3>2, <3>3 DEF ConnectionInv
  <2>3. RequestInv'
    BY DEF Types, TypeOK, ConnectionInv, Connected, RequestInv
  <2>4. StoreInv'
    BY DEF Types, TypeOK, StoreInv
  <2>5. ReplyInv'
    BY DEF Types, TypeOK, ConnectionInv, Connected, RequestInv, ReplyInv, Fits, Late
  <2>6. OutcomeInv'
    BY DEF Types, TypeOK, ReplyInv, Fits, OutcomeInv, Late
  <2>7. QED
    BY <2>1, <2>2, <2>3, <2>4, <2>5, <2>6 DEF IInv
<1>11. CASE ReceiveRequest
  <2> USE <1>11 DEF IInv, ReceiveRequest, client_vars, server_vars, store_vars, history_vars
  <2>1. Types'
    BY DEF Types, TypeOK
  <2>2. ConnectionInv'
    BY DEF Types, TypeOK, ConnectionInv, InBacklog, Connected
  <2>3. RequestInv'
    BY DEF Types, TypeOK, ConnectionInv, Connected, RequestInv
  <2>4. StoreInv'
    BY DEF Types, TypeOK, StoreInv
  <2>5. ReplyInv'
    BY DEF Types, TypeOK, ConnectionInv, Connected, RequestInv, ReplyInv, Fits, Late
  <2>6. OutcomeInv'
    BY DEF Types, TypeOK, ReplyInv, Fits, OutcomeInv, Late
  <2>7. QED
    BY <2>1, <2>2, <2>3, <2>4, <2>5, <2>6 DEF IInv
<1>12. CASE PeerClosed
  <2> USE <1>12 DEF IInv, PeerClosed, client_vars, server_vars, store_vars, history_vars
  <2>1. Types'
    BY DEF Types, TypeOK, Replies
  <2>2. ConnectionInv'
    BY DEF Types, TypeOK, ConnectionInv, InBacklog, Connected
  <2>3. RequestInv'
    BY DEF Types, TypeOK, ConnectionInv, Connected, RequestInv
  <2>4. StoreInv'
    BY DEF Types, TypeOK, StoreInv
  <2>5. ReplyInv'
    BY DEF Types, TypeOK, ConnectionInv, Connected, RequestInv, ReplyInv, Fits, Late
  <2>6. OutcomeInv'
    BY DEF Types, TypeOK, ReplyInv, Fits, OutcomeInv, Late
  <2>7. QED
    BY <2>1, <2>2, <2>3, <2>4, <2>5, <2>6 DEF IInv
<1>13. CASE Dispatch
  <2> USE <1>13 DEF IInv, Dispatch, Store!Call, client_vars, server_vars, store_vars, history_vars
  <2>1. Types'
    BY DEF Types, TypeOK
  <2>2. ConnectionInv'
    BY DEF Types, TypeOK, ConnectionInv, InBacklog, Connected
  <2>3. RequestInv'
    BY DEF Types, TypeOK, ConnectionInv, Connected, RequestInv
  <2>4. StoreInv'
    BY DEF Types, TypeOK, StoreInv
  <2>5. ReplyInv'
    BY DEF Types, TypeOK, ConnectionInv, Connected, RequestInv, ReplyInv, Fits, Late
  <2>6. OutcomeInv'
    BY DEF Types, TypeOK, ReplyInv, Fits, OutcomeInv, Late
  <2>7. QED
    BY <2>1, <2>2, <2>3, <2>4, <2>5, <2>6 DEF IInv
<1>14. CASE RegisterSession
  <2> USE DEF IInv
  <2>1. peer \in Clients /\ request = Registration(peer) /\ phase[peer] \notin {"done", "refused", "unexpected"}
    BY <1>14 DEF RegisterSession, Types, TypeOK, RequestInv, ConnectionInv, Connected, Gone
  <2>2. calls[Server].id = peer /\ calls[Server].pub = peer
    BY <1>14, <2>1 DEF RegisterSession, RequestInv, Store!Register
  <2>3. /\ live' = [live EXCEPT ![peer] = [pub |-> peer, until |-> clock + Ttl]]
        /\ registered' = [registered EXCEPT ![peer] = clock]
        /\ UNCHANGED <<client_vars, clock, found, looked_up, peer, backlog, request, restarts>>
        /\ server = "store" /\ server' = "send" /\ response' = RegistrationAck
    BY <1>14, <2>1, <2>2 DEF RegisterSession, Store!DoRegister, Store!Fresh
  <2>4. calls' = [calls EXCEPT ![Server] = Store!None]
    BY <1>14 DEF RegisterSession, Store!DoRegister
  <2> USE <2>1, <2>3 DEF client_vars
  <2>5. Types'
    BY <2>4 DEF Types, TypeOK, Replies
  <2>6. ConnectionInv'
    BY DEF ConnectionInv, InBacklog, Connected
  <2>7. RequestInv'
    BY <2>4 DEF Types, RequestInv
  <2>8. StoreInv'
    BY DEF Types, StoreInv
  <2>9. Fits(peer, response)' \/ phase[peer] \in Gone
    BY DEF Types, TypeOK, RequestInv, ConnectionInv, Connected, Fits
  <2>10. \A c \in Clients : c # peer => Late(c)' = Late(c)
    BY DEF Types, Late
  <2>11. ReplyInv'
    BY <2>9, <2>10 DEF Types, ConnectionInv, Connected, ReplyInv, Fits
  <2>12. OutcomeInv'
    BY <2>10 DEF Types, OutcomeInv
  <2>13. QED
    BY <2>5, <2>6, <2>7, <2>8, <2>11, <2>12
<1>15. CASE Lookup
  <2> USE DEF IInv
  <2>1. peer \in Clients /\ request = Query(peer) /\ phase[peer] \notin {"done", "refused", "unexpected"}
    BY <1>15 DEF Lookup, LookupWith, Types, TypeOK, RequestInv, ConnectionInv, Connected, Gone
  <2>2. calls[Server].id = peer
    BY <1>15, <2>1 DEF Lookup, LookupWith, RequestInv, Store!Lookup
  <2>3. /\ looked_up' = [looked_up EXCEPT ![peer] = clock]
        /\ UNCHANGED <<client_vars, clock, registered, peer, backlog, request, restarts>>
        /\ server = "store"
    BY <1>15, <2>1 DEF Lookup, LookupWith, Store!DoLookup
  <2>4. calls' = [calls EXCEPT ![Server] = Store!None]
    BY <1>15 DEF Lookup, LookupWith, Store!DoLookup
  \* The two outcomes of the lookup.
  <2>5. \/ /\ live[peer] = Absent /\ live' = live
           /\ found' = [found EXCEPT ![Server] = Nullopt]
           /\ server' = "send" /\ response' = Error
        \/ /\ live[peer] # Absent
           /\ live' = [live EXCEPT ![peer] = [pub |-> peer, until |-> clock + Ttl]]
           /\ found' = [found EXCEPT ![Server] = peer]
           /\ server' = "process" /\ response' = response
    <3>1. CASE live[peer] = Absent
      BY <1>15, <2>2, <3>1 DEF Lookup, LookupWith, Store!DoLookup, Types
    <3>2. CASE live[peer] # Absent
      <4>1. live[peer].pub = peer
        BY <2>1, <3>2 DEF StoreInv
      <4>2. /\ live' = [live EXCEPT ![peer] = [pub |-> peer, until |-> clock + Ttl]]
            /\ found' = [found EXCEPT ![Server] = peer]
        BY <1>15, <2>2, <3>2, <4>1 DEF Lookup, LookupWith, Store!DoLookup, Store!Fresh
      <4>3. found'[Server] # Nullopt
        BY <2>1, <4>2 DEF Types
      <4>4. QED
        BY <1>15, <3>2, <4>2, <4>3 DEF Lookup, LookupWith
    <3>3. QED
      BY <3>1, <3>2
  <2> USE <2>1, <2>3, <2>5 DEF client_vars
  <2>6. Types'
    BY <2>4 DEF Types, TypeOK, Replies
  <2>7. ConnectionInv'
    BY DEF ConnectionInv, InBacklog, Connected
  <2>8. RequestInv'
    BY <2>4 DEF Types, RequestInv
  <2>9. StoreInv'
    BY DEF Types, StoreInv
  <2>10. \A c \in Clients : c # peer => Late(c)' = Late(c)
    BY DEF Types, Late
  \* A session that is gone is past its time, or lost.
  <2>11. live[peer] = Absent => Late(peer)'
    BY DEF Types, StoreInv, Late, Never
  <2>12. phase[peer] \notin Gone => phase[peer] = "query"
    BY DEF RequestInv, ConnectionInv, Connected, Types
  <2>13. ReplyInv'
    <3>1. server' = "send" /\ phase[peer] \notin Gone => Fits(peer, response)'
      BY <2>11, <2>12 DEF Fits
    <3>2. server' = "process" => found'[Server] = peer
      BY DEF Types
    <3>3. QED
      BY <2>10, <3>1, <3>2 DEF ConnectionInv, Connected, ReplyInv, Fits
  <2>14. OutcomeInv'
    BY <2>10 DEF OutcomeInv
  <2>15. QED
    BY <2>6, <2>7, <2>8, <2>9, <2>13, <2>14
<1>16. CASE Process
  <2> USE <1>16 DEF IInv, Process, ProcessWith, client_vars, server_vars, store_vars, history_vars
  <2>0. peer \in Clients /\ request = Query(peer) /\ response' = QueryResponse(peer, Query(peer))
    BY DEF Types, TypeOK, ReplyInv
  <2>1. Types'
    BY <2>0 DEF Types, TypeOK, Replies
  <2>2. ConnectionInv'
    BY <2>0 DEF Types, TypeOK, ConnectionInv, InBacklog, Connected
  <2>3. RequestInv'
    BY <2>0 DEF Types, TypeOK, ConnectionInv, Connected, RequestInv
  <2>4. StoreInv'
    BY <2>0 DEF Types, TypeOK, StoreInv
  <2>5. ReplyInv'
    BY <2>0 DEF Types, TypeOK, ConnectionInv, Connected, RequestInv, ReplyInv, Fits, Late
  <2>6. OutcomeInv'
    BY <2>0 DEF Types, TypeOK, ReplyInv, Fits, OutcomeInv, Late
  <2>7. QED
    BY <2>1, <2>2, <2>3, <2>4, <2>5, <2>6 DEF IInv
<1>17. CASE Deliver
  <2> USE <1>17 DEF IInv, Deliver, NextTurn, client_vars, server_vars, store_vars, history_vars
  <2>1. Types'
    BY DEF Types, TypeOK
  <2>2. ConnectionInv'
    BY DEF Types, TypeOK, ConnectionInv, InBacklog, Connected
  <2>3. RequestInv'
    BY DEF Types, TypeOK, ConnectionInv, Connected, RequestInv
  <2>4. StoreInv'
    BY DEF Types, TypeOK, StoreInv
  <2>5. ReplyInv'
    BY DEF Types, TypeOK, ConnectionInv, Connected, RequestInv, ReplyInv, Fits, Late
  <2>6. OutcomeInv'
    BY DEF Types, TypeOK, ReplyInv, Fits, OutcomeInv, Late
  <2>7. QED
    BY <2>1, <2>2, <2>3, <2>4, <2>5, <2>6 DEF IInv
<1>18. CASE SendFails
  <2> USE <1>18 DEF IInv, SendFails, NextTurn, client_vars, server_vars, store_vars, history_vars
  <2>1. Types'
    BY DEF Types, TypeOK
  <2>2. ConnectionInv'
    BY DEF Types, TypeOK, ConnectionInv, InBacklog, Connected
  <2>3. RequestInv'
    BY DEF Types, TypeOK, ConnectionInv, Connected, RequestInv
  <2>4. StoreInv'
    BY DEF Types, TypeOK, StoreInv
  <2>5. ReplyInv'
    BY DEF Types, TypeOK, ConnectionInv, Connected, RequestInv, ReplyInv, Fits, Late
  <2>6. OutcomeInv'
    BY DEF Types, TypeOK, ReplyInv, Fits, OutcomeInv, Late
  <2>7. QED
    BY <2>1, <2>2, <2>3, <2>4, <2>5, <2>6 DEF IInv
<1>19. CASE SigPipe
  <2> USE <1>19 DEF IInv, SigPipe, client_vars, server_vars, store_vars, history_vars
  <2>1. Types'
    BY DEF Types, TypeOK
  <2>2. ConnectionInv'
    BY DEF Types, TypeOK, ConnectionInv, InBacklog, Connected
  <2>3. RequestInv'
    BY DEF Types, TypeOK, ConnectionInv, Connected, RequestInv
  <2>4. StoreInv'
    BY DEF Types, TypeOK, StoreInv
  <2>5. ReplyInv'
    BY DEF Types, TypeOK, ConnectionInv, Connected, RequestInv, ReplyInv, Fits, Late
  <2>6. OutcomeInv'
    BY DEF Types, TypeOK, ReplyInv, Fits, OutcomeInv, Late
  <2>7. QED
    BY <2>1, <2>2, <2>3, <2>4, <2>5, <2>6 DEF IInv
<1>20. CASE Restart
  <2> USE <1>20 DEF IInv, Restart, client_vars, server_vars, store_vars, history_vars
  <2>1. Types'
    BY DEF Types, TypeOK
  <2>2. ConnectionInv'
    BY DEF Types, TypeOK, ConnectionInv, InBacklog, Connected
  <2>3. RequestInv'
    BY DEF Types, TypeOK, ConnectionInv, Connected, RequestInv
  <2>4. StoreInv'
    BY DEF Types, TypeOK, StoreInv
  <2>5. ReplyInv'
    BY DEF Types, TypeOK, ConnectionInv, Connected, RequestInv, ReplyInv, Fits, Late
  <2>6. OutcomeInv'
    BY DEF Types, TypeOK, ReplyInv, Fits, OutcomeInv, Late
  <2>7. QED
    BY <2>1, <2>2, <2>3, <2>4, <2>5, <2>6 DEF IInv
<1>21. CASE UNCHANGED vars
  <2> USE <1>21 DEF IInv, vars, client_vars, server_vars, store_vars, history_vars
  <2>1. Types' /\ StoreInv' /\ RequestInv'
    BY DEF Types, TypeOK, StoreInv, RequestInv
  <2>2. ConnectionInv'
    BY DEF ConnectionInv, Connected, InBacklog
  <2>3. ReplyInv' /\ OutcomeInv'
    BY DEF ReplyInv, OutcomeInv, Fits, Late
  <2>4. QED
    BY <2>1, <2>2, <2>3
<1>22. QED
  BY <1>1, <1>2, <1>3, <1>4, <1>5, <1>6, <1>7, <1>8, <1>9, <1>10, <1>11, <1>12, <1>13, <1>14, <1>15, <1>16, <1>17, <1>18, <1>19, <1>20, <1>21 DEF Next, Client, Serve

LEMMA InvariantHolds == Spec => []IInv
BY InitInv, NextInv, PTL DEF Spec

\* A client that decrypts a response decrypts scores of its own query, switched
\* with the keys it registered, and every variable keeps its type.
THEOREM ResultsAreOwn == Spec => []OwnResult
<1>1. IInv => OwnResult
  BY DEF IInv, Types, OutcomeInv, OwnResult
<1>2. QED
  BY <1>1, InvariantHolds, PTL

\* A client only reads a reply of the type that its request has, or an Error.
THEOREM RepliesAreExpected == Spec => []NoUnexpectedReply
<1>1. IInv => NoUnexpectedReply
  BY DEF IInv, OutcomeInv, NoUnexpectedReply
<1>2. QED
  BY <1>1, InvariantHolds, PTL

\* A client is refused only if its session was past its time to live when the
\* server looked it up, or had been lost with a server process.
THEOREM RefusalsAreLate == Spec => []RefusedOnlyIfLate
<1>1. IInv => RefusedOnlyIfLate
  BY DEF IInv, OutcomeInv, Late, RefusedOnlyIfLate
<1>2. QED
  BY <1>1, InvariantHolds, PTL
=============================================================================
