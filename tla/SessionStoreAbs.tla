-------------------------- MODULE SessionStoreAbs --------------------------
(***************************************************************************)
(* What the session store promises its callers: calls take effect one at a *)
(* time, at one instant each, and a session is gone as soon as its time to *)
(* live has passed since it was registered or last looked up.              *)
(***************************************************************************)
EXTENDS Naturals

CONSTANTS
  Threads, Ids, Pubs,
  Ttl,          \* SessionStore::ttl_
  MaxClock,     \* bound on the clock
  Absent,       \* no session of that id
  Nullopt       \* what a lookup of no session returns

VARIABLES
  clock,
  live,         \* the sessions whose time has not passed, by id
  request,      \* the call each thread is waiting for
  result        \* what the thread's last lookup returned

vars == <<clock, live, request, result>>

Register(id, pub) == [op |-> "register", id |-> id, pub |-> pub]
Lookup(id) == [op |-> "lookup", id |-> id, pub |-> Nullopt]
None == [op |-> "none", id |-> Absent, pub |-> Nullopt]

Requests == {Register(id, pub) : id \in Ids, pub \in Pubs} \cup {Lookup(id) : id \in Ids}

Fresh(pub) == [pub |-> pub, until |-> clock + Ttl]

Init ==
  /\ clock = 0
  /\ live = [id \in Ids |-> Absent]
  /\ request = [t \in Threads |-> None]
  /\ result = [t \in Threads |-> Nullopt]

\* Sessions whose time passes disappear at that instant.
Tick ==
  /\ clock < MaxClock
  /\ clock' = clock + 1
  /\ live' = [id \in Ids |->
       IF live[id] # Absent /\ clock + 1 <= live[id].until THEN live[id] ELSE Absent]
  /\ UNCHANGED <<request, result>>

Call(t, r) ==
  /\ request[t] = None
  /\ request' = [request EXCEPT ![t] = r]
  /\ UNCHANGED <<clock, live, result>>

\* A registration replaces the id's session and starts its time anew.
DoRegister(t) ==
  /\ request[t].op = "register"
  /\ live' = [live EXCEPT ![request[t].id] = Fresh(request[t].pub)]
  /\ request' = [request EXCEPT ![t] = None]
  /\ UNCHANGED <<clock, result>>

\* A lookup returns the material of a session that is there and renews it.
DoLookup(t) ==
  LET id == request[t].id IN
  /\ request[t].op = "lookup"
  /\ \/ /\ live[id] = Absent
        /\ result' = [result EXCEPT ![t] = Nullopt]
        /\ live' = live
     \/ /\ live[id] # Absent
        /\ result' = [result EXCEPT ![t] = live[id].pub]
        /\ live' = [live EXCEPT ![id] = Fresh(live[id].pub)]
  /\ request' = [request EXCEPT ![t] = None]
  /\ UNCHANGED clock

Next ==
  \/ Tick
  \/ \E t \in Threads :
       \/ \E r \in Requests : Call(t, r)
       \/ DoRegister(t)
       \/ DoLookup(t)

Spec == Init /\ [][Next]_vars
=============================================================================
