--------------------------- MODULE SessionStore ---------------------------
(***************************************************************************)
(* SessionStore: the server's sessions under one mutex, looked up by any   *)
(* number of connection threads, evicted lazily: a session past its time   *)
(* to live is erased only when it is looked up.                            *)
(***************************************************************************)
EXTENDS Naturals

CONSTANTS
  Threads,      \* connection threads
  Ids,          \* session ids
  Pubs,         \* public key materials
  Ttl,          \* ttl_
  MaxClock,     \* bound on steady_clock
  Absent, Nullopt, Free

ASSUME StoreAssumption ==
  /\ Ttl \in Nat /\ MaxClock \in Nat
  /\ Free \notin Threads
  /\ Absent \notin [pub : Pubs, last_used : Nat] \cup [pub : Pubs, until : Nat]
  /\ Nullopt \notin Pubs

VARIABLES
  clock,        \* steady_clock::now()
  sessions,     \* sessions_, Absent where the map has no entry
  mutex,        \* the thread that holds mutex_, or Free
  pc,           \* idle, lock, find, now, apply
  request,      \* the call's name and arguments
  now,          \* the call's local now
  result        \* what the thread's last get_and_touch returned

vars == <<clock, sessions, mutex, pc, request, now, result>>

Register(id, pub) == [op |-> "register", id |-> id, pub |-> pub]
Lookup(id) == [op |-> "lookup", id |-> id, pub |-> Nullopt]
None == [op |-> "none", id |-> Absent, pub |-> Nullopt]

Requests == {Register(id, pub) : id \in Ids, pub \in Pubs} \cup {Lookup(id) : id \in Ids}

Session(pub, time) == [pub |-> pub, last_used |-> time]

Expired(session, time) == time - session.last_used > Ttl

----------------------------------------------------------------------------
Init ==
  /\ clock = 0
  /\ sessions = [id \in Ids |-> Absent]
  /\ mutex = Free
  /\ pc = [t \in Threads |-> "idle"]
  /\ request = [t \in Threads |-> None]
  /\ now = [t \in Threads |-> 0]
  /\ result = [t \in Threads |-> Nullopt]

Tick ==
  /\ clock < MaxClock
  /\ clock' = clock + 1
  /\ UNCHANGED <<sessions, mutex, pc, request, now, result>>

\* register_session(id, pub) or get_and_touch(id) is called.
Call(t, r) ==
  /\ pc[t] = "idle"
  /\ pc' = [pc EXCEPT ![t] = "lock"]
  /\ request' = [request EXCEPT ![t] = r]
  /\ UNCHANGED <<clock, sessions, mutex, now, result>>

FirstStep(t) == IF request[t].op = "register" THEN "now" ELSE "find"

\* Mutant: no lock_guard.
Lock_NoMutex(t) ==
  /\ pc[t] = "lock"
  /\ pc' = [pc EXCEPT ![t] = FirstStep(t)]
  /\ UNCHANGED <<clock, sessions, mutex, request, now, result>>

Lock(t) ==
  /\ pc[t] = "lock" /\ mutex = Free
  /\ mutex' = t
  /\ pc' = [pc EXCEPT ![t] = FirstStep(t)]
  /\ UNCHANGED <<clock, sessions, request, now, result>>

\* The lock_guard's destructor releases the mutex on every return.
Return(t, value) ==
  /\ mutex' = Free
  /\ pc' = [pc EXCEPT ![t] = "idle"]
  /\ request' = [request EXCEPT ![t] = None]
  /\ now' = [now EXCEPT ![t] = 0]
  /\ result' = [result EXCEPT ![t] = value]
  /\ UNCHANGED clock

\* Mutant: the return for a missing session leaves the mutex locked.
NotFound_KeepsMutex(t) ==
  /\ pc[t] = "find"
  /\ sessions[request[t].id] = Absent
  /\ pc' = [pc EXCEPT ![t] = "idle"]
  /\ request' = [request EXCEPT ![t] = None]
  /\ result' = [result EXCEPT ![t] = Nullopt]
  /\ UNCHANGED <<clock, sessions, mutex, now>>

NotFound(t) ==
  /\ pc[t] = "find"
  /\ sessions[request[t].id] = Absent
  /\ Return(t, Nullopt)
  /\ UNCHANGED sessions

Found(t) ==
  /\ pc[t] = "find"
  /\ sessions[request[t].id] # Absent
  /\ pc' = [pc EXCEPT ![t] = "now"]
  /\ UNCHANGED <<clock, sessions, mutex, request, now, result>>

ReadClock(t) ==
  /\ pc[t] = "now"
  /\ now' = [now EXCEPT ![t] = clock]
  /\ pc' = [pc EXCEPT ![t] = "apply"]
  /\ UNCHANGED <<clock, sessions, mutex, request, result>>

Store(t) ==
  /\ pc[t] = "apply" /\ request[t].op = "register"
  /\ sessions' = [sessions EXCEPT ![request[t].id] = Session(request[t].pub, now[t])]
  /\ Return(t, result[t])

Evict(t) ==
  LET id == request[t].id IN
  /\ pc[t] = "apply" /\ request[t].op = "lookup"
  /\ Expired(sessions[id], now[t])
  /\ sessions' = [sessions EXCEPT ![id] = Absent]
  /\ Return(t, Nullopt)

\* Mutant: a lookup does not renew the session.
Touch_NotRenewed(t) ==
  LET id == request[t].id IN
  /\ pc[t] = "apply" /\ request[t].op = "lookup"
  /\ ~ Expired(sessions[id], now[t])
  /\ Return(t, sessions[id].pub)
  /\ UNCHANGED sessions

Touch(t) ==
  LET id == request[t].id IN
  /\ pc[t] = "apply" /\ request[t].op = "lookup"
  /\ ~ Expired(sessions[id], now[t])
  /\ sessions' = [sessions EXCEPT ![id].last_used = now[t]]
  /\ Return(t, sessions[id].pub)

Critical(t) == NotFound(t) \/ Found(t) \/ ReadClock(t) \/ Store(t) \/ Evict(t) \/ Touch(t)

Next ==
  \/ Tick
  \/ \E t \in Threads :
       \/ \E r \in Requests : Call(t, r)
       \/ Lock(t)
       \/ Critical(t)

Spec == Init /\ [][Next]_vars

\* A thread inside the critical section is scheduled; std::mutex promises
\* nothing about who gets it next, so Lock has no fairness.
FairSpec == Spec /\ \A t \in Threads : WF_vars(Critical(t))

----------------------------------------------------------------------------
(* Properties. *)

Sessions == [pub : Pubs, last_used : Nat]

\* Each variable holds a value of its C++ type.
TypeOK ==
  /\ clock \in Nat
  /\ sessions \in [Ids -> Sessions \cup {Absent}]
  /\ mutex \in Threads \cup {Free}
  /\ pc \in [Threads -> {"idle", "lock", "find", "now", "apply"}]
  /\ request \in [Threads -> Requests \cup {None}]
  /\ now \in [Threads -> Nat]
  /\ result \in [Threads -> Pubs \cup {Nullopt}]

\* The time of last use of a session that stays never goes back: no call
\* stores a time it read before another call's.
LastUsedNeverGoesBack ==
  [][\A id \in Ids : sessions[id] # Absent /\ sessions'[id] # Absent =>
       sessions[id].last_used <= sessions'[id].last_used]_vars

\* A thread that holds the mutex gives it back, whichever return it takes.
MutexIsReleased == \A t \in Threads : mutex = t ~> mutex # t

----------------------------------------------------------------------------
(* The store implements SessionStoreAbs: a call takes effect when it reads *)
(* the clock (or finds no session), and lazy eviction cannot be told from  *)
(* sessions that vanish when their time has passed.                        *)

\* What the call of t that has read the clock leaves under its id.
Outcome(t) ==
  LET session == sessions[request[t].id] IN
  IF request[t].op = "register" THEN Session(request[t].pub, now[t])
  ELSE IF Expired(session, now[t]) THEN Absent
  ELSE Session(session.pub, now[t])

\* The sessions once that call is done.
Settled(id) ==
  IF \E t \in Threads : pc[t] = "apply" /\ request[t].id = id
  THEN Outcome(CHOOSE t \in Threads : pc[t] = "apply" /\ request[t].id = id)
  ELSE sessions[id]

LiveAt(session, time) ==
  IF session # Absent /\ ~ Expired(session, time)
  THEN [pub |-> session.pub, until |-> session.last_used + Ttl] ELSE Absent

Live == [id \in Ids |-> LiveAt(Settled(id), clock)]

Waiting == [t \in Threads |-> IF pc[t] = "apply" THEN None ELSE request[t]]

Answer ==
  [t \in Threads |->
     LET id == request[t].id IN
     IF pc[t] = "apply" /\ request[t].op = "lookup"
     THEN IF Expired(sessions[id], now[t]) THEN Nullopt ELSE sessions[id].pub
     ELSE result[t]]

Abs == INSTANCE SessionStoreAbs WITH live <- Live, request <- Waiting, result <- Answer

\* Every behaviour of the store is one of SessionStoreAbs.
ImplementsAbs == Abs!Spec
=============================================================================
