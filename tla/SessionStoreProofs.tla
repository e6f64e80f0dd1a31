------------------------ MODULE SessionStoreProofs ------------------------
(***************************************************************************)
(* For any number of threads, ids and materials and any time to live: the  *)
(* time of last use never goes back, and the store implements              *)
(* SessionStoreAbs.                                                        *)
(***************************************************************************)
EXTENDS SessionStore, TLAPS

\* The calls past the lock are those of the thread that holds it.
MutexInv == \A t \in Threads : pc[t] \in {"find", "now", "apply"} <=> mutex = t

\* A thread in a call has a request; a lookup past find has found a session,
\* which the lock keeps there.
RequestInv ==
  \A t \in Threads :
    /\ pc[t] = "idle" => request[t] = None
    /\ pc[t] # "idle" => request[t] \in Requests
    /\ pc[t] = "find" => request[t].op = "lookup"
    /\ pc[t] \in {"now", "apply"} /\ request[t].op = "lookup" => sessions[request[t].id] # Absent

\* No time is ahead of the clock, and the time a call has read is not behind
\* any session's: nobody else has stored one since.
ClockInv ==
  /\ \A id \in Ids : sessions[id] # Absent => sessions[id].last_used <= clock
  /\ \A t \in Threads : pc[t] = "apply" =>
       /\ now[t] <= clock
       /\ \A id \in Ids : sessions[id] # Absent => sessions[id].last_used <= now[t]

IInv == TypeOK /\ MutexInv /\ RequestInv /\ ClockInv

\* What a request is made of.
LEMMA RequestFacts ==
  /\ \A r \in Requests : /\ r.id \in Ids
                         /\ r.op = "register" \/ r.op = "lookup"
                         /\ r.op = "register" => r.pub \in Pubs
                         /\ r # None
  /\ None.op = "none"
BY DEF Requests, Register, Lookup, None

\* A session is never Absent, and its fields have their types.
LEMMA SessionFacts ==
  /\ \A s \in Sessions : s # Absent /\ s.pub \in Pubs /\ s.last_used \in Nat
  /\ \A pub \in Pubs, time \in Nat : /\ Session(pub, time) \in Sessions
                                     /\ Session(pub, time).pub = pub
                                     /\ Session(pub, time).last_used = time
BY StoreAssumption DEF Sessions, Session

\* The invariant holds initially.
LEMMA InitInv == Init => IInv
BY StoreAssumption, RequestFacts DEF Init, IInv, TypeOK, MutexInv, RequestInv, ClockInv

\* Every step preserves the invariant.
LEMMA NextInv == IInv /\ [Next]_vars => IInv'
<1> SUFFICES ASSUME IInv, [Next]_vars PROVE IInv'
  OBVIOUS
<1> USE StoreAssumption, RequestFacts, SessionFacts
<1>1. CASE Tick
  <2> USE <1>1 DEF IInv, Tick
  <2>1. TypeOK'
    BY DEF TypeOK
  <2>2. ClockInv'
    BY DEF TypeOK, ClockInv
  <2>3. QED
    BY <2>1, <2>2 DEF MutexInv, RequestInv
<1>2. ASSUME NEW t \in Threads, NEW r \in Requests, Call(t, r) PROVE IInv'
  <2> USE <1>2 DEF IInv, Call
  <2>1. TypeOK'
    BY DEF TypeOK
  <2>2. MutexInv'
    BY DEF TypeOK, MutexInv
  <2>3. RequestInv'
    BY DEF TypeOK, RequestInv
  <2>4. ClockInv'
    BY DEF TypeOK, ClockInv
  <2>5. QED
    BY <2>1, <2>2, <2>3, <2>4
<1>3. ASSUME NEW t \in Threads, Lock(t) PROVE IInv'
  <2> USE <1>3 DEF IInv, Lock, FirstStep
  <2>1. TypeOK'
    BY DEF TypeOK
  <2>2. MutexInv'
    BY DEF TypeOK, MutexInv
  <2>3. RequestInv'
    BY DEF TypeOK, RequestInv
  <2>4. ClockInv'
    BY DEF TypeOK, ClockInv
  <2>5. QED
    BY <2>1, <2>2, <2>3, <2>4
<1>4. ASSUME NEW t \in Threads, NotFound(t) PROVE IInv'
  <2> USE <1>4 DEF IInv, NotFound, Return
  <2>1. TypeOK'
    BY DEF TypeOK
  <2>2. MutexInv'
    BY DEF TypeOK, MutexInv
  <2>3. RequestInv'
    BY DEF TypeOK, RequestInv
  <2>4. ClockInv'
    BY DEF TypeOK, ClockInv
  <2>5. QED
    BY <2>1, <2>2, <2>3, <2>4
<1>5. ASSUME NEW t \in Threads, Found(t) PROVE IInv'
  <2> USE <1>5 DEF IInv, Found
  <2>1. TypeOK'
    BY DEF TypeOK
  <2>2. MutexInv'
    BY DEF TypeOK, MutexInv
  <2>3. RequestInv'
    BY DEF TypeOK, RequestInv
  <2>4. ClockInv'
    BY DEF TypeOK, ClockInv
  <2>5. QED
    BY <2>1, <2>2, <2>3, <2>4
<1>6. ASSUME NEW t \in Threads, ReadClock(t) PROVE IInv'
  <2> USE <1>6 DEF IInv, ReadClock
  <2>1. TypeOK'
    BY DEF TypeOK
  <2>2. MutexInv'
    BY DEF TypeOK, MutexInv
  <2>3. RequestInv'
    BY DEF TypeOK, RequestInv
  <2>4. ClockInv'
    BY DEF TypeOK, MutexInv, ClockInv
  <2>5. QED
    BY <2>1, <2>2, <2>3, <2>4
\* The three calls that write a session; s is what they leave in its place.
<1>7. ASSUME NEW t \in Threads, NEW id \in Ids, NEW s \in Sessions \cup {Absent},
             NEW value \in Pubs \cup {Nullopt},
             pc[t] = "apply", sessions' = [sessions EXCEPT ![id] = s],
             s # Absent => s.last_used = now[t], Return(t, value)
      PROVE  IInv'
  <2> USE <1>7 DEF IInv, Return
  <2>1. TypeOK'
    BY DEF TypeOK
  <2>2. \A u \in Threads : u # t => pc[u] \in {"idle", "lock"} /\ pc'[u] = pc[u]
                                    /\ request'[u] = request[u]
    BY DEF TypeOK, MutexInv
  <2>3. pc'[t] = "idle" /\ request'[t] = None
    BY DEF TypeOK
  <2>4. MutexInv'
    BY <2>2, <2>3 DEF MutexInv
  <2>5. RequestInv'
    BY <2>2, <2>3 DEF RequestInv
  <2>6. \A i \in Ids : sessions'[i] = IF i = id THEN s ELSE sessions[i]
    BY DEF TypeOK
  <2>7. ClockInv'
    BY <2>2, <2>3, <2>6 DEF TypeOK, ClockInv
  <2>8. QED
    BY <2>1, <2>4, <2>5, <2>7
<1>8. ASSUME NEW t \in Threads, Store(t) PROVE IInv'
  <2>1. /\ request[t].id \in Ids /\ request[t].pub \in Pubs /\ now[t] \in Nat
        /\ result[t] \in Pubs \cup {Nullopt}
    BY <1>8 DEF IInv, TypeOK, RequestInv, Store
  <2> DEFINE id == request[t].id
             s == Session(request[t].pub, now[t])
  <2>2. s \in Sessions /\ s.last_used = now[t]
    BY <2>1
  <2>3. sessions' = [sessions EXCEPT ![id] = s] /\ Return(t, result[t]) /\ pc[t] = "apply"
    BY <1>8 DEF Store
  <2> HIDE DEF s
  <2>4. QED
    BY <1>7, <2>1, <2>2, <2>3
<1>9. ASSUME NEW t \in Threads, Evict(t) PROVE IInv'
  <2>1. request[t].id \in Ids
    BY <1>9 DEF IInv, RequestInv, Evict
  <2>2. QED
    BY <1>7, <1>9, <2>1 DEF Evict
<1>10. ASSUME NEW t \in Threads, Touch(t) PROVE IInv'
  <2> DEFINE id == request[t].id
             s == [sessions[id] EXCEPT !.last_used = now[t]]
  <2>1. id \in Ids /\ sessions[id] \in Sessions /\ now[t] \in Nat
    BY <1>10 DEF IInv, TypeOK, RequestInv, Touch
  <2>2. s \in Sessions /\ s.last_used = now[t] /\ sessions[id].pub \in Pubs
    BY <2>1 DEF Sessions
  <2>3. sessions' = [sessions EXCEPT ![id] = s] /\ Return(t, sessions[id].pub) /\ pc[t] = "apply"
    BY <1>10 DEF Touch
  <2> HIDE DEF id, s
  <2>4. QED
    BY <1>7, <2>1, <2>2, <2>3
<1>11. CASE UNCHANGED vars
  BY <1>11 DEF IInv, TypeOK, MutexInv, RequestInv, ClockInv, vars
<1>12. QED
  BY <1>1, <1>2, <1>3, <1>4, <1>5, <1>6, <1>8, <1>9, <1>10, <1>11 DEF Next, Critical

\* The invariant holds: one thread at a time is past the lock, and the times
\* stored are those of calls that are over.
THEOREM InvariantHolds == Spec => []IInv
BY InitInv, NextInv, PTL DEF Spec

\* Every variable keeps its type.
THEOREM TypeCorrect == Spec => []TypeOK
BY InvariantHolds, PTL DEF IInv

\* The time of last use of a session never goes back.
THEOREM LastUsedMonotone == Spec => LastUsedNeverGoesBack
<1> DEFINE Forward == \A id \in Ids : sessions[id] # Absent /\ sessions'[id] # Absent =>
                        sessions[id].last_used <= sessions'[id].last_used
<1>1. IInv /\ [Next]_vars => [Forward]_vars
  <2> SUFFICES ASSUME IInv, [Next]_vars PROVE Forward
    OBVIOUS
  <2> USE StoreAssumption, RequestFacts, SessionFacts
  <2>1. CASE sessions' = sessions
    BY <2>1 DEF IInv, TypeOK
  <2>2. ASSUME NEW t \in Threads, Store(t) PROVE Forward
    <3>1. /\ request[t].id \in Ids /\ request[t].pub \in Pubs /\ now[t] \in Nat
          /\ \A id \in Ids : sessions[id] # Absent => sessions[id].last_used <= now[t]
      BY <2>2 DEF IInv, TypeOK, RequestInv, ClockInv, Store
    <3>2. \A id \in Ids : id # request[t].id => sessions'[id] = sessions[id]
      BY <2>2 DEF IInv, TypeOK, Store
    <3>3. sessions'[request[t].id].last_used = now[t]
      BY <2>2, <3>1 DEF IInv, TypeOK, Store
    <3>4. QED
      BY <3>1, <3>2, <3>3 DEF IInv, TypeOK
  <2>3. ASSUME NEW t \in Threads, Evict(t) PROVE Forward
    BY <2>3 DEF IInv, TypeOK, RequestInv, Evict
  <2>4. ASSUME NEW t \in Threads, Touch(t) PROVE Forward
    <3>1. /\ request[t].id \in Ids /\ sessions[request[t].id] \in Sessions
          /\ now[t] \in Nat
          /\ \A id \in Ids : sessions[id] # Absent => sessions[id].last_used <= now[t]
      BY <2>4 DEF IInv, TypeOK, RequestInv, ClockInv, Touch
    <3>2. \A id \in Ids : id # request[t].id => sessions'[id] = sessions[id]
      BY <2>4 DEF IInv, TypeOK, Touch
    <3>3. sessions'[request[t].id].last_used = now[t]
      BY <2>4, <3>1 DEF IInv, TypeOK, Touch, Sessions
    <3>4. QED
      BY <3>1, <3>2, <3>3 DEF IInv, TypeOK
  <2>5. QED
    BY <2>1, <2>2, <2>3, <2>4 DEF Next, Critical, Tick, Call, Lock, NotFound, Found, ReadClock, vars
<1>2. QED
  BY <1>1, InvariantHolds, PTL DEF Spec, LastUsedNeverGoesBack

----------------------------------------------------------------------------
(* Refinement.  A call takes effect when it reads the clock, so the only   *)
(* steps the caller can tell apart are Tick, Call, NotFound and ReadClock. *)

\* At most one call has read the clock.
AtApply(t) ==
  \A id \in Ids : Settled(id) = IF request[t].id = id THEN Outcome(t) ELSE sessions[id]

SettledIs ==
  /\ (\A t \in Threads : pc[t] # "apply") => \A id \in Ids : Settled(id) = sessions[id]
  /\ \A t \in Threads : pc[t] = "apply" => AtApply(t)

\* The call that has read the clock decides its id's session, no other's.
LEMMA SettledFacts == IInv => SettledIs
<1> SUFFICES ASSUME IInv PROVE SettledIs
  OBVIOUS
<1>1. \A t, u \in Threads : pc[t] = "apply" /\ pc[u] = "apply" => t = u
  BY DEF IInv, MutexInv
<1>2. QED
  BY <1>1 DEF Settled, SettledIs, AtApply

\* A settled session is a session.
LEMMA SettledType ==
  ASSUME IInv, NEW id \in Ids
  PROVE  Settled(id) \in Sessions \cup {Absent}
<1>1. \A t \in Threads : pc[t] = "apply" => Outcome(t) \in Sessions \cup {Absent}
  <2> SUFFICES ASSUME NEW t \in Threads, pc[t] = "apply"
               PROVE  Outcome(t) \in Sessions \cup {Absent}
    OBVIOUS
  <2>1. /\ request[t] \in Requests /\ now[t] \in Nat
        /\ (request[t].op = "lookup") => (sessions[request[t].id] \in Sessions)
    BY RequestFacts DEF IInv, TypeOK, RequestInv
  <2>2. CASE request[t].op = "register"
    <3>1. Outcome(t) = Session(request[t].pub, now[t])
      BY <2>2 DEF Outcome
    <3>2. QED
      BY <2>1, <2>2, <3>1, RequestFacts, SessionFacts
  <2>3. CASE request[t].op = "lookup"
    <3>1. Session(sessions[request[t].id].pub, now[t]) \in Sessions
      BY <2>1, <2>3, SessionFacts
    <3>2. QED
      BY <2>3, <3>1 DEF Outcome
  <2>4. QED
    BY <2>1, <2>2, <2>3, RequestFacts
<1>2. QED
  BY <1>1, SettledFacts DEF IInv, TypeOK, SettledIs, AtApply

\* A session is live up to its time of last use plus Ttl.
LEMMA LiveFacts ==
  ASSUME NEW s \in Sessions \cup {Absent}, NEW time \in Nat
  PROVE  /\ s = Absent => LiveAt(s, time) = Absent
         /\ s # Absent /\ time <= s.last_used + Ttl =>
              LiveAt(s, time) = [pub |-> s.pub, until |-> s.last_used + Ttl]
         /\ s # Absent /\ ~ (time <= s.last_used + Ttl) => LiveAt(s, time) = Absent
         /\ LiveAt(s, time) # Absent =>
              /\ s # Absent /\ time <= s.last_used + Ttl
              /\ LiveAt(s, time).pub = s.pub /\ LiveAt(s, time).until = s.last_used + Ttl
<1>1. s # Absent => s \in Sessions /\ (Expired(s, time) <=> ~ (time <= s.last_used + Ttl))
  BY StoreAssumption, SessionFacts DEF Expired
<1>2. s # Absent => [pub |-> s.pub, until |-> s.last_used + Ttl] # Absent
  BY StoreAssumption, SessionFacts DEF Sessions
<1>3. QED
  BY <1>1, <1>2 DEF LiveAt

\* The empty store maps to the empty abstract store.
LEMMA InitRefines == Init => Abs!Init
<1> SUFFICES ASSUME Init PROVE Abs!Init
  OBVIOUS
<1>1. \A id \in Ids : Settled(id) = Absent
  BY DEF Init, Settled
<1>2. Live = [id \in Ids |-> Absent]
  BY <1>1 DEF Live, LiveAt
<1>3. Waiting = [t \in Threads |-> None] /\ Answer = [t \in Threads |-> Nullopt]
  BY DEF Init, Waiting, Answer
<1>4. QED
  BY <1>2, <1>3 DEF Init, Abs!Init, Abs!None, None

\* A step that changes no settled session, no waiting request and no answer.
LEMMA Stutters ==
  ASSUME clock' = clock, \A id \in Ids : Settled(id)' = Settled(id),
         \A t \in Threads : Waiting'[t] = Waiting[t] /\ Answer'[t] = Answer[t]
  PROVE  UNCHANGED Abs!vars
<1>1. Live' = Live
  BY DEF Live
<1>2. Waiting' = Waiting /\ Answer' = Answer
  BY DEF Waiting, Answer
<1>3. QED
  BY <1>1, <1>2 DEF Abs!vars

\* When the clock advances, exactly the sessions past their time vanish.
LEMMA TickRefines == IInv /\ IInv' /\ Tick => Abs!Tick
<1> SUFFICES ASSUME IInv, IInv', Tick PROVE Abs!Tick
  OBVIOUS
<1>1. Waiting' = Waiting /\ Answer' = Answer
  BY DEF Tick, Waiting, Answer
<1>2. \A id \in Ids : Settled(id)' = Settled(id) /\ Settled(id) \in Sessions \cup {Absent}
  BY SettledType DEF Tick, Settled, Outcome
<1>3. ASSUME NEW id \in Ids
      PROVE  LiveAt(Settled(id), clock + 1) =
               IF LiveAt(Settled(id), clock) # Absent
                  /\ clock + 1 <= LiveAt(Settled(id), clock).until
               THEN LiveAt(Settled(id), clock) ELSE Absent
  <2> DEFINE s == Settled(id)
  <2>1. s \in Sessions \cup {Absent} /\ clock \in Nat /\ clock + 1 \in Nat /\ Ttl \in Nat
        /\ (s # Absent => s.last_used \in Nat)
    BY <1>2, StoreAssumption, SessionFacts DEF IInv, TypeOK
  <2> HIDE DEF s
  <2>2. CASE s = Absent
    BY <2>1, <2>2, LiveFacts DEF s
  <2>3. CASE s # Absent /\ clock + 1 <= s.last_used + Ttl
    <3>1. clock <= s.last_used + Ttl
      BY <2>1, <2>3
    <3>2. LiveAt(s, clock + 1) = LiveAt(s, clock)
      BY <2>1, <2>3, <3>1, LiveFacts
    <3>3. LiveAt(s, clock) # Absent /\ LiveAt(s, clock).until = s.last_used + Ttl
      BY <2>1, <2>3, <3>1, LiveFacts, StoreAssumption, SessionFacts DEF Sessions
    <3>4. QED
      BY <2>3, <3>2, <3>3 DEF s
  <2>4. CASE s # Absent /\ ~ (clock + 1 <= s.last_used + Ttl)
    <3>1. LiveAt(s, clock + 1) = Absent
      BY <2>1, <2>4, LiveFacts
    <3>2. LiveAt(s, clock) # Absent => LiveAt(s, clock).until = s.last_used + Ttl
      BY <2>1, LiveFacts
    <3>3. QED
      BY <2>4, <3>1, <3>2 DEF s
  <2>5. QED
    BY <2>2, <2>3, <2>4
<1>4. Live' = [id \in Ids |-> IF Live[id] # Absent /\ clock + 1 <= Live[id].until
                              THEN Live[id] ELSE Absent]
  BY <1>2, <1>3 DEF Tick, Live
<1>5. QED
  BY <1>1, <1>4 DEF Tick, Abs!Tick

\* A step that leaves the sessions and the call that has read the clock alone.
LEMMA SettledStays ==
  ASSUME SettledIs, SettledIs', sessions' = sessions,
         \A u \in Threads : (pc'[u] = "apply") <=> (pc[u] = "apply"),
         \A u \in Threads : pc[u] = "apply" => request'[u] = request[u] /\ now'[u] = now[u]
  PROVE  \A id \in Ids : Settled(id)' = Settled(id)
<1>1. CASE \A u \in Threads : pc[u] # "apply"
  BY <1>1 DEF SettledIs
<1>2. ASSUME NEW u \in Threads, pc[u] = "apply"
      PROVE  \A id \in Ids : Settled(id)' = Settled(id)
  <2>1. request'[u] = request[u] /\ now'[u] = now[u] /\ pc'[u] = "apply"
    BY <1>2
  <2>2. Outcome(u)' = Outcome(u)
    BY <2>1 DEF Outcome
  <2>3. AtApply(u) /\ AtApply(u)'
    BY <1>2, <2>1 DEF SettledIs
  <2>4. QED
    BY <2>1, <2>2, <2>3 DEF AtApply
<1>3. QED
  BY <1>1, <1>2

\* A call of the store is a call of the abstract store.
LEMMA CallRefines ==
  ASSUME IInv, SettledIs, SettledIs', NEW t \in Threads, NEW r \in Requests, Call(t, r)
  PROVE  Abs!Call(t, r)
<1>1. \A u \in Threads : (pc'[u] = "apply") <=> (pc[u] = "apply")
  BY DEF Call, IInv, TypeOK
<1>2. \A u \in Threads : pc[u] = "apply" => request'[u] = request[u] /\ now'[u] = now[u]
  BY DEF Call, IInv, TypeOK
<1>3. \A id \in Ids : Settled(id)' = Settled(id)
  BY <1>1, <1>2, SettledStays DEF Call
<1>4. Live' = Live
  BY <1>3 DEF Call, Live
<1>5. Answer' = Answer
  BY <1>1, <1>2 DEF Call, Answer, IInv, TypeOK
<1>6. Waiting[t] = None /\ Waiting' = [Waiting EXCEPT ![t] = r]
  BY <1>1 DEF Call, Waiting, IInv, TypeOK, RequestInv
<1>7. QED
  BY <1>4, <1>5, <1>6 DEF Call, Abs!Call, Abs!None, None

\* Taking the lock and finding a session cannot be told apart from waiting.
LEMMA LockRefines ==
  ASSUME IInv, SettledIs, SettledIs', NEW t \in Threads, Lock(t) \/ Found(t)
  PROVE  UNCHANGED Abs!vars
<1>1. \A u \in Threads : (pc'[u] = "apply") <=> (pc[u] = "apply")
  BY DEF Lock, Found, FirstStep, IInv, TypeOK
<1>2. request' = request /\ now' = now /\ sessions' = sessions /\ clock' = clock
      /\ result' = result
  BY DEF Lock, Found
<1>3. \A id \in Ids : Settled(id)' = Settled(id)
  BY <1>1, <1>2, SettledStays
<1>4. \A u \in Threads : Waiting'[u] = Waiting[u] /\ Answer'[u] = Answer[u]
  BY <1>1, <1>2 DEF Waiting, Answer
<1>5. QED
  BY <1>2, <1>3, <1>4, Stutters

\* A lookup that finds no entry is an abstract lookup of no session.
LEMMA NotFoundRefines ==
  ASSUME IInv, SettledIs, SettledIs', NEW t \in Threads, NotFound(t)
  PROVE  Abs!DoLookup(t)
<1> USE StoreAssumption, RequestFacts
<1>1. \A u \in Threads : pc[u] # "apply" /\ pc'[u] # "apply"
  BY DEF NotFound, Return, IInv, TypeOK, MutexInv
<1>2. \A id \in Ids : Settled(id)' = sessions[id] /\ Settled(id) = sessions[id]
  BY <1>1 DEF SettledIs, NotFound
<1>3. Live' = Live
  BY <1>2 DEF NotFound, Return, Live
<1>4. request[t].op = "lookup" /\ request[t].id \in Ids /\ sessions[request[t].id] = Absent
  BY DEF NotFound, IInv, TypeOK, RequestInv
<1>5. Live[request[t].id] = Absent
  BY <1>2, <1>4 DEF Live, LiveAt
<1>6. Waiting[t] = request[t] /\ Waiting' = [Waiting EXCEPT ![t] = None]
  BY <1>1 DEF NotFound, Return, Waiting, IInv, TypeOK
<1>7. Answer' = [Answer EXCEPT ![t] = Nullopt]
  BY <1>1 DEF NotFound, Return, Answer, IInv, TypeOK
<1>8. QED
  BY <1>3, <1>4, <1>5, <1>6, <1>7 DEF NotFound, Return, Abs!DoLookup, Abs!None, None

\* Reading the clock is where a call that goes on takes effect.
LEMMA ReadClockRefines ==
  ASSUME IInv, SettledIs, SettledIs', NEW t \in Threads, ReadClock(t)
  PROVE  Abs!DoRegister(t) \/ Abs!DoLookup(t)
<1> USE StoreAssumption, RequestFacts, SessionFacts
<1> DEFINE id == request[t].id
<1>1. \A u \in Threads : pc[u] # "apply" /\ (pc'[u] = "apply" <=> u = t)
  BY DEF ReadClock, IInv, TypeOK, MutexInv
<1>2. \A i \in Ids : Settled(i) = sessions[i]
                     /\ Settled(i)' = IF i = id THEN Outcome(t)' ELSE sessions[i]
  BY <1>1 DEF SettledIs, AtApply, ReadClock
<1>3. /\ id \in Ids /\ request[t] \in Requests /\ request' = request /\ now'[t] = clock
      /\ clock' = clock /\ clock \in Nat /\ result' = result /\ sessions' = sessions
      /\ (request[t].op = "lookup") => (sessions[id] \in Sessions)
      /\ clock <= clock + Ttl /\ clock + Ttl \in Nat
  BY DEF ReadClock, IInv, TypeOK, RequestInv
<1>4. Waiting[t] = request[t] /\ Waiting' = [Waiting EXCEPT ![t] = None]
  <2>1. \A u \in Threads : Waiting'[u] = IF u = t THEN None ELSE Waiting[u]
    BY <1>1, <1>3 DEF Waiting
  <2>2. Waiting[t] = request[t]
    BY <1>1 DEF Waiting
  <2>3. QED
    BY <2>1, <2>2 DEF Waiting
<1>5. \A pub \in Pubs : LiveAt(Session(pub, clock), clock) = [pub |-> pub, until |-> clock + Ttl]
  BY <1>3, LiveFacts
<1>6. Live' = [Live EXCEPT ![id] = LiveAt(Outcome(t)', clock)]
  <2>1. \A i \in Ids : Live'[i] = IF i = id THEN LiveAt(Outcome(t)', clock) ELSE Live[i]
    BY <1>2, <1>3 DEF Live
  <2>2. Live = [i \in Ids |-> Live[i]] /\ Live' = [i \in Ids |-> Live'[i]]
    BY DEF Live
  <2>3. QED
    BY <2>1, <2>2
<1>7. CASE request[t].op = "register"
  <2>1. Outcome(t)' = Session(request[t].pub, clock)
    BY <1>3, <1>7 DEF Outcome
  <2>2. LiveAt(Outcome(t)', clock) = [pub |-> request[t].pub, until |-> clock + Ttl]
    BY <1>3, <1>5, <1>7, <2>1
  <2>3. Answer' = Answer
    BY <1>1, <1>3, <1>7 DEF Answer
  <2>4. QED
    BY <1>3, <1>4, <1>6, <1>7, <2>2, <2>3 DEF Abs!DoRegister, Abs!None, None, Abs!Fresh
<1>8. CASE request[t].op = "lookup"
  <2>1. Answer' = [Answer EXCEPT ![t] = IF Expired(sessions[id], clock) THEN Nullopt
                                        ELSE sessions[id].pub]
    <3>1. Answer'[t] = IF Expired(sessions[id], clock) THEN Nullopt ELSE sessions[id].pub
      BY <1>1, <1>3, <1>8 DEF Answer
    <3>2. \A u \in Threads : u # t => Answer'[u] = Answer[u]
      BY <1>1, <1>3 DEF Answer
    <3>3. Answer = [u \in Threads |-> Answer[u]] /\ Answer' = [u \in Threads |-> Answer'[u]]
      BY DEF Answer
    <3>4. QED
      BY <3>1, <3>2, <3>3
  <2>2. Live[id] = LiveAt(sessions[id], clock)
    BY <1>2, <1>3 DEF Live
  <2>3. CASE Expired(sessions[id], clock)
    <3>1. Live[id] = Absent
      BY <2>2, <2>3 DEF LiveAt
    <3>2. Outcome(t)' = Absent
      BY <1>3, <1>8, <2>3 DEF Outcome
    <3>3. Live' = [Live EXCEPT ![id] = Absent]
      BY <1>6, <3>2 DEF LiveAt
    <3>4. Live' = Live
      BY <3>1, <3>3 DEF Live
    <3>5. QED
      BY <1>3, <1>4, <1>8, <2>1, <2>3, <3>1, <3>4 DEF Abs!DoLookup, Abs!None, None
  <2>4. CASE ~ Expired(sessions[id], clock)
    <3>1. Live[id] = [pub |-> sessions[id].pub, until |-> sessions[id].last_used + Ttl]
      BY <1>3, <1>8, <2>2, <2>4 DEF LiveAt
    <3>2. Live[id] # Absent /\ Live[id].pub = sessions[id].pub /\ sessions[id].pub \in Pubs
      BY <1>3, <1>8, <3>1
    <3>3. Outcome(t)' = Session(sessions[id].pub, clock)
      BY <1>3, <1>8, <2>4 DEF Outcome
    <3>4. LiveAt(Outcome(t)', clock) = [pub |-> sessions[id].pub, until |-> clock + Ttl]
      BY <1>5, <3>2, <3>3
    <3>5. QED
      BY <1>3, <1>4, <1>6, <1>8, <2>1, <2>4, <3>2, <3>4
      DEF Abs!DoLookup, Abs!None, None, Abs!Fresh
  <2>5. QED
    BY <2>3, <2>4
<1>9. QED
  BY <1>3, <1>7, <1>8

\* The calls' last steps: the abstract call has been over since the clock was read.
LEMMA ReturnRefines ==
  ASSUME IInv, SettledIs, SettledIs', NEW t \in Threads, Store(t) \/ Evict(t) \/ Touch(t)
  PROVE  UNCHANGED Abs!vars
<1> USE StoreAssumption, RequestFacts, SessionFacts
<1> DEFINE id == request[t].id
<1>1. \A u \in Threads : (pc[u] = "apply" <=> u = t) /\ pc'[u] # "apply"
  BY DEF Store, Evict, Touch, Return, IInv, TypeOK, MutexInv
<1>2. \A i \in Ids : Settled(i) = (IF i = id THEN Outcome(t) ELSE sessions[i])
                     /\ Settled(i)' = sessions'[i]
  BY <1>1 DEF SettledIs, AtApply
<1>3. /\ id \in Ids /\ request[t] \in Requests /\ now[t] \in Nat
      /\ (request[t].op = "lookup") => (sessions[id] \in Sessions)
  BY <1>1 DEF IInv, TypeOK, RequestInv
<1>4. sessions' = [sessions EXCEPT ![id] = Outcome(t)]
  <2>1. CASE Store(t)
    BY <2>1 DEF Store, Outcome
  <2>2. CASE Evict(t)
    BY <2>2 DEF Evict, Outcome
  <2>3. CASE Touch(t)
    <3>1. [sessions[id] EXCEPT !.last_used = now[t]] = Session(sessions[id].pub, now[t])
      BY <1>3, <2>3 DEF Touch, Sessions, Session
    <3>2. QED
      BY <2>3, <3>1 DEF Touch, Outcome
  <2>4. QED
    BY <2>1, <2>2, <2>3
<1>5. \A i \in Ids : Settled(i)' = Settled(i)
  BY <1>2, <1>4 DEF IInv, TypeOK
<1>6. \A u \in Threads : Waiting'[u] = Waiting[u]
  BY <1>1 DEF Waiting, Store, Evict, Touch, Return, IInv, TypeOK
<1>7. \A u \in Threads : Answer'[u] = Answer[u]
  BY <1>1, <1>3 DEF Answer, Store, Evict, Touch, Return, IInv, TypeOK
<1>8. clock' = clock
  BY DEF Store, Evict, Touch, Return
<1>9. QED
  BY <1>5, <1>6, <1>7, <1>8, Stutters

\* The store implements SessionStoreAbs.
THEOREM Refinement == Spec => ImplementsAbs
<1>1. IInv /\ IInv' /\ SettledIs /\ SettledIs' /\ [Next]_vars => [Abs!Next]_(Abs!vars)
  <2> SUFFICES ASSUME IInv, IInv', SettledIs, SettledIs', [Next]_vars
               PROVE  Abs!Next \/ UNCHANGED Abs!vars
    OBVIOUS
  <2>1. CASE Tick
    BY <2>1, TickRefines DEF Abs!Next
  <2>2. ASSUME NEW t \in Threads, NEW r \in Requests, Call(t, r) PROVE Abs!Next
    <3>1. r \in Abs!Requests
      BY DEF Requests, Register, Lookup, Abs!Requests, Abs!Register, Abs!Lookup
    <3>2. QED
      BY <2>2, <3>1, CallRefines DEF Abs!Next
  <2>3. ASSUME NEW t \in Threads, Lock(t) PROVE UNCHANGED Abs!vars
    BY <2>3, LockRefines
  <2>4. ASSUME NEW t \in Threads, Critical(t) PROVE Abs!Next \/ UNCHANGED Abs!vars
    <3>1. CASE NotFound(t)
      BY <3>1, NotFoundRefines DEF Abs!Next
    <3>2. CASE Found(t)
      BY <3>2, LockRefines
    <3>3. CASE ReadClock(t)
      BY <3>3, ReadClockRefines DEF Abs!Next
    <3>4. CASE Store(t) \/ Evict(t) \/ Touch(t)
      BY <3>4, ReturnRefines
    <3>5. QED
      BY <2>4, <3>1, <3>2, <3>3, <3>4 DEF Critical
  <2>5. CASE UNCHANGED vars
    BY <2>5 DEF vars, Abs!vars, Live, Waiting, Answer, Settled, Outcome
  <2>6. QED
    BY <2>1, <2>2, <2>3, <2>4, <2>5 DEF Next
<1>2. QED
  BY <1>1, InitRefines, InvariantHolds, SettledFacts, PTL DEF Spec, ImplementsAbs, Abs!Spec
=============================================================================
