----------------------------- MODULE Transport -----------------------------
(***************************************************************************)
(* One connection at the level of send() and recv(): the client sends its  *)
(* request and receives, the server receives and sends its response, each  *)
(* call moving as many bytes as the kernel likes. A frame is a type byte,  *)
(* LenBytes bytes of length and the payload, sent and received part by     *)
(* part. Either process may close its end at any time.                     *)
(***************************************************************************)
EXTENDS Integers, Sequences, FiniteSets, SequencesExt

CONSTANTS
  Client, Server,
  Messages,   \* records [type, payload] of what may be sent
  Base,       \* values of a byte
  LenBytes,   \* bytes of the length field
  Capacity,   \* bytes a direction of the connection holds
  Nothing

Ends == {Client, Server}
Bytes == 0 .. Base - 1

\* Base ^ k, as a recursive function for the proofs.
Power(k) == LET power[i \in 0 .. k] == IF i = 0 THEN 1 ELSE Base * power[i - 1] IN power[k]
LenMod == Power(LenBytes)

\* A payload that is longer than the length field can say is sent with a wrong
\* length; the program's messages are shorter, and nothing checks it.
ASSUME TransportAssumption ==
  /\ Client # Server /\ Nothing \notin Messages
  /\ Base \in Nat \ {0, 1} /\ {LenBytes, Capacity} \subseteq Nat \ {0}
  /\ \A m \in Messages : m \in [type : Bytes, payload : Seq(Bytes)] /\ Len(m.payload) < LenMod

VARIABLES
  out,       \* the message each end sends
  got,       \* what recv_message returned to it
  pc,        \* the call it is in: "send", "recv", or "done", "failed"
  part,      \* the part of the frame: 1 type, 2 length, 3 payload
  moved,     \* sent or received in that part
  frame,     \* the parts read so far
  stream,    \* bytes on their way to an end
  closed     \* whether the process has closed its end

vars == <<out, got, pc, part, moved, frame, stream, closed>>

Peer(e) == IF e = Client THEN Server ELSE Client
Over(e) == pc[e] \in {"done", "failed"}

Init ==
  /\ out \in [Ends -> Messages]
  /\ got = [e \in Ends |-> Nothing]
  /\ pc = [e \in Ends |-> IF e = Client THEN "send" ELSE "recv"]
  /\ part = [e \in Ends |-> 1] /\ moved = [e \in Ends |-> 0]
  /\ frame = [e \in Ends |-> <<<<>>, <<>>, <<>>>>]
  /\ stream = [e \in Ends |-> <<>>]
  /\ closed = [e \in Ends |-> FALSE]

----------------------------------------------------------------------------
(* Frames. *)

\* static_cast<uint32_t>(size), byte by byte.
Len32(size) == [i \in 1 .. LenBytes |-> ((size % LenMod) \div Power(i - 1)) % Base]
\* Mutant: the receiver takes the length for big-endian.
Value_Reversed(bytes) ==
  LET value[i \in 0 .. LenBytes] == IF i = 0 THEN 0 ELSE value[i - 1] * Base + bytes[i]
  IN value[LenBytes]
Value(bytes) ==
  LET value[i \in 0 .. LenBytes] == IF i = 0 THEN 0 ELSE value[i - 1] + bytes[i] * Power(i - 1)
  IN value[LenBytes]

Parts(m) == <<<<m.type>>, Len32(Len(m.payload)), m.payload>>

\* Bytes of the part being received.
Expected(e) == <<1, LenBytes, IF part[e] = 3 THEN Value(frame[e][2]) ELSE 0>>[part[e]]

----------------------------------------------------------------------------
(* send_message: send_all on each part. *)

Current(e) == Parts(out[e])[part[e]]

\* What follows the last byte of a part: an empty payload is not sent.
NextCall(e) == IF e = Client THEN "recv" ELSE "done"
SentPart(e, size) ==
  IF size < Len(Current(e)) THEN
    /\ moved' = [moved EXCEPT ![e] = size] /\ UNCHANGED <<pc, part>>
  ELSE IF part[e] = 3 \/ (part[e] = 2 /\ out[e].payload = <<>>) THEN
    /\ pc' = [pc EXCEPT ![e] = NextCall(e)]
    /\ part' = [part EXCEPT ![e] = 1] /\ moved' = [moved EXCEPT ![e] = 0]
  ELSE
    /\ part' = [part EXCEPT ![e] = @ + 1] /\ moved' = [moved EXCEPT ![e] = 0]
    /\ UNCHANGED pc

\* send() takes some of the bytes, and blocks while the connection is full. The
\* kernel may still take bytes for a peer that has closed.
Send(e) ==
  /\ pc[e] = "send"
  /\ \E n \in 1 .. Len(Current(e)) - moved[e] :
       /\ Len(stream[Peer(e)]) + n <= Capacity
       /\ stream' = [stream EXCEPT ![Peer(e)] =
            @ \o SubSeq(Current(e), moved[e] + 1, moved[e] + n)]
       /\ SentPart(e, moved[e] + n)
  /\ UNCHANGED <<out, got, frame, closed>>

\* send() fails once the close is noticed: the call throws, or SIGPIPE ends the
\* process.
SendFails(e) ==
  /\ pc[e] = "send" /\ closed[Peer(e)]
  /\ pc' = [pc EXCEPT ![e] = "failed"]
  /\ UNCHANGED <<out, got, part, moved, frame, stream, closed>>

----------------------------------------------------------------------------
(* recv_message: recv_all on each part. *)

ReadSoFar(e, n) == [frame[e] EXCEPT ![part[e]] = @ \o SubSeq(stream[e], 1, n)]

\* The frame is complete with its length if that is 0, and with its payload.
ReceivedPart(e, f) ==
  IF Len(f[part[e]]) < Expected(e) THEN UNCHANGED <<pc, part, moved, got>>
  ELSE IF part[e] = 3 \/ (part[e] = 2 /\ Value(f[2]) = 0) THEN
    /\ got' = [got EXCEPT ![e] = [type |-> f[1][1], payload |-> f[3]]]
    /\ pc' = [pc EXCEPT ![e] = IF e = Server THEN "send" ELSE "done"]
    /\ part' = [part EXCEPT ![e] = 1] /\ UNCHANGED moved
  ELSE
    /\ part' = [part EXCEPT ![e] = @ + 1] /\ UNCHANGED <<pc, moved, got>>

\* recv() returns some of the bytes that have arrived, at most what is missing.
Recv(e) ==
  /\ pc[e] = "recv" /\ stream[e] # <<>>
  /\ \E n \in 1 .. Len(stream[e]) :
       /\ Len(frame[e][part[e]]) + n <= Expected(e)
       /\ LET f == ReadSoFar(e, n)
          IN /\ frame' = [frame EXCEPT ![e] = f]
             /\ stream' = [stream EXCEPT ![e] = SubSeq(@, n + 1, Len(@))]
             /\ ReceivedPart(e, f)
  /\ UNCHANGED <<out, closed>>

\* Mutant: recv() returning 0 is taken for a short read, and tried again.
RecvFails_ReadsOn(e) == pc[e] = "recv" /\ closed[Peer(e)] /\ UNCHANGED vars

\* recv() returns 0 after a close, or an error if the close was a reset, which
\* loses what had arrived.
RecvFails(e) ==
  /\ pc[e] = "recv" /\ closed[Peer(e)]
  /\ stream[e] = <<>> \/ stream[Peer(e)] # <<>>
  /\ pc' = [pc EXCEPT ![e] = "failed"]
  /\ UNCHANGED <<out, got, part, moved, frame, stream, closed>>

----------------------------------------------------------------------------
\* The Socket is destroyed with the call over, or with its process.
Close(e) ==
  /\ ~closed[e]
  /\ closed' = [closed EXCEPT ![e] = TRUE]
  /\ pc' = [pc EXCEPT ![e] = IF Over(e) THEN @ ELSE "failed"]
  /\ UNCHANGED <<out, got, part, moved, frame, stream>>

End(e) == Send(e) \/ SendFails(e) \/ Recv(e) \/ RecvFails(e)
Next == \E e \in Ends : End(e) \/ Close(e)
Spec == Init /\ [][Next]_vars

\* The kernel moves bytes for whoever waits, and a finished call ends with the
\* destructor; a process need not close early.
FairSpec == Spec /\ \A e \in Ends : WF_vars(End(e)) /\ WF_vars(Over(e) /\ Close(e))

----------------------------------------------------------------------------
(* Properties. *)

\* Every variable keeps its type.
\* (Checked as a part of ImplementsExchange.)
TypeOK ==
  /\ out \in [Ends -> Messages] /\ closed \in [Ends -> BOOLEAN]
  /\ pc \in [Ends -> {"send", "recv", "done", "failed"}]
  /\ part \in [Ends -> 1 .. 3] /\ moved \in [Ends -> Nat]
  /\ \A e \in Ends : Len(stream[e]) <= Capacity /\ Len(frame[e][1]) <= 1 /\ Len(frame[e][2]) <= LenBytes

\* Bytes neither disappear nor change places, in whatever pieces they move: what
\* an end has read, followed by what is on its way to it, begins its peer's frame,
\* and is all of it once the peer's send_message has returned.
InStep ==
  \A e \in Ends :
    LET sent == FlattenSeq(Parts(out[Peer(e)]))
        read == FlattenSeq(frame[e]) \o stream[e]
    IN /\ Len(read) <= Len(sent) /\ read = SubSeq(sent, 1, Len(read))
       /\ pc[Peer(e)] = "done" \/ (e = Server /\ pc[Client] = "recv") => read = sent

\* The calls of the two ends implement an exchange of whole messages, because the
\* bytes stay in step.
Exchange == INSTANCE ExchangeAbs
  WITH state <- [e \in Ends |-> IF Over(e) THEN pc[e] ELSE "open"]
ImplementsExchange == [](TypeOK /\ InStep) /\ Exchange!Spec

\* Both ends return, and unless one closes early both have the other's message.
ExchangeCompletes ==
  /\ <>(\A e \in Ends : Over(e))
  /\ (\A e \in Ends : [](closed[e] => pc[e] = "done")) =>
       <>(\A e \in Ends : got[e] = out[Peer(e)])
=============================================================================
