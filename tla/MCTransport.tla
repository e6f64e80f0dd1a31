---------------------------- MODULE MCTransport ----------------------------
(* Payloads of no byte and up to the longest that the length field can hold.  *)
EXTENDS Transport

Payload(len) == [i \in 1 .. len |-> (i + 1) % 2]
Message(type, len) == [type |-> type, payload |-> Payload(len)]
MCMessages == {Message(0, 3), Message(1, 0), Message(1, 2)}
=============================================================================
