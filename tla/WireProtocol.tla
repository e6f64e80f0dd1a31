---------------------------- MODULE WireProtocol ----------------------------
(***************************************************************************)
(* The fixed-width wire format: counted vectors written into a buffer and  *)
(* read back by a cursor that throws when the buffer ends too soon.        *)
(*                                                                         *)
(* A cell stands for four bytes: a uint32_t is one cell, an int64_t two,   *)
(* a seed or a session id SeedCells. A message is the tuple of its fields, *)
(* in the order of Layout; between the two ends the buffer may lose its    *)
(* tail, gain one, or be replaced.                                         *)
(***************************************************************************)
EXTENDS Integers, Sequences, SequencesExt

CONSTANTS
  Width,             \* values of a cell
  SeedCells,         \* cells of a seed and of a session id
  RingSizes,         \* n, at either end
  WireMessages(_,_), \* the messages of a kind, for a ring size
  Buffers            \* buffers no serializer made

Cells == 0 .. Width - 1
Int64 == -((Width * Width) \div 2) .. ((Width * Width - 1) \div 2)

\* The types of the fields.
Seeds == [1 .. SeedCells -> Cells]
Vec == Seq(Int64)
VecVec == Seq(Vec)
VecVecVec == Seq(VecVec)
Ciphertexts == [a : Vec, b : Vec]

\* The fields of each struct, in the order in which they are written.
QueryFields == <<"seeds", "vec_vec", "vec_vec">>
KeyFields == <<"bytes", "vec_vec_vec", "vec_vec">>
Layout == [query |-> QueryFields, keys |-> KeyFields, response |-> <<"ciphertexts">>,
           query_message |-> <<"bytes">> \o QueryFields,
           registration |-> <<"bytes">> \o KeyFields]
Kinds == DOMAIN Layout

\* A vector whose length does not fit its count field is written with a wrong
\* count; the program's are shorter, and nothing checks it.
Counted(S) == {items \in Seq(S) : Len(items) < Width}

\* The values of a field, between ends whose ring size is n.
FieldValues(field, n) ==
  CASE field = "bytes" -> Seeds
    [] field = "seeds" -> Counted(Seeds)
    [] field = "vec_vec" -> Counted(Counted(Int64))
    [] field = "vec_vec_vec" -> Counted(Counted(Counted(Int64)))
    [] field = "ciphertexts" -> Counted([a : [1 .. n -> Int64], b : [1 .. n -> Int64]])

ASSUME WireAssumption ==
  /\ Width \in Nat \ {0, 1} /\ SeedCells \in Nat \ {0} /\ RingSizes \subseteq Nat \ {0}
  /\ Buffers \subseteq Seq(Cells)
  /\ \A k \in Kinds, n \in RingSizes : \A m \in WireMessages(k, n) :
       /\ m = [i \in DOMAIN Layout[k] |-> m[i]]
       /\ \A i \in DOMAIN m : m[i] \in FieldValues(Layout[k][i], n)

VARIABLES kind, msg, sentBy, ring, buf, damage, result
wire_vars == <<kind, msg, sentBy, ring, buf, damage, result>>

----------------------------------------------------------------------------
(* Writing. A writer is a function from values to cells. *)

\* Mutant: the value passes through an int32_t.
WriteI64_Narrow == [v \in Int64 |-> <<v % Width, IF v < 0 THEN Width - 1 ELSE 0>>]
\* Two's complement, low half first.
WriteI64 == [v \in Int64 |-> <<v % Width, (v \div Width) % Width>>]

WriteEach(write, items) == FlattenSeq([i \in DOMAIN items |-> write[items[i]]])
WriteCounted(write, items) == <<Len(items) % Width>> \o WriteEach(write, items)
WriteBytes == [bytes \in Seeds |-> bytes]
WriteVec == [vec \in Vec |-> WriteCounted(WriteI64, vec)]
WriteVecVec == [vec \in VecVec |-> WriteCounted(WriteVec, vec)]
WriteVecVecVec == [vec \in VecVecVec |-> WriteCounted(WriteVecVec, vec)]
WriteCiphertext == [ct \in Ciphertexts |-> WriteEach(WriteI64, ct.a) \o WriteEach(WriteI64, ct.b)]

Write(field, value) ==
  CASE field = "bytes" -> WriteBytes[value]
    [] field = "seeds" -> WriteCounted(WriteBytes, value)
    [] field = "vec_vec" -> WriteVecVec[value]
    [] field = "vec_vec_vec" -> WriteVecVecVec[value]
    [] field = "ciphertexts" -> WriteCounted(WriteCiphertext, value)

Serialize(k, m) == FlattenSeq([i \in DOMAIN m |-> Write(Layout[k][i], m[i])])

----------------------------------------------------------------------------
(* Reading. A reader is a function from the cursor to the cursor after it and *)
(* the value read.                                                           *)

Threw == [at |-> -1, value |-> <<>>]
Failed(r) == r.at = -1

\* Mutant: the test is off by one cell.
Require_OneShort(at, len) == at + len <= Len(buf) + 1
Require(at, len) == at + len <= Len(buf)

Cell(i) == IF i \in DOMAIN buf THEN buf[i] ELSE 0  \* memory past the end

ReadCells(len, at) ==
  IF Require(at, len)
  THEN [at |-> at + len, value |-> [i \in 1 .. len |-> Cell(at + i)]]
  ELSE Threw

Signed(u) == IF u \in Int64 THEN u ELSE u - Width * Width

ReadI64 == [at \in Nat |->
  LET r == ReadCells(2, at)
  IN IF Failed(r) THEN Threw
     ELSE [at |-> r.at, value |-> Signed(r.value[1] + Width * r.value[2])]]

ReadBytes == [at \in Nat |-> ReadCells(SeedCells, at)]

\* One reader after the other.
ReadNext(before, read) ==
  LET item == read[before.at]
  IN IF Failed(before) \/ Failed(item) THEN Threw
     ELSE [at |-> item.at, value |-> Append(before.value, item.value)]

ReadEach(reads, at) ==
  LET r[i \in 0 .. Len(reads)] ==
        IF i = 0 THEN [at |-> at, value |-> <<>>] ELSE ReadNext(r[i - 1], reads[i])
  IN r[Len(reads)]

ReadTimes(read, count, at) == ReadEach([i \in 1 .. count |-> read], at)

ReadCounted(read, at) ==
  LET count == ReadCells(1, at)
  IN IF Failed(count) THEN Threw ELSE ReadTimes(read, count.value[1], count.at)

\* Mutant: the vector is sized first and then pushed to.
ReadVec_Sized == [at \in Nat |->
  LET r == ReadCounted(ReadI64, at)
  IN [r EXCEPT !.value = [i \in DOMAIN @ |-> 0] \o @]]
ReadVec == [at \in Nat |-> ReadCounted(ReadI64, at)]
ReadVecVec == [at \in Nat |-> ReadCounted(ReadVec, at)]
ReadVecVecVec == [at \in Nat |-> ReadCounted(ReadVecVec, at)]

\* The receiver's n, not the sender's.
ReadPolynomial == [at \in Nat |-> ReadTimes(ReadI64, ring, at)]
ReadCiphertext == [at \in Nat |->
  LET r == ReadTimes(ReadPolynomial, 2, at)
  IN IF Failed(r) THEN Threw
     ELSE [at |-> r.at, value |-> [a |-> r.value[1], b |-> r.value[2]]]]

ReadField(field) ==
  CASE field = "bytes" -> ReadBytes
    [] field = "seeds" -> [at \in Nat |-> ReadCounted(ReadBytes, at)]
    [] field = "vec_vec" -> ReadVecVec
    [] field = "vec_vec_vec" -> ReadVecVecVec
    [] field = "ciphertexts" -> [at \in Nat |-> ReadCounted(ReadCiphertext, at)]

Deserialize(k) == ReadEach([i \in DOMAIN Layout[k] |-> ReadField(Layout[k][i])], 0)

----------------------------------------------------------------------------
NotRead == [at |-> 0, value |-> <<>>]

WireInit ==
  /\ kind \in Kinds /\ ring \in RingSizes
  /\ sentBy = 0 /\ msg = <<>> /\ buf = <<>> /\ damage = "unsent" /\ result = NotRead

\* The sender has a ring size of its own: both ends load their own Params.
SendMessage ==
  /\ damage = "unsent"
  /\ \E n \in RingSizes : \E m \in WireMessages(kind, n) :
       sentBy' = n /\ msg' = m /\ buf' = Serialize(kind, m)
  /\ damage' = "none"
  /\ UNCHANGED <<kind, ring, result>>

Truncate ==
  /\ damage = "none" /\ result = NotRead
  /\ \E len \in 0 .. Len(buf) - 1 : buf' = SubSeq(buf, 1, len)
  /\ damage' = "truncated"
  /\ UNCHANGED <<kind, msg, sentBy, ring, result>>

Extend ==
  /\ damage = "none" /\ result = NotRead
  /\ buf' = Append(buf, 0) /\ damage' = "extended"
  /\ UNCHANGED <<kind, msg, sentBy, ring, result>>

Replace ==
  /\ damage = "unsent"
  /\ \E b \in Buffers : buf' = b
  /\ damage' = "replaced"
  /\ UNCHANGED <<kind, msg, sentBy, ring, result>>

Receive ==
  /\ damage # "unsent" /\ result = NotRead
  /\ result' = Deserialize(kind)
  /\ UNCHANGED <<kind, msg, sentBy, ring, buf, damage>>

WireNext == SendMessage \/ Truncate \/ Extend \/ Replace \/ Receive
WireSpec == WireInit /\ [][WireNext]_wire_vars

----------------------------------------------------------------------------
(* Properties. *)

Accepted == result.at > 0

\* The coefficients of the two-level field that ends each message read.
LastVectors == IF kind = "response" THEN <<>> ELSE Last(result.value)

\* Every variable keeps its type: what is read back is signed again.
\* (Checked as a part of AcceptedIsSerialized.)
WireTypeOK ==
  /\ kind \in Kinds /\ {ring, sentBy} \subseteq RingSizes \cup {0}
  /\ damage \in {"unsent", "none", "truncated", "extended", "replaced"}
  /\ \A i \in DOMAIN buf : buf[i] \in 0 .. Width - 1
  /\ result.at \in -1 .. Len(buf)
  /\ Accepted => \A i \in DOMAIN LastVectors : \A j \in DOMAIN LastVectors[i] :
                   LastVectors[i][j] \in Int64

\* What one end writes the other reads, field by field and to the last cell,
\* when both load the same ring size (which only a response depends on).
RoundTrip ==
  damage = "none" /\ (kind = "response" => sentBy = ring) /\ result # NotRead =>
    result = [at |-> Len(buf), value |-> msg]

\* A message cut anywhere is rejected by its reader: no kind of message has a
\* prefix that is a message of that kind, whatever its vectors hold.
TruncatedIsRejected ==
  damage = "truncated" /\ (kind = "response" => sentBy = ring) => ~Accepted

\* A reader invents nothing: whatever it accepts, of any buffer, is the message
\* whose serialization it has gone through.
AcceptedIsSerialized ==
  WireTypeOK /\ (Accepted => Serialize(kind, result.value) = SubSeq(buf, 1, result.at))
=============================================================================
