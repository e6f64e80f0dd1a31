---------------------------- MODULE BitPacking ----------------------------
(***************************************************************************)
(* The byte streams of keys, queries and responses: every coefficient in   *)
(* ceil(log2 q) bits, without lengths or parameters.  The sender packs     *)
(* under its Params; the receiver unpacks, under its own, a stream that    *)
(* may have been damaged on the way, and checks what it can.               *)
(*                                                                         *)
(* The accumulator's acc_ |= value << nbits_ is a sum here: by             *)
(* PackingTypeOK the bits it sets are clear.                               *)
(***************************************************************************)
EXTENDS Integers, Sequences

CONSTANTS
  BitsPerByte,  \* 8
  SeedBytes,    \* kSeedBytes
  ParamSets,    \* Params the two ends may have been given
  InMemory(_)   \* int64_t values that stand for residues mod q: negative, not reduced

ASSUME PackingAssumption ==
  /\ BitsPerByte \in Nat \ {0} /\ SeedBytes \in Nat
  /\ \A p \in ParamSets :
       /\ {p.q, p.n, p.splits_per_cluster, p.embedding_length, p.num_clusters,
           p.num_component_rings} \subseteq Nat \ {0}
       /\ {p.q, p.decomposition_base_ksk, p.decomposition_base_prime} \subseteq Nat \ {0, 1}
       /\ InMemory(p.q) \subseteq Int

ByteRange == 0 .. 2 ^ BitsPerByte - 1

CeilDiv(x, y) == (x + y - 1) \div y

----------------------------------------------------------------------------
(* wire_shape and the sizes of the streams. *)

\* Digits of v to a base.
DigitCount(v, base) ==
  LET count[x \in 0 .. v] == IF x = 0 THEN 0 ELSE 1 + count[x \div base] IN count[v]

CoefficientBitWidth(p) == DigitCount(p.q - 1, 2)

\* Utils::power_times: ceil(log_base q), the digits of a residue.
PowerTimes(q, base) == DigitCount(q - 1, base)

AutomorphismLevels(p) == DigitCount(p.n, 2) - 1
KskDigits(p) == PowerTimes(p.q, p.decomposition_base_ksk)
PrimeDigits(p) == PowerTimes(p.q, p.decomposition_base_prime)

BitsToBytes(bits) == CeilDiv(bits, BitsPerByte)

PublicMaterialStreamBytes(p) ==
  SeedBytes + BitsToBytes(CoefficientBitWidth(p) *
    (AutomorphismLevels(p) * KskDigits(p) * p.n + PrimeDigits(p) * p.n))

QueryStreamBytes(p, ring) ==
  SeedBytes + BitsToBytes(CoefficientBitWidth(p) *
    (p.embedding_length + (IF ring = 0 THEN p.num_clusters * PrimeDigits(p) ELSE 0)))

ResponseStreamBytes(p) ==
  BitsToBytes(CoefficientBitWidth(p) * p.splits_per_cluster * 2 * p.n)

Keys == [kind |-> "keys", ring |-> 0]
Query(ring) == [kind |-> "query", ring |-> ring]
Response == [kind |-> "response", ring |-> 0]

Rings(p) == 0 .. p.num_component_rings - 1
Streams(p) == {Keys, Response} \cup {Query(ring) : ring \in Rings(p)}

StreamBytes(p, of) ==
  CASE of.kind = "keys"     -> PublicMaterialStreamBytes(p)
    [] of.kind = "query"    -> QueryStreamBytes(p, of.ring)
    [] of.kind = "response" -> ResponseStreamBytes(p)

\* total_bytes of a query's streams.
UploadBytes(p) ==
  LET total[rings \in 0 .. p.num_component_rings] ==
        IF rings = 0 THEN 0 ELSE total[rings - 1] + StreamBytes(p, Query(rings - 1))
  IN total[p.num_component_rings]

\* The coefficients the nested loops put and get.
KeysCoefficients(p) == (AutomorphismLevels(p) * KskDigits(p) + PrimeDigits(p)) * p.n

QueryCoefficients(p, ring) ==
  p.embedding_length + (IF ring = 0 THEN p.num_clusters * PrimeDigits(p) ELSE 0)

ResponseCoefficients(p) == p.splits_per_cluster * (p.n + p.n)

Coefficients(p, s) ==
  CASE s.kind = "keys"     -> KeysCoefficients(p)
    [] s.kind = "query"    -> QueryCoefficients(p, s.ring)
    [] s.kind = "response" -> ResponseCoefficients(p)

Seeded(s) == s.kind # "response"

----------------------------------------------------------------------------
(* theoretical_communication_cost, in bits. *)

SeedBits == BitsPerByte * SeedBytes

KeysBits(p) ==
  SeedBits + CoefficientBitWidth(p) * (AutomorphismLevels(p) * KskDigits(p) * p.n + PrimeDigits(p) * p.n)

\* Mutant: one seed for all rings.
UploadBits_OneSeed(p) ==
  SeedBits + CoefficientBitWidth(p) *
    (p.num_component_rings * p.embedding_length + p.num_clusters * PrimeDigits(p))

UploadBits(p) ==
  p.num_component_rings * SeedBits + CoefficientBitWidth(p) *
    (p.num_component_rings * p.embedding_length + p.num_clusters * PrimeDigits(p))

DownloadBits(p) ==
  CoefficientBitWidth(p) * p.num_component_rings * p.splits_per_cluster * 2 * p.n

----------------------------------------------------------------------------
VARIABLES
  params,       \* the sender's Params
  s,            \* the stream
  pc,           \* pack, sent, unpack, accepted, rejected
  written,      \* in-memory coefficients put so far
  packer,       \* BitPacker: buf, acc, nbits
  peer,         \* the receiver's Params
  stream,       \* what the receiver has got
  unpacker,     \* BitUnpacker: pos, acc, nbits
  read,         \* coefficients got so far
  why           \* the exception

packing_vars == <<params, s, pc, written, packer, peer, stream, unpacker, read, why>>

\* put_bytes: the seed, a byte block of which the contents do not matter.
SeedBlock == [i \in 1..SeedBytes |-> 2 ^ BitsPerByte - 1]

PackingInit ==
  /\ params \in ParamSets
  /\ s \in Streams(params)
  /\ pc = "pack"
  /\ written = <<>>
  /\ packer = [buf |-> IF Seeded(s) THEN SeedBlock ELSE <<>>, acc |-> 0, nbits |-> 0]
  /\ peer = params
  /\ stream = <<>>
  /\ unpacker = [pos |-> 0, acc |-> 0, nbits |-> 0]
  /\ read = <<>>
  /\ why = "none"

----------------------------------------------------------------------------
(* Packing. *)

\* C++ % takes the sign of the dividend.
Remainder(v, q) == IF v >= 0 THEN v % q ELSE -((-v) % q)

\* Mutant: the sign is dropped.
Canonical_Abs(v, q) == LET m == Remainder(v, q) IN IF m < 0 THEN -m ELSE m

Canonical(v, q) == LET m == Remainder(v, q) IN IF m < 0 THEN m + q ELSE m

Put(out, value, width) ==
  LET acc == out.acc + value * 2 ^ out.nbits
      nbits == out.nbits + width
      whole == nbits \div BitsPerByte
  IN  [buf |-> out.buf \o [i \in 1..whole |-> (acc \div 2 ^ (BitsPerByte * (i - 1))) % 2 ^ BitsPerByte],
       acc |-> acc \div 2 ^ (BitsPerByte * whole),
       nbits |-> nbits % BitsPerByte]

\* Mutant: the partial byte is not flushed.
Finish_NoFlush(out) == out.buf

Finish(out) == IF out.nbits > 0 THEN Append(out.buf, out.acc) ELSE out.buf

PackCoefficient ==
  /\ pc = "pack" /\ Len(written) < Coefficients(params, s)
  /\ \E v \in InMemory(params.q) :
       /\ written' = Append(written, v)
       /\ packer' = Put(packer, Canonical(v, params.q), CoefficientBitWidth(params))
  /\ UNCHANGED <<params, s, pc, peer, stream, unpacker, read, why>>

FinishPacking ==
  /\ pc = "pack" /\ Len(written) = Coefficients(params, s)
  /\ pc' = "sent"
  /\ packer' = [buf |-> Finish(packer), acc |-> 0, nbits |-> 0]
  /\ UNCHANGED <<params, s, written, peer, stream, unpacker, read, why>>

----------------------------------------------------------------------------
(* Unpacking. *)

Sent == packer.buf

\* Intact, with one byte changed, or a byte short or long.
Arriving ==
  {Sent}
  \cup {[Sent EXCEPT ![i] = b] : i \in DOMAIN Sent, b \in ByteRange}
  \cup {SubSeq(Sent, 1, Len(Sent) - 1)}
  \cup {Append(Sent, b) : b \in ByteRange}

Reject(reason) == pc' = "rejected" /\ why' = reason

\* Mutant: a stream that is too long passes.
SizeOK_AtLeast(p, bytes) == Len(bytes) >= StreamBytes(p, s)

\* check_size
SizeOK(p, bytes) == Len(bytes) = StreamBytes(p, s)

\* The stream arrives; check_size, and get_bytes for the seed.
Arrive ==
  /\ pc = "sent"
  /\ peer' \in {p \in ParamSets : s \in Streams(p)}
  /\ stream' \in Arriving
  /\ \/ /\ SizeOK(peer', stream')
        /\ pc' = "unpack"
        /\ unpacker' = [unpacker EXCEPT !.pos = IF Seeded(s) THEN SeedBytes ELSE 0]
        /\ UNCHANGED why
     \/ /\ ~ SizeOK(peer', stream')
        /\ Reject("size")
        /\ UNCHANGED unpacker
  /\ UNCHANGED <<params, s, written, packer, read>>

\* Whole bytes get has to fetch for the next width bits.
Fetch(width) ==
  IF unpacker.nbits >= width THEN 0 ELSE CeilDiv(width - unpacker.nbits, BitsPerByte)

\* The number whose digits, of a width in bits, are given, lowest first.
Number(digits, width) ==
  LET number[k \in 0 .. Len(digits)] ==
        IF k = 0 THEN 0 ELSE number[k - 1] + digits[k] * 2 ^ (width * (k - 1))
  IN number[Len(digits)]

\* The accumulator with those bytes.
Fetched(count) ==
  unpacker.acc + 2 ^ unpacker.nbits *
    Number(SubSeq(stream, unpacker.pos + 1, unpacker.pos + count), BitsPerByte)

IsResidue(v) == v < peer.q

Read(v) == read' = Append(read, v) /\ UNCHANGED <<pc, why>>

\* get and read_coefficient.
ReadCoefficient ==
  LET width == CoefficientBitWidth(peer)
      count == Fetch(width)
      acc == Fetched(count)
      v == acc % 2 ^ width
  IN  /\ pc = "unpack" /\ Len(read) < Coefficients(peer, s)
      /\ IF unpacker.pos + count > Len(stream)
         THEN Reject("underrun") /\ UNCHANGED <<unpacker, read>>
         ELSE /\ unpacker' = [pos |-> unpacker.pos + count,
                              acc |-> acc \div 2 ^ width,
                              nbits |-> unpacker.nbits + BitsPerByte * count - width]
              /\ IF IsResidue(v) THEN Read(v) ELSE Reject("residue") /\ UNCHANGED read
      /\ UNCHANGED <<params, s, written, packer, peer, stream>>

\* Mutant: padding bits are not looked at.
EndProblem_NoPadding == IF unpacker.pos # Len(stream) THEN "trailing" ELSE "none"

EndProblem ==
  IF unpacker.pos # Len(stream) THEN "trailing"
  ELSE IF unpacker.acc # 0 THEN "padding" ELSE "none"

ExpectEnd ==
  /\ pc = "unpack" /\ Len(read) = Coefficients(peer, s)
  /\ IF EndProblem = "none" THEN pc' = "accepted" /\ UNCHANGED why ELSE Reject(EndProblem)
  /\ UNCHANGED <<params, s, written, packer, peer, stream, unpacker, read>>

PackingNext ==
  \/ PackCoefficient \/ FinishPacking
  \/ Arrive \/ ReadCoefficient \/ ExpectEnd

PackingSpec == PackingInit /\ [][PackingNext]_packing_vars
----------------------------------------------------------------------------
(* Properties. *)

AccumulatorOK(acc, nbits) == nbits \in 0 .. BitsPerByte - 1 /\ acc \in 0 .. 2 ^ nbits - 1

\* Every variable keeps its type; the accumulators hold less than a byte between
\* calls ("nbits_ < 8 on entry") and no bit above nbits_ is ever set.
\* (Checked as a part of SizesAreExact.)
PackingTypeOK ==
  /\ params \in ParamSets /\ peer \in ParamSets
  /\ s \in Streams(params)
  /\ pc \in {"pack", "sent", "unpack", "accepted", "rejected"}
  /\ written \in Seq(Int)
  /\ packer.buf \in Seq(ByteRange) /\ AccumulatorOK(packer.acc, packer.nbits)
  /\ stream \in Seq(ByteRange) /\ unpacker.pos \in 0 .. Len(stream)
  /\ AccumulatorOK(unpacker.acc, unpacker.nbits)
  /\ read \in Seq(0 .. peer.q - 1)
  /\ why \in {"none", "size", "underrun", "residue", "trailing", "padding"}

\* A finished stream has the size wire_shape's formulas announce: "exact stream
\* sizes in bytes, as produced by the pack_* functions".
SizesAreExact == PackingTypeOK /\ (pc # "pack" => Len(Sent) = StreamBytes(params, s))

\* Overhead of the streams over the bits they are announced to need.
IsPadding(bytes, bits, streams) ==
  bytes * BitsPerByte - bits \in 0 .. streams * (BitsPerByte - 1)

\* The theoretical communication cost differs from the size of what is sent
\* by the padding of each stream's last byte and nothing else.
OverheadIsPadding ==
  LET r == params.num_component_rings
  IN  /\ IsPadding(StreamBytes(params, Keys), KeysBits(params), 1)
      /\ IsPadding(UploadBytes(params), UploadBits(params), r)
      /\ IsPadding(r * StreamBytes(params, Response), DownloadBits(params), r)

Undamaged == stream = Sent /\ peer = params

\* An undamaged stream is never rejected, and yields every coefficient's
\* canonical residue, in order.
RoundTrip ==
  pc \in {"accepted", "rejected"} /\ Undamaged =>
    pc = "accepted" /\ read = [i \in DOMAIN written |-> written[i] % params.q]

Body == SubSeq(stream, (IF Seeded(s) THEN SeedBytes ELSE 0) + 1, Len(stream))

\* "A little-endian bit stream": what is accepted, damaged or not and under
\* whatever parameters, is the number whose base 2^width digits are the
\* coefficients read, so no two streams are accepted as the same coefficients.
AcceptedIsCanonical ==
  pc = "accepted" =>
    /\ Number(Body, BitsPerByte) = Number(read, CoefficientBitWidth(peer))
    /\ \A i \in DOMAIN read : read[i] < peer.q
    /\ Len(stream) = StreamBytes(peer, s)
=============================================================================
