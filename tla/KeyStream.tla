----------------------------- MODULE KeyStream -----------------------------
(***************************************************************************)
(* SeededUniformDistribution: values drawn from one AES-CTR keystream,     *)
(* through a buffer refilled a chunk at a time, each 64-bit word mapped to *)
(* the range by rejection sampling.  The client and the server each build  *)
(* one from the same seed and draw from it at their own pace.              *)
(*                                                                         *)
(* The cipher is external: its keystream is any string of bytes, the same  *)
(* for everyone who has the seed.                                          *)
(***************************************************************************)
EXTENDS Integers, Sequences, SequencesExt, FiniteSetsExt

CONSTANTS
  Replicas,     \* the distributions built from the seed
  ByteValues,   \* values of a byte, 256
  WordBytes,    \* bytes of a word, 8
  ChunkBytes,   \* kRefillChunkBytes
  MaxChunks     \* bound: chunks of keystream considered

\* ByteValues ^ k, as a recursive function for the proofs.
Power(k) == LET power[i \in 0 .. k] == IF i = 0 THEN 1 ELSE ByteValues * power[i - 1] IN power[k]
WordValues == Power(WordBytes)
UINT64_MAX == WordValues - 1

ASSUME SizeAssumption ==
  /\ ByteValues \in Nat \ {0, 1} /\ WordBytes \in Nat \ {0}
  /\ ChunkBytes \in Nat \ {0} /\ ChunkBytes % WordBytes = 0
  /\ MaxChunks \in Nat

VARIABLES
  keystream,    \* what AES-CTR under the seed yields, byte by byte
  range_,       \* to - from + 1
  counter,      \* chunks each replica's cipher has produced
  buffer_, buffer_pos_,
  values        \* history: what next() has returned, with from_ taken off

vars == <<keystream, range_, counter, buffer_, buffer_pos_, values>>

Bytes == 0 .. ByteValues - 1
Offsets == 0 .. ChunkBytes - 1

\* A range of 2^64 values would wrap to 0; the constructor's comment excludes it.
Init ==
  /\ keystream \in [0 .. MaxChunks * ChunkBytes - 1 -> Bytes]
  /\ range_ \in 1 .. UINT64_MAX
  /\ counter = [r \in Replicas |-> 0]
  /\ buffer_ = [r \in Replicas |-> [i \in Offsets |-> 0]]
  /\ buffer_pos_ = [r \in Replicas |-> ChunkBytes]
  /\ values = [r \in Replicas |-> <<>>]

LimitWith(overhang) == UINT64_MAX - overhang

\* Mutant: every word but the last is accepted.
Limit_NoRejection == LimitWith(0)

Limit == LimitWith(UINT64_MAX % range_)

ValueOf(raw) == raw % range_

LittleEndian(word) ==
  LET value[i \in 0 .. WordBytes] ==
        IF i = 0 THEN 0 ELSE value[i - 1] + word[i - 1] * Power(i - 1)
  IN value[WordBytes]

\* The little-endian word memcpy reads at offset pos; past the buffer's end it
\* finds what happens to be there, 0 here.
Word(bytes, pos) ==
  LittleEndian([i \in 0 .. WordBytes - 1 |->
                  IF pos + i \in DOMAIN bytes THEN bytes[pos + i] ELSE 0])

RefillsWith(r, size) == buffer_pos_[r] + size > ChunkBytes

\* Mutant: a refill one word early.
Refills_Early(r) == RefillsWith(r, 2 * WordBytes)

Refills(r) == RefillsWith(r, WordBytes)

\* refill_buffer: the next chunk of keystream.
Chunk(n) == [i \in Offsets |-> keystream[n * ChunkBytes + i]]

\* Mutant: one cipher context, and so one counter, for all.
NextChunk_SharedCipher(r) ==
  LET n == MapThenSumSet(LAMBDA s : counter[s], Replicas) IN Chunk(n % MaxChunks)

NextChunk(r) == Chunk(counter[r])

\* One turn of the loop in next(): next_raw_u64, then the test.
DrawFrom(r, bytes, pos) ==
  LET raw == Word(bytes, pos) IN
  /\ buffer_' = [buffer_ EXCEPT ![r] = bytes]
  /\ buffer_pos_' = [buffer_pos_ EXCEPT ![r] = pos + WordBytes]
  /\ \/ raw >= Limit /\ UNCHANGED values
     \/ raw < Limit /\ values' = [values EXCEPT ![r] = Append(@, ValueOf(raw))]
  /\ UNCHANGED <<keystream, range_>>

DrawAfterRefill(r) ==
  /\ Refills(r)
  /\ counter[r] < MaxChunks
  /\ counter' = [counter EXCEPT ![r] = @ + 1]
  /\ DrawFrom(r, NextChunk(r), 0)

DrawFromBuffer(r) ==
  /\ ~ Refills(r)
  /\ DrawFrom(r, buffer_[r], buffer_pos_[r])
  /\ UNCHANGED counter

Next == \E r \in Replicas : DrawAfterRefill(r) \/ DrawFromBuffer(r)

Spec == Init /\ [][Next]_vars

----------------------------------------------------------------------------
(* Properties. *)

\* Every variable keeps its type; in particular buffer_pos_ never passes the
\* buffer's end: next_raw_u64 copies no byte from behind it.
\* (Checked as a part of ReplicasAgree.)
TypeOK ==
  /\ keystream \in [0 .. MaxChunks * ChunkBytes - 1 -> Bytes]
  /\ range_ \in 1 .. UINT64_MAX
  /\ counter \in [Replicas -> 0..MaxChunks]
  /\ buffer_ \in [Replicas -> [Offsets -> Bytes]]
  /\ buffer_pos_ \in [Replicas -> 0..ChunkBytes]
  /\ values \in [Replicas -> Seq(0 .. range_ - 1)]

\* "Two objects built from the same seed and range produce the identical
\* sequence of values": whatever one has drawn, the other has drawn or will.
ReplicasAgree ==
  TypeOK /\ \A r, s \in Replicas : IsPrefix(values[r], values[s]) \/ IsPrefix(values[s], values[r])

\* The words r has read.
WordsRead(r) ==
  IF counter[r] = 0 THEN 0
  ELSE (counter[r] - 1) * (ChunkBytes \div WordBytes) + buffer_pos_[r] \div WordBytes

\* What word i of the keystream adds to the values before it, and what the
\* first n words give.
OneMore(drawn, i) ==
  LET raw == Word(keystream, i * WordBytes)
  IN  IF raw < Limit THEN Append(drawn, ValueOf(raw)) ELSE drawn
Drawn(n) ==
  LET drawn[i \in 0 .. n] == IF i = 0 THEN <<>> ELSE OneMore(drawn[i - 1], i - 1) IN drawn[n]

\* "A single continuous keystream": every word is used exactly once, in the
\* order the cipher yields them, also across refills.
Continuous == \A r \in Replicas : values[r] = Drawn(WordsRead(r))

\* Each value of the range comes from equally many words, and at least half
\* of all words are accepted.
Uniform ==
  LET Accepted == {raw \in 0..UINT64_MAX : raw < Limit}
      share == Cardinality(Accepted) \div range_
  IN  /\ \A v \in 0 .. range_ - 1 : Cardinality({raw \in Accepted : ValueOf(raw) = v}) = share
      /\ 2 * Cardinality(Accepted) >= WordValues
=============================================================================
