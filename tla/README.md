# Mímir private search: TLA+ models and proofs

Models, model-checking configurations and machine-checked proofs for the C++
implementation of the Mímir private search. Paths below are relative to the
repository (`src/…` is its source directory, `include/…` its headers). Every
definition that models code is listed in `PROJECT.json` under `map` with the lines
it stands for.

Mímir lets a client find the best document of one *cluster* of a server's database
without telling the server the query or the cluster. The client encrypts an
embedding (`l` values) and a unit vector selecting a cluster; the server turns
these ciphertexts into RLWE and RGSW ciphertexts, scores every document of every
cluster, masks the scores by the selector and returns the sum over the clusters,
which holds the desired cluster's scores.

## 1. Inventory

| Component | State it keeps | Operations | Hard behaviour | What makes it correct |
|---|---|---|---|---|
| Seeded distribution (`seeded_distribution.cpp`) | cipher counter, buffer, position | `next` (refill, rejection sampling) | two replicas at their own pace; buffer boundary; bias | same seed, same values; no keystream skipped, reused or read behind the buffer; uniform |
| Seeded query (`seeded_query.cpp`) | the secret key's distribution, one stream per component ring, `b` values, rebuilt ciphertexts | `build_seeded_query`, `reconstruct_query` (parallel over rings) | order of draws on both sides, thread schedule, swap and restore of the distribution | server pairs each `b` with the masks it was made with; no mask reuse |
| Evaluation keys (`seeded_eval_keys.cpp`, `key_material.cpp`) | one stream, levels and digits of `b` polynomials | build, reconstruct | order inside the library | as for the query |
| Bit packing (`stream_packing.cpp`) | accumulators, streams | pack/unpack keys, query, response | widths that are no multiple of 8, non-canonical residues, damaged streams, other parameters | round trip, exact sizes, one encoding per content |
| Communication cost (`communication_cost.cpp`) | recorded sizes | theoretical cost, record, print | formulas repeated from the packer | differs from the sent bytes by padding only |
| Session store (`server_session.cpp`) | `sessions_` under `mutex_` | `register_session`, `get_and_touch` | concurrent calls, time passing between steps, lazy eviction, early returns | atomic calls; expired sessions are never seen; the mutex is released |
| Server process (`server.cpp`, `server_dispatch.cpp`) | the accepted connection, request, response, the store | accept loop, `handle_message` | failing peers, errors while handling, restart with an empty store | replies belong to the request; in-time sessions are served; it goes on |
| Network (`network.cpp`) | sockets | connect, accept, `send_message`, `recv_message` | disconnects, SIGPIPE, silent peers, partial sends and receives | whole messages in order, or an exception |
| Wire protocol (`wire_protocol.cpp`) | – | serialize, deserialize | counts, truncation, trailing bytes | round trip, rejection |
| Client (`apps/client.cpp`, `client_core.cpp`) | keys, session id | register, query, `decrypt_and_find_best` | refusals, lost connections, padded positions | obtains its own best document |
| Query processing (`server_query_processing.cpp`) | ciphertext tables filled by parallel loops | `process_query` | loops without locks, barriers, flattened indices | every slot written once, read after it is written; exact scores |
| Database (`server_db.cpp`, `db_polynomial.cpp`, `crt.hpp`) | clusters | load, `build_split`, validations | padding, signed residues, overflow of scores, cluster counts | padded splits score as the documents do |
| Parameters (`params.cpp`, `params_io.cpp`) | – | derivation, validation | rounding, thresholds | derived sizes are consistent |
| Benchmarks (`benchmarks/`) | timers, simulated machines | single, parallel, pooled, distributed rounds | inexact division of clusters and rings over machines | every (ring, cluster) scored by exactly one machine |

**Interactions.** A client sends its seeded evaluation keys (registration) and later
its seeded query over one connection each. The server rebuilds the keys, stores them
in the session store under the session id, and for a query looks them up, rebuilds
the query, runs `process_query` and sends the response. Both ends draw from
`SeededUniformDistribution` replicas. The benchmarks run the same pipeline in one
process with bit-packed streams instead of sockets.

**Status of the code.** `CMakeLists.txt` builds parameters, keys, distributions,
seeded keys and queries, packing and cost, with tests and benchmarks. The server,
client, session store, network and query processing are kept in the tree but
commented out there until they follow the change to several component rings. They
are modelled as they are written (one ring).

## 2. Plan

Order: first what both ends must agree on without being able to check it (streams and
their replay), then the shared state of the server, then the service, then the data
path.

| Module | Subject | State |
|---|---|---|
| `SeededQuery`, `SeededQueryProofs` | query construction and reconstruction | done, proved |
| `SessionStoreAbs`, `SessionStore`, `SessionStoreProofs` | session store, refinement | done, proved |
| `KeyStream`, `StreamProofs` | buffered keystream, sampling | done, proved |
| `Service`, `ServiceProofs` | clients, accept loop, store (through `SessionStoreAbs`) | done, safety proved |
| `Scoring`, `ScoringProofs`, `MCScoring` | `process_query`, `decrypt_and_find_best` | done, safety proved |
| `BitPacking`, `MCBitPacking` | streams of keys, queries, responses, their cost | done, proved in `StreamProofs` |
| `SeededEvalKeys`, `SeededEvalKeysProofs` | evaluation keys, failing builds | done, safety proved |
| `WireProtocol`, `MCWireProtocol` | messages as bytes, damaged or not | done, proved in `TransportProofs` |
| `ExchangeAbs`, `Transport`, `TransportProofs`, `MCTransport` | framing, partial sends and receives, refinement of an exchange of messages | done, refinement proved |
| `SignedRings`, `Residues`, `MCResidues` | signed values, CRT, overflow bound, the score a client reads | done, proved in `ScoringProofs` |
| `Deployment` | parameters from every source, their derivation, shares of the distributed benchmarks | done, proved in `ServerStartupProofs` |
| `ServerStartup`, `ServerStartupProofs`, `MCServerStartup` | database file, startup checks, requests, `build_split` | done, safety proved |

Compositions: `Service` instantiates `SessionStoreAbs`, which `SessionStore` is shown
to implement; `Transport` implements `ExchangeAbs`, the whole messages `Service`
assumes; `ServerStartup` extends `Deployment`, so that the server starts with the
parameters it loads and checks; `Residues`, `Scoring` and `Deployment` share the
arithmetic of `SignedRings`.

Every safety property that a run checks is also a theorem, except the one run that shows
a violation; liveness stays with TLC (section 5). A proof module may serve two modules
of the model: `StreamProofs` the two kinds of byte stream, `TransportProofs` the message
format and the frames it travels in, `ScoringProofs` the scores as plain values and under
the encryption scheme. For that the state of `BitPacking`, `WireProtocol` and `Residues`
has names of its own (`PackingInit`, `WireInit`, `RingInit`).

## 3. The modules

### SeededQuery
`build_seeded_query` is `BeginQuery` (fresh seeds, ring 0's stream put into the key),
`EncryptEmbedding` (one value under one ring, the loop over rings inside the loop
over values), `StartSelector`, `EncryptSelector` and `FinishQuery` (distribution
restored, query sent). `reconstruct_query` is one thread per ring (`DrawMask`,
`RebuildEmbedding`), the barrier `RingsJoined`, and the selector continuing ring 0's
stream (`RebuildSelector`, `Reconstructed`). A `b` value records the stream and
position of its masks and its message, so a ciphertext decrypts exactly if the server
pairs the `b` with those masks. That the values at equal positions of two replicas
are equal is `KeyStream`'s subject. `BuildFails` is an exception anywhere between the
swap of the distribution and its restoration: nothing is sent, and the key keeps the
failed query's stream (`LeftBy`), which the next build takes for the original. After a
failure that stream is never drawn from again, because a build installs streams of its
own before it encrypts; so its position is not kept.

### KeyStream
`SeededUniformDistribution` step by step: `DrawAfterRefill` and `DrawFromBuffer` are
one turn of the loop in `next`, with `refill_buffer`, `next_raw_u64` and the rejection
test. The AES-CTR keystream is any string of bytes. `Drawn(n)` is what the first n words
of it yield, without chunks or buffer: `Continuous` and `ReplicasAgree` compare every
replica with it.

### SessionStoreAbs and SessionStore
`SessionStore` splits each call at its observable points: wait for the mutex, find,
read the clock, apply and return (`Store`, `Evict`, `Touch`, `NotFound`), with time
passing anywhere. `SessionStoreAbs` is the promise: calls take effect at one instant,
and a session vanishes when its time to live has passed. The refinement
`ImplementsAbs` lets a call take effect when it reads the clock (or finds nothing) and
maps a lazily kept expired session to none.

### Service
Client processes (register, reconnect, query, decrypt), the accept loop with the
kernel's backlog, `handle_message` on the abstract store, and the failures the code
meets: a client that dies (`closed`: the connection is reset), a client that falls
silent (the connection stays open), SIGPIPE when the server sends to a closed
connection, a server restart with an empty store, and time passing. Messages are
whole: a partial request is a peer that has not yet sent.

### Scoring and MCScoring
`process_query` with a team of threads: `Take` hands out iterations dynamically,
`Barrier` ends a loop when every thread is idle, `SwitchEmbedding`, `SwitchSelector`
and `ScorePair` are the bodies, `Reduce` the sequential sum, `DecryptAndFindBest` the
client. A ciphertext stands for the plain value it decrypts to, modulo the plaintext
modulus, so homomorphic operations are the operations on plain values; noise is left
out.

### BitPacking and MCBitPacking
`BitPacker` and `BitUnpacker` with their accumulators, `check_size`,
`read_coefficient` and `expect_end`, the size formulas and the theoretical cost. The
sender packs under its own `Params`, the stream may have one byte changed, be a byte
short or a byte long, and the receiver unpacks under its own `Params`, which may
differ. `InMemory` gives the values a coefficient may have before it is packed,
negative and unreduced ones among them; `Number` is the number that a sequence of
digits stands for.

### SeededEvalKeys
`build_seeded_public_material`: `BeginBuild` draws a seed and puts its stream into the
key, `GenerateKsk` and `GenerateRgsw` are the ciphertexts the library makes, level by
level and digit by digit, `FinishBuild` restores the distribution and sends the `b`
polynomials. `BuildFails` is an exception of the library between swap and
restoration: the key keeps the seeded stream, and the next build takes it for the
original. The history `used` takes a mask when it is drawn (`DrawMasks`), so that the
rows of a build that fails later are in it. `RebuildKsk` and `RebuildRgsw` are `reconstruct_public_material` on one
stream. Several builds follow each other; the server rebuilds the last one sent.

### WireProtocol and MCWireProtocol
Every kind of message as its list of fields, written and read as `ByteWriter` and
`ByteReader` do: counts, signed 64-bit numbers as two cells, seeds, nested vectors,
ciphertexts. A message arrives as it was sent, cut anywhere, extended, or is replaced
by any buffer of `Buffers`. Only a response's reader depends on the ring size, and each
end has its own. Writers are functions from values to cells, readers functions from the
cursor to the cursor after it and the value; a vector or a message is one reader after
the other (`ReadEach`), which ends at the first that throws. `FieldValues` says what a
field can hold; a vector too long for its count is left out, as in the code, where
nothing checks for it and no message comes near.

### ExchangeAbs, Transport and MCTransport
`Transport` is one connection at the level of `send()` and `recv()`: a frame is a type,
a length and a payload, moved part by part in pieces of any size through a connection
of bounded capacity, and either process may close at any time. `ExchangeAbs` is what
`send_message` and `recv_message` promise: the request as it was sent, then the
response, each once, or a call that fails. The refinement maps each end to its call's
outcome; it holds because the bytes stay in step (`InStep`).

### SignedRings, Residues and MCResidues
`SignedRings` translates `db_polynomial.cpp` and `crt.hpp` as operators, with C++'s
remainder. `Residues` follows one score from a signed embedding value to the number
the client reads: sampled modulo plaintext_modulus (the client program and the seeded
benchmarks) or the combined modulus (the other benchmarks and the CRT tests), split over the component rings, encrypted
(a ciphertext is its phase: encoding plus noise), multiplied with the stored
document's coefficients, decrypted, recomposed and centred. `Scoring` takes its sums
and its centring from `SignedRings` too.

### Deployment
Parameters as they come into being: `LoadFromArgs` (benchmarks, with a file or the
built-in set), `MakeTestParams` (the factories), `LoadForServer`, `Pin` (a test changes
a field and derives again), each through `derive_dependent_parameters` with its
checks. `DivideWork` is what a distributed benchmark gives one machine. A parameter
file is a record of its values and of what is wrong with it.

### ServerStartup and MCServerStartup
The server program from its files to its replies. The database file is a sequence of
cells as the converter writes them, found whole, cut at any cell, longer or with
another magic number; `Start` is `load_from_file` and the checks of `main`. `Accept`
takes requests of any session, with keys that can or cannot be rebuilt; a query makes
`BuildSplit` steps in any order (the parallel loop) and `Respond`. The process can end
in two ways: an exception leaves the parallel region ("dead"), or it is "killed", by
SIGPIPE when it answers a client that has gone (`Reply`), or by an access out of bounds
when it scores a query whose vectors have other sizes than its parameters say
("misfit"): `reconstruct_query` compares the number of rings only, and
`process_query` indexes its tables by the parameters. What such an access reads is
undefined, so the iteration goes on or ends the process. `Expire` is the
session store's eviction. `SessionStore`, `Scoring` and `Transport` are where those
steps are modelled in detail.

## 4. The runs

| Run | Instance | Shows |
|---|---|---|
| `seeded_query` | 2 rings, 3 values, 2 clusters × 2 digits, 2 masks per ciphertext, 3 queries, failing builds | replay, completeness, no mask reuse, builds that return restore the distribution they found, every query rebuilt unless its build throws |
| `session_store` | 2 threads, 2 ids, 2 materials, TTL 1, clock to 3 | refinement of the abstract store, monotone `last_used`, mutex released |
| `key_stream` | 2 replicas, bits as bytes, 2-byte words, chunks of 2 words, 2 chunks | agreement, continuity, uniformity for every keystream and every range |
| `service` | 2 clients, backlog 1, TTL 1, clock to 3, 1 restart, both faults | own result, expected reply types, refusals only when late or after a restart; every client ends unless one falls silent |
| `service_stays_up` | same, clients that die | *violated*: SIGPIPE ends the server |
| `scoring` | 3 clusters × 3 documents, splits of 2, 2 threads | inputs ready, one writer per slot, exact scores, the first of the best documents (or of the padding), termination |
| `bit_packing` | four `Params`, 3-bit bytes, 2- to 4-bit coefficients | sizes, round trip, canonical acceptance, cost |
| `eval_keys` | 2 levels × 3 digits, 2 digits for RLWE'(sk²), rings of 2, 3 seeds, failing builds | masks matched, never reused, keys rebuilt |
| `wire_protocol` | vectors of up to 2 elements on every level, two ring sizes, all buffers of up to 6 cells | round trip, no message is another's prefix, what is accepted is a serialization |
| `transport` | bits as bytes, 2-bit length, payloads of 0, 2 and 3, capacity 3 | refinement of the exchange, both ends return, both messages delivered unless an end closes early |
| `residues` | 2 terms of 2 bits, or 1 of 3 bits, moduli around the overflow bound, noise -15, 0, 15 | the true dot product is read; the overflow check is tight |
| `server_startup` | 67 parameter files, 10 argument lists, 6 databases with every cut, 2 sessions | slots for all documents, message space, shares, only the written database is served and every value is in place, no exception of `build_split` leaves the parallel region, replies fit |

The type invariant of a module is a conjunct of one of its checked properties
(`ReplicasAgree`, `OwnResult`, `InputsReady`, `SizesAreExact`, `CiphertextsMatch`,
`AcceptedIsSerialized`, `ImplementsExchange`, `ScoreIsDotProduct`,
`EveryDocumentHasSlot`, `ServesWhatWasWritten`); in `SeededQuery` and `SessionStore` it is
a theorem of its own.

**Why the bounds are enough.**
*seeded_query*: two rings give one ring that is continued by the selector and one that
is not; three values wrap the ring index and leave room for threads to run ahead; two
digits and two clusters make the selector's flattened index differ from both; three
queries show reuse across queries, and a build that follows two failed ones. The proofs
remove these bounds.
*session_store*: two threads race on the same or on different ids; the clock runs past
one time to live and past a renewed one. The proofs remove these bounds too.
*key_stream*: chunks of two words have a boundary inside and one at a refill; words of
four values give ranges that divide 4 and one that does not.
*service*: two clients suffice for one to wait behind the other and for mixing
sessions up; the clock passes the time to live while one waits; one restart loses
sessions. In this instance no counter ends a behaviour early except the clock, and the
properties are about what happens before and at expiry.
*scoring*: three clusters and two splits give unequal divisors of the flattened pair
index; three documents in splits of two leave one padded position; plaintext
modulus 17 with scores in -8..8 is exactly the overflow threshold; the data
contain positive, zero, negative and tied best scores, and clusters whose documents
all score below 0.
*bit_packing*: coefficients shorter than, as long as and longer than a byte; q equal
to and different from a power of two; two parameter sets of equal stream sizes; values
that are negative and values that are not reduced.
*eval_keys*: three seeds allow a build, a failed one and the one that follows; two
levels with three digits keep the level and the digit apart.
*wire_protocol*: a number is two cells of three values, so that values need the second
one and negative ones occur; two elements on each level tell counts of different
levels apart, and a count of one level can be taken for that of another.
*transport*: a capacity of three is less than the longest frame (six bytes), so an end
must wait for the other; payloads reach the longest length the field can say.
*residues*: the worst dot product is 16 against moduli of 31 to 34, on both sides of
the bound and odd and even; the two-ring sets have combined moduli above their lower
bound. q = 10007 leaves the noise room, as the real parameters are chosen to.
*server_startup*: the files have no document up to more than two splits hold, clusters,
servers and terms that do not divide, CRT moduli on both sides of the bound, one with a
negative modulus; databases differ from the parameters in each way startup could meet.

Safety is proved without these bounds (section 5); they only limit what is known of
liveness.

**Deadlock** is checked for `SessionStore`, which never stops. The other systems end:
the queries are used up, the keystream is used up, every client has ended or waits for
a peer that is silent, the query is answered, the stream is accepted or rejected.
That they end only where they should is what `QueryIsReconstructed`,
`EveryClientEnds` and `QueryEnds` say.

**Fairness.** *SeededQuery*: weak fairness of the client's loop, which goes on unless
it throws, of each ring's thread and of the sequential part of the server; none for
beginning a query or for throwing. *SessionStore*:
weak fairness of the steps inside the critical section (a scheduled thread), none for
obtaining the lock, because `std::mutex` does not promise any. *Service*: weak fairness
of the server and of each client, as the operating system schedules processes; none
for faults, restarts and time. *Scoring*: weak fairness of each thread and of the
sequential code; OpenMP ends a loop when its team has. *SeededEvalKeys*: weak fairness
of the server's rebuilding, none of the client. *Transport*: weak fairness of each
end's calls, which the kernel serves while it can, and of closing a socket whose call
is over (its destructor); none for closing early. No run uses strong fairness.

## 5. What is proved

For every value of the constants that satisfies the named assumptions:

* `SeededQueryProofs` (assuming `SizesAreCounts`: sizes are positive numbers):
  `TypeCorrect`, `ReplayCorrect`, `ReconstructionIsComplete`, `MasksNeverReused`,
  `DistributionIsRestored`. None of the properties is inductive. The inductive
  invariant `IInv` adds where the code stands: `LoopInv` (rings below the loop index
  are one value ahead; the server is idle while a query is built), `WireInv` (the j-th
  `b` of a stream was encrypted at position (j-1)·Dim, the selector following ring 0's
  embedding), `ReplayInv` (the server's position is that of its finished ciphertexts
  plus the masks drawn for the next), `DistInv` (which stream the key has, and which the
  build will put back), and
  `LogInv` (encryptions under a current seed lie before the stream's position; future
  seeds have encrypted nothing). `ReplayCorrect` follows from `WireInv` and `ReplayInv`
  giving equal positions; mask reuse is excluded because seeds are never repeated,
  which is what `generate_fresh_seed` (16 random bytes) is taken to guarantee.
* `SessionStoreProofs` (assuming `StoreAssumption`: the sentinel values are not
  materials, sessions or threads): `TypeCorrect`, `LastUsedMonotone` and `Refinement`
  (`Spec => ImplementsAbs`). `IInv` has `MutexInv` (who is past the lock holds it),
  `RequestInv` (a lookup past `find` has its session there) and `ClockInv` (no stored
  time is ahead of the clock or of the time read by a call in the critical section).
  The refinement proof shows one action at a time: `ReadClock` and `NotFound` map to
  abstract calls, `Tick` to an abstract tick in which exactly the sessions past their
  time vanish, `Call` to `Call`, and all others to stuttering.

* `StreamProofs` (assuming `SizeAssumption`: bytes have at least two values, a chunk
  is a positive number of whole words): `ValuesAreUniform`, `StreamIsContinuous`,
  `SeedsAgree`. `IInv` says that a replica has read whole words of the last chunk its
  cipher produced (`InChunk`) and has drawn `Drawn(WordsRead(r))`. A refill moves from
  the end of one chunk to the start of the next, so the next word of the buffer is the
  next of the keystream; replicas agree because the values of
  fewer words are a prefix of those of more. Uniformity is arithmetic, for any range up
  to the largest word: the words accepted are a whole multiple of the range, each residue
  has as many of them as any other (a bijection between two residues' words), and at
  least half of all words are accepted.
  For `BitPacking` (assuming `PackingAssumption`: sizes are positive numbers, q and the
  bases are at least 2): `SizesAreExactHolds`, `OverheadIsPaddingHolds`, `RoundTripHolds`,
  `AcceptedIsCanonicalHolds`, for any width of byte, coefficient and stream. None of them
  is inductive, because packer and unpacker hold a part of a coefficient between calls.
  `PackingInv` says what (`Moved`): the digits that went in, the digits that came out and
  the accumulator are one number, so that moving a digit out changes neither. Padding is
  then the zero digits that complete the last byte; an accepted stream has nothing left in
  the accumulator, so its bytes and its coefficients are the same number, and numbers
  have one digit sequence of a length. The sizes are arithmetic of division rounded up.
* `ServiceProofs` (assuming `ServiceAssumption`: the backlog has room for one, and the
  sentinels are not clients or sessions): `ResultsAreOwn`, `RepliesAreExpected`,
  `RefusalsAreLate`, for any number of clients, any times to live, faults and restarts.
  `IInv` has `ConnectionInv` (a client is on at most one connection and waits there for
  one reply), `RequestInv` (what a client has sent is what its phase asks for, and the
  server works on what its peer sent), `StoreInv` (a stored session has its client's
  keys, and one that is gone has outlived its time), `ReplyInv` (a reply fits its request
  from the moment it is made until it is read) and `OutcomeInv` (how clients end). The
  store is used through `SessionStoreAbs`, which `SessionStoreProofs` shows to be
  implemented.
* `SeededEvalKeysProofs` (assuming `KeysAssumption`: sizes are positive numbers, the
  key's own distribution is not a seed): `MasksMatch`, `MasksAreFresh`. `IInv` has
  `BuildInv` (the rows made so far are all their seed was used for, in the order level
  by level and digit by digit), `WireInv` (keys sent are complete and their stream stands
  at their end), `UsedInv` (masks drawn, sent or not, lie before their stream's position)
  and
  `ServerInv` (row k of the server has the masks at k·N). `BuildFails` keeps it, since a
  build only sends what it has completed and never begins with a seed that was sent.
* `ScoringProofs` (assuming `ScoringAssumption`: sizes are positive, tables hold
  integers; and `NoOverflow`: dot products fit the centred message space, which is what
  `dot_product_can_overflow` and `MessagesFit` are for): `LoopsAreOrdered`,
  `SlotsAreOwned`, `ScoresAreExact`, `BestIsFound`, for any number of threads and any
  schedule (`BestIsFound`: the documents come before the padding, which decodes to 0, so
  only negative scores lose to it). `IInv` has `TaskInv` (threads hold different iterations below the next one
  to hand out), one conjunct for each table (`EvalInv`, `SelectorInv`, `MaskedInv`: a
  slot is filled with the right value exactly when its iteration is `Finished`),
  `ResultInv` (the reduced sums) and `BestInv`. Slots have one writer because the flattened
  index c·SplitsPerCluster + s determines c and s; scores are exact because the masked sum
  has one term that is not 0 and reduction modulo the plaintext modulus commutes with
  sums and products.
  For `Residues` (assuming `ParamsAssumption`: what `derive_dependent_parameters` has
  accepted, and positive sizes, which the code relies on without a check; and `NoiseFits`:
  the noise of a score stays below half a step of the encoding, which is what the
  parameters are chosen for): `ProductIsRead`, `OverflowCheckIsTight`, for any number and
  precision of values, q, moduli and bounded noise. `RingInv` keeps, for every ring and
  index, what was made of the raw value so far: its component (`SplitInv`), a phase that
  is the encoded component plus some noise (`EncryptInv`), the stored coefficient
  (`StoredInv`) and the score read (`ReadInv`). Each phase, times the modulus, misses q
  times its component by a bounded error (`EncodeFacts`, `TermFacts`); the errors of a sum
  stay below q/2, so rounding gives the dot product's residue in each ring (`RingScore`),
  recomposition its residue modulo the combined modulus (`RecomposeFacts`), and centring
  the number itself, as the overflow check bounds it (`DocProductBound`, `CenteredOf`).
* `ServerStartupProofs`, for `Deployment` and `ServerStartup` together (assuming
  `FilesAssumption`: fields are integers, counts are not negative and the precision is
  positive, which the code relies on without a check; and `DatabasesAssumption`: the
  converter writes as many values as its header says): `DocumentsHaveSlots`,
  `MessagesFit`, `SharesAreComplete`, `WrittenIsServed`,
  `ExceptionsStayInside`, `RepliesAreFitting`. `IInv` has `ParamsInv` (parameters in use are `Consistent`: derived
  sizes belong to the fields they are derived from, and the overflow check passed or the
  set is one of the hard-coded ones, which are shown to be small enough), `PhaseInv`,
  `DatabaseInv` (a server that has started holds the written database and it is valid),
  `SplitsInv` (a split computed has the values its position calls for), `DeadInv` and
  `QueryInv`. The rest is arithmetic of division rounded up, and that a file which is
  read to its end is the one written (a proper cut never parses).
* `TransportProofs` (assuming `TransportAssumption`: payloads are bytes and shorter than
  the length field can say; finding 8 is about longer ones): `MessagesArriveWhole`, that
  is `Spec => ImplementsExchange`. `IInv` has `Carried` (what an end has read, followed by
  what is on its way, begins its peer's frame), `Reading` and `Sending` (how far each is in
  its part) and `Turns` (the client reads after it has sent, the server sends after it
  has read). From `Carried` follows that the length an end reads is the length its peer
  wrote (`LengthIsRead`, little-endian digits and back), so both cut the stream at the
  same places. The server's last send maps to `ServerDone`, a completed receive to
  `ServerGets` or `ClientGets`, failed calls and an early close to `Fail`, and every other
  step, a partial send or receive among them, to stuttering.
  For `WireProtocol` (assuming `WireAssumption`: sizes are positive, cells have at least
  two values, messages have fields of their types and no vector is too long for its
  count): `RoundTripHolds`, `TruncatedIsRejectedHolds`, `AcceptedIsSerializedHolds`, for
  messages, seeds and rings of any size and any buffer. The argument is one contract
  (`Codec`) of a reader and a writer: where the buffer holds what was written, as far as
  it goes, the reader returns the value, or throws if the buffer ends too soon (`Reads`);
  and what it returns, of any buffer, is written as the cells gone through (`Sound`).
  Integers and seeds have it (two's complement there and back, `SignedCells` and
  `CellsSigned`), one after the other keeps it (`EachCodec`), so does a count before them
  (`CountedCodec`), and so every field and message has it. `WireInv` remembers what was
  sent and what is left of it, and what the reader made of it.

Sums, powers, digits and lengths are recursive functions in the modules that are proved
about. The library's induction theorems take an operator as a parameter and cannot be
used here; each proof that needs induction takes the set of numbers at which its claim
fails and rules out a least member (lemma `Induction` of those modules, from the
library's well-foundedness of < on the natural numbers).

Only model-checked: the liveness properties (`QueryIsReconstructed`, `MutexIsReleased`,
`EveryClientEnds`, `QueryEnds`, `KeysAreRebuilt`, `ExchangeCompletes`), since fairness and
ENABLED are out of the prover's reach. `service_stays_up` is a violation and has no
theorem. `ExceptionsStayInside` does not say that the server goes on: a
client that has gone or a query of other sizes may end it.

## 6. Findings

`src/server.cpp:97-100` calls the error reply "best-effort -- connection may already be
broken"; `send` without `MSG_NOSIGNAL` raises SIGPIPE, which nobody handles, and the
server ends (`service_stays_up`).

Other places where the code and a text about it differ, met while modelling. The
models follow the code, and where a property depends on the difference its condition
says so:

1. `include/server_session.hpp:14`: eviction "checked on lookup/insert";
   `register_session` evicts nothing (`Store`).
2. `src/server.cpp:12-13` lets a client reconnect "up to the session TTL"; the age is
   measured after the connection has waited in the backlog and from the moment of
   storing, so a client that is back in time can be refused (`RefusedOnlyIfLate`
   speaks of the lookup's time for this reason).
3. `src/server_db.cpp:79-81` says of padding that it "contributes nothing to the dot
   product"; a padded position scores 0 and is returned as the best document when all
   documents score below 0 (the second case of `BestDocumentFound`).
4. `apps/client.cpp:60` (and the seeded benchmarks) samples residues of `plaintext_modulus`, also for two component
   rings, where `tests/test_full_scoring_with_splits_seeded.cpp:133-140` requires values
   "canonical mod the COMBINED modulus": negative values give wrong scores (the
   condition on `sampled` of `ScoreIsDotProduct`).
5. `include/server_db.hpp:90-93` relies on `validate_uniform_cluster_sizes` to catch at
   startup what would otherwise be "silently producing wrong results"; the number of
   clusters is not compared. With fewer than `num_clusters`, `cluster_data_.at` throws
   inside the parallel loop and ends the process; with more, the others are left out
   (`SameClusters`).
6. `include/seeded_query.hpp:69-71`: "Swaps secret.lwe_sk's distribution for the duration
   (once per stream) and restores it afterward"; the restoration is the last statement
   (`seeded_query.cpp:87`), and an exception of an encryption
   (`seeded_distribution.cpp:53-57` throws) goes past it. `pc = "idle" => sk_dist =
   Original` is false for this reason: `DistributionRestored` says that a build that
   returns puts back what it found, which is the key's own distribution as long as no
   build has thrown, and a failed build's stream afterwards.
   `include/seeded_eval_keys.hpp:35-36` swaps the key's distribution "for the duration,
   then restoring it"; an exception leaves the seeded one (`BuildFails`). No later build
   draws a mask that the failed one has drawn, as `NoMaskReuse` of both modules shows.
7. `src/wire_protocol.cpp:52-53`: "a malformed/truncated message should fail loudly";
   bytes after the last field are ignored, and a response made for a larger ring is
   read as one of the receiver's (conditions of `RoundTrip` and `TruncatedIsRejected`,
   `SubSeq` in `AcceptedIsSerialized`).
8. `include/network.hpp:52` returns "one full framed message"; `src/network.cpp:64` casts
   the size to 32 bits without a check, so a longer payload arrives cut (`Len32`).
9. `include/db_polynomial.hpp:110-111` reduces "mod `modulus`"; the argument is not used
   and values are reduced modulo q (`StoredValue`), which is what the scores need.
10. `benchmarks/benchmark_latency_distributed.cpp:8-10`: "machines_per_ring = num_servers /
    r"; it is rounded up (`MachinesPerRing`), so with two rings and an odd number of
    servers one machine more is counted than there is.
11. `include/seeded_query.hpp:54-55`: the selector is "all 0 except a 1 at
    desired_cluster_index"; the index is compared with `num_clusters` nowhere, and one
    outside selects nothing.
12. `include/params_io.hpp:32-33` rounds a base up to a power of two; `params_io.cpp:71`
    takes it as it is, and the check in `params.cpp:23-32` is commented out.
13. `include/params.hpp:46,49` computes `cluster_size` and `clusters_per_server` by
    "int division"; both are rounded up (`Dependent`), which `EveryDocumentHasSlot`
    needs.

## 7. Not modelled

The encryption scheme (external library; noise growth beyond `Residues`' bounded
noise), AES and the randomness of seeds, JSON syntax and metadata files, printing,
shell scripts, the tests (read as documentation).

`timing.hpp` and the benchmark programs around it only measure and print: the operations
they call in sequence are modelled, their random inputs and tables are not.

In modelled components: exceptions of the library or of an allocation inside the server's
parallel loops (like those of `build_split`, they would end the process); what a query of
other sizes than the parameters' makes the server compute; `invalid_argument` for material that does not
match its own parameters in the packer (the builder makes what the packer checks); a
failing `accept` and the port argument of the server; host name resolution and the move
operations of `Socket`; the library's order of generation inside a key, which is taken
from the comments and loops of `seeded_eval_keys.cpp`; `products_can_overflow`, which
only tests call; recording and printing measured sizes.
