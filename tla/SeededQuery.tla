---------------------------- MODULE SeededQuery ----------------------------
(***************************************************************************)
(* The seed-compressed query.  The client encrypts an embedding and a      *)
(* selector vector drawing every mask "a" from a seeded stream per         *)
(* component ring, and sends only the seeds and the "b" values; the server *)
(* rebuilds the ciphertexts by replaying the streams.                      *)
(*                                                                         *)
(* A "b" value is the record of what it was computed from: the stream and  *)
(* the position of the first of its Dim mask values, and the message.  A   *)
(* ciphertext decrypts exactly when the server pairs it with those masks.  *)
(* A position counts the values next() has returned on a stream (what it   *)
(* consumes of the keystream is the subject of module KeyStream).          *)
(***************************************************************************)
EXTENDS Integers, Sequences

CONSTANTS
  NumRings,         \* params.num_component_rings
  EmbeddingLength,  \* params.embedding_length
  NumClusters,      \* params.num_clusters
  Digits,           \* LWE ciphertexts in one gadget ciphertext of the selector
  Dim,              \* mask values in one LWE ciphertext
  MaxQueries,       \* bound: queries one client key builds
  CanFail           \* whether a build may throw while it encrypts

ASSUME SizesAreCounts ==
  /\ NumRings \in Nat \ {0}
  /\ EmbeddingLength \in Nat \ {0}
  /\ NumClusters \in Nat \ {0}
  /\ Digits \in Nat \ {0}
  /\ Dim \in Nat \ {0}
  /\ MaxQueries \in Nat
  /\ CanFail \in BOOLEAN

Rings == 0 .. NumRings - 1
SelectorLength == NumClusters * Digits
Original == -1          \* the secret key's own, unseeded distribution
NoCluster == -1

\* The stream that the failed build of query q has left in the key; the key
\* has its own distribution while no build has failed.
LeftBy(q) == Original - q

VARIABLES
  pc,                   \* build_seeded_query: idle, embed, select
  queries,              \* queries begun with this key
  nextSeed,             \* seeds below it have been generated
  seeds,                \* wire.seeds
  desired,              \* desired_cluster_index
  ring,                 \* the loop index k
  sk_dist,              \* what secret.lwe_sk draws its masks from
  original_dist,        \* the distribution set_unif_dist returned
  client_pos,           \* position of the client's dists[k]
  embedding_b_values,   \* wire.embedding_b_values, [component_ring][j]
  selector_b_values,    \* wire.selector_b_values, clusters one after the other
  log,                  \* history: every encryption under this key
  failed,               \* history: the last query whose build threw, 0 for none
  server_pc,            \* reconstruct_query: idle, rings, selector, done
  server_pos,           \* position of the server's dists[k]
  a_values,             \* masks drawn so far for the ciphertext being rebuilt
  embedding_cts,        \* result.embedding_cts
  selector_cts          \* result.selector_cts

client_vars == <<pc, queries, nextSeed, seeds, desired, ring, sk_dist, original_dist,
                 client_pos, embedding_b_values, selector_b_values, log, failed>>
server_vars == <<server_pc, server_pos, a_values, embedding_cts, selector_cts>>
vars == <<client_vars, server_vars>>

----------------------------------------------------------------------------
(* Messages and ciphertexts. *)

EmbeddingMsg(k, j) == <<"embedding", k, j>>

\* Digit (i-1) % Digits of the gadget encryption of the bit of cluster
\* (i-1) \div Digits.
SelectorMsg(i) ==
  <<"selector", i, IF (i - 1) \div Digits = desired THEN 1 ELSE 0>>

B(d, m) == [query |-> queries, seed |-> seeds[d], at |-> client_pos[d], msg |-> m]

\* The masks b was encrypted with.
Masks(b) == [x \in 1..Dim |-> b.at + x - 1]

Decrypts(ct) == ct.seed = ct.b.seed /\ ct.a = Masks(ct.b)

----------------------------------------------------------------------------
(* Client: build_seeded_query. *)

Init ==
  /\ pc = "idle" /\ queries = 0 /\ nextSeed = 0
  /\ seeds = [k \in Rings |-> 0]
  /\ desired = NoCluster
  /\ ring = 0
  /\ sk_dist = Original /\ original_dist = Original
  /\ client_pos = [k \in Rings |-> 0]
  /\ embedding_b_values = [k \in Rings |-> <<>>]
  /\ selector_b_values = <<>>
  /\ log = {} /\ failed = 0
  /\ server_pc = "idle"
  /\ server_pos = [k \in Rings |-> 0]
  /\ a_values = [k \in Rings |-> <<>>]
  /\ embedding_cts = [k \in Rings |-> <<>>]
  /\ selector_cts = <<>>

\* A client builds its next query after the answer to the last one, or after
\* the last build has thrown.
BeginQueryWith(c, newSeeds) ==
  /\ pc = "idle" /\ server_pc \in {"idle", "done"}
  /\ queries < MaxQueries
  /\ pc' = "embed"
  /\ queries' = queries + 1
  /\ seeds' = newSeeds
  /\ nextSeed' = nextSeed + NumRings
  /\ desired' = c
  /\ ring' = 0
  /\ original_dist' = sk_dist
  /\ sk_dist' = 0
  /\ client_pos' = [k \in Rings |-> 0]
  /\ embedding_b_values' = [k \in Rings |-> <<>>]
  /\ selector_b_values' = <<>>
  /\ server_pc' = "idle"
  /\ UNCHANGED <<log, failed, server_pos, a_values, embedding_cts, selector_cts>>

\* Mutant: one seed for all rings.
BeginQuery_OneSeed(c) == BeginQueryWith(c, [k \in Rings |-> nextSeed])

\* generate_fresh_seed never returns a seed twice.
BeginQuery(c) == BeginQueryWith(c, [k \in Rings |-> nextSeed + k])

\* encode_and_encrypt draws from the distribution d the secret key then has.
EncryptEmbeddingWith(d, nextRing) ==
  LET b == B(d, EmbeddingMsg(ring, Len(embedding_b_values[ring]) + 1)) IN
  /\ pc = "embed"
  /\ Len(embedding_b_values[ring]) < EmbeddingLength
  /\ sk_dist' = d
  /\ client_pos' = [client_pos EXCEPT ![d] = @ + Dim]
  /\ embedding_b_values' = [embedding_b_values EXCEPT ![ring] = Append(@, b)]
  /\ log' = log \cup {b}
  /\ ring' = nextRing
  /\ UNCHANGED <<pc, queries, nextSeed, seeds, desired, original_dist, selector_b_values,
                 failed>>
  /\ UNCHANGED server_vars

NextRing == IF ring + 1 < NumRings THEN ring + 1 ELSE 0

EncryptEmbedding == EncryptEmbeddingWith(ring, NextRing)

StartSelectorWith(d) ==
  /\ pc = "embed"
  /\ Len(embedding_b_values[ring]) = EmbeddingLength
  /\ pc' = "select"
  /\ sk_dist' = d
  /\ UNCHANGED <<queries, nextSeed, seeds, desired, ring, original_dist, client_pos,
                 embedding_b_values, selector_b_values, log, failed>>
  /\ UNCHANGED server_vars

\* Mutant: the selector goes on with the last ring's stream.
StartSelector_KeepStream == StartSelectorWith(sk_dist)

StartSelector == StartSelectorWith(0)

EncryptSelector ==
  LET b == B(sk_dist, SelectorMsg(Len(selector_b_values) + 1)) IN
  /\ pc = "select"
  /\ Len(selector_b_values) < SelectorLength
  /\ client_pos' = [client_pos EXCEPT ![sk_dist] = @ + Dim]
  /\ selector_b_values' = Append(selector_b_values, b)
  /\ log' = log \cup {b}
  /\ UNCHANGED <<pc, queries, nextSeed, seeds, desired, ring, sk_dist, original_dist,
                 embedding_b_values, failed>>
  /\ UNCHANGED server_vars

\* The distribution is restored and the query sent; reconstruct_query begins
\* with fresh streams of the received seeds.
FinishQueryWith(d) ==
  /\ pc = "select"
  /\ Len(selector_b_values) = SelectorLength
  /\ pc' = "idle"
  /\ sk_dist' = d
  /\ server_pc' = "rings"
  /\ server_pos' = [k \in Rings |-> 0]
  /\ a_values' = [k \in Rings |-> <<>>]
  /\ embedding_cts' = [k \in Rings |-> <<>>]
  /\ selector_cts' = <<>>
  /\ UNCHANGED <<queries, nextSeed, seeds, desired, ring, original_dist, client_pos,
                 embedding_b_values, selector_b_values, log, failed>>

\* Mutant: the seeded stream stays in the secret key.
FinishQuery_NotRestored == FinishQueryWith(sk_dist)

FinishQuery == FinishQueryWith(original_dist)

\* The keystream or an allocation fails: the exception leaves
\* build_seeded_query past the restoration, and nothing is sent.
BuildFails ==
  /\ CanFail /\ pc # "idle"
  /\ pc' = "idle"
  /\ sk_dist' = LeftBy(queries)
  /\ failed' = queries
  /\ UNCHANGED <<queries, nextSeed, seeds, desired, ring, original_dist, client_pos,
                 embedding_b_values, selector_b_values, log>>
  /\ UNCHANGED server_vars

----------------------------------------------------------------------------
(* Server: reconstruct_query, one thread per component ring, then the      *)
(* selector on the stream of ring 0.                                       *)

\* The ring's thread still has embedding ciphertexts to rebuild.
RingBusy(k) ==
  server_pc = "rings" /\ Len(embedding_cts[k]) < Len(embedding_b_values[k])

SelectorBusy ==
  server_pc = "selector" /\ Len(selector_cts) < Len(selector_b_values)

\* ct[i] = a_stream.next()
DrawMask(k) ==
  /\ RingBusy(k) \/ (k = 0 /\ SelectorBusy)
  /\ Len(a_values[k]) < Dim
  /\ a_values' = [a_values EXCEPT ![k] = Append(@, server_pos[k])]
  /\ server_pos' = [server_pos EXCEPT ![k] = @ + 1]
  /\ UNCHANGED <<server_pc, embedding_cts, selector_cts>>
  /\ UNCHANGED client_vars

Rebuilt(k, b) == [seed |-> seeds[k], a |-> a_values[k], b |-> b]

RebuildEmbedding(k) ==
  LET b == embedding_b_values[k][Len(embedding_cts[k]) + 1] IN
  /\ RingBusy(k)
  /\ Len(a_values[k]) = Dim
  /\ embedding_cts' = [embedding_cts EXCEPT ![k] = Append(@, Rebuilt(k, b))]
  /\ a_values' = [a_values EXCEPT ![k] = <<>>]
  /\ UNCHANGED <<server_pc, server_pos, selector_cts>>
  /\ UNCHANGED client_vars

\* Mutant: the barrier waits for one ciphertext more than was sent.
RingsJoined_OffByOne ==
  /\ server_pc = "rings"
  /\ \A k \in Rings : Len(embedding_cts[k]) = Len(embedding_b_values[k]) + 1
  /\ server_pc' = "selector"
  /\ UNCHANGED <<server_pos, a_values, embedding_cts, selector_cts>>
  /\ UNCHANGED client_vars

\* Mutant: the parallel loop has no barrier.
RingsJoined_NoBarrier ==
  /\ server_pc = "rings"
  /\ server_pc' = "selector"
  /\ UNCHANGED <<server_pos, a_values, embedding_cts, selector_cts>>
  /\ UNCHANGED client_vars

\* The implicit barrier at the end of the parallel loop.
RingsJoined ==
  /\ server_pc = "rings"
  /\ \A k \in Rings : Len(embedding_cts[k]) = Len(embedding_b_values[k])
  /\ server_pc' = "selector"
  /\ UNCHANGED <<server_pos, a_values, embedding_cts, selector_cts>>
  /\ UNCHANGED client_vars

RebuildSelector ==
  LET b == selector_b_values[Len(selector_cts) + 1] IN
  /\ SelectorBusy
  /\ Len(a_values[0]) = Dim
  /\ selector_cts' = Append(selector_cts, Rebuilt(0, b))
  /\ a_values' = [a_values EXCEPT ![0] = <<>>]
  /\ UNCHANGED <<server_pc, server_pos, embedding_cts>>
  /\ UNCHANGED client_vars

Reconstructed ==
  /\ server_pc = "selector"
  /\ Len(selector_cts) = Len(selector_b_values)
  /\ server_pc' = "done"
  /\ UNCHANGED <<server_pos, a_values, embedding_cts, selector_cts>>
  /\ UNCHANGED client_vars

----------------------------------------------------------------------------
Client ==
  \/ \E c \in 0 .. NumClusters - 1 : BeginQuery(c)
  \/ EncryptEmbedding
  \/ StartSelector
  \/ EncryptSelector
  \/ FinishQuery
  \/ BuildFails

Server ==
  \/ \E k \in Rings : DrawMask(k) \/ RebuildEmbedding(k)
  \/ RingsJoined
  \/ RebuildSelector
  \/ Reconstructed

Next == Client \/ Server

Spec == Init /\ [][Next]_vars

\* The client's loops and every thread of the server run to their end unless
\* the build throws, which it need not; a new query need never be begun.
FairSpec ==
  /\ Spec
  /\ WF_vars(EncryptEmbedding \/ StartSelector \/ EncryptSelector \/ FinishQuery)
  /\ \A k \in Rings : WF_vars(DrawMask(k) \/ RebuildEmbedding(k))
  /\ WF_vars(RingsJoined \/ RebuildSelector \/ Reconstructed)

----------------------------------------------------------------------------
(* Properties. *)

Messages == {<<"embedding", k, j>> : k \in Rings, j \in 1..EmbeddingLength}
       \cup {<<"selector", i, bit>> : i \in 1..SelectorLength, bit \in {0, 1}}
BValues == [query : Nat, seed : Nat, at : Nat, msg : Messages]
Ciphertexts == [seed : Nat, a : Seq(Nat), b : BValues]

LoopTypeOK ==
  /\ pc \in {"idle", "embed", "select"}
  /\ queries \in Nat /\ nextSeed \in Nat
  /\ desired \in -1 .. NumClusters - 1
  /\ ring \in Rings
  /\ {sk_dist, original_dist} \subseteq Rings \cup {LeftBy(q) : q \in Nat}
  /\ failed \in 0 .. queries

WireTypeOK ==
  /\ seeds \in [Rings -> Nat]
  /\ client_pos \in [Rings -> Nat]
  /\ embedding_b_values \in [Rings -> Seq(BValues)]
  /\ selector_b_values \in Seq(BValues)
  /\ log \subseteq BValues

ServerTypeOK ==
  /\ server_pc \in {"idle", "rings", "selector", "done"}
  /\ server_pos \in [Rings -> Nat]
  /\ a_values \in [Rings -> Seq(Nat)]
  /\ embedding_cts \in [Rings -> Seq(Ciphertexts)]
  /\ selector_cts \in Seq(Ciphertexts)

\* Every variable of build_seeded_query and reconstruct_query holds a value of
\* its C++ type, and the loop index names a ring.
TypeOK == LoopTypeOK /\ WireTypeOK /\ ServerTypeOK

\* Whatever the schedule of the ring threads, each ciphertext the server has
\* rebuilt carries the masks it was encrypted with, and is the one its slot
\* stands for: component k of value j, or digit i of the selector's unit
\* vector (reconstruct_query replays build_seeded_query's exact order).
ServerReplaysClient ==
  server_pc # "idle" =>
    /\ \A k \in Rings : \A j \in 1..Len(embedding_cts[k]) :
         Decrypts(embedding_cts[k][j]) /\ embedding_cts[k][j].b.msg = EmbeddingMsg(k, j)
    /\ \A i \in 1..Len(selector_cts) :
         Decrypts(selector_cts[i]) /\ selector_cts[i].b.msg = SelectorMsg(i)

\* A finished reconstruction has every ciphertext: none is lost between the
\* parallel loop and the selector.
ReconstructionComplete ==
  server_pc = "done" =>
    /\ \A k \in Rings : Len(embedding_cts[k]) = EmbeddingLength
    /\ Len(selector_cts) = SelectorLength

\* No mask value is used for two encryptions under one key, within a query,
\* across queries or by a build that threw and the next one ("reusing a across
\* two encryptions under the same key").
NoMaskReuse ==
  \A b1, b2 \in log :
    b1 # b2 /\ b1.seed = b2.seed =>
      b1.at + Dim <= b2.at \/ b2.at + Dim <= b1.at

\* build_seeded_query gives the key back with the distribution it came with:
\* its own as long as no build has thrown, and from the first one that threw
\* on the stream that the last such build left, which every later build takes
\* for the original one and puts back.
DistributionRestored == pc = "idle" => sk_dist = LeftBy(failed)

\* A query begun is in the end rebuilt by the server, unless its own build
\* throws.
QueryIsReconstructed == pc = "embed" ~> (server_pc = "done" \/ failed = queries)
=============================================================================
