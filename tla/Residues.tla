------------------------------ MODULE Residues ------------------------------
(***************************************************************************)
(* Signed values in modular rings: an embedding value is reduced, split by *)
(* CRT and encrypted for each component ring; the score of one document is *)
(* the sum of ciphertexts times stored database values mod q; the client   *)
(* decrypts each ring, recomposes and centres.                             *)
(*                                                                         *)
(* A ciphertext is its phase, what decryption sees: the encoded message    *)
(* plus the noise. q is small, and large enough for the noise the runs     *)
(* allow, as the real parameters are chosen to be.                         *)
(***************************************************************************)
EXTENDS Integers, SignedRings

CONSTANTS
  ParamSets,  \* records: the fields of Params used here
  Noises      \* the noise of a fresh ciphertext

\* derive_dependent_parameters has accepted the parameters; it does not check that
\* plaintext_modulus and embedding_precision are positive, which the code relies on.
ASSUME ParamsAssumption ==
  /\ Noises \subseteq Int
  /\ \A p \in ParamSets :
       /\ p.num_component_rings \in {1, 2}
       /\ {p.plaintext_modulus, p.q, p.embedding_precision} \subseteq Nat \ {0}
       /\ p.embedding_length \in Nat
       /\ p.num_component_rings = 2 =>
            /\ p.comp_ring_modulus \in Nat /\ p.comp_ring_modulus >= 2
            /\ crt_combined_modulus(p.comp_ring_modulus) >= p.plaintext_modulus

\* What rounding and noise add to one ciphertext, in units of 1 / modulus.
TermError(modulus, noise) ==
  modulus \div 2 + modulus * (IF noise >= 0 THEN noise ELSE -noise)

\* The parameters are chosen so that the noise of a score stays below half a step
\* of the encoding.
ASSUME NoiseFits ==
  \A p \in ParamSets : \A ring \in Rings(p), noise \in Noises :
    2 * (p.embedding_length * (max_abs_embedding_value(p) * TermError(component_ring_modulus(p, ring), noise))) < p.q

VARIABLES
  params, step,
  sampled,     \* the modulus of the caller's query: "plaintext" (the client program, the
               \* seeded benchmarks) or "combined" (the other benchmarks, the CRT tests)
  raw,         \* the query's signed values
  docs,        \* the document's signed values
  components,  \* CRT components of the query, [ring][j]
  phases,      \* phases of the embedding ciphertexts, [ring][j]
  stored,      \* the document's coefficients in the database, [ring][j]
  score        \* what the client reads: "none" before it has decrypted
ring_vars == <<params, step, sampled, raw, docs, components, phases, stored, score>>

----------------------------------------------------------------------------
(* The library: full_domain encoding, phases. *)

Encode(p, m, modulus) == (m * p.q + modulus \div 2) \div modulus
Decode(p, phi, modulus) == ((phi * modulus + p.q \div 2) \div p.q) % modulus

----------------------------------------------------------------------------
Indices == 0 .. params.embedding_length - 1

RingInit ==
  /\ params \in ParamSets /\ step = "sample" /\ sampled \in {"plaintext", "combined"}
  /\ raw \in [Indices -> SignedValues(params)]
  /\ docs \in [Indices -> SignedValues(params)]
  /\ components = <<>> /\ phases = <<>> /\ stored = <<>> /\ score = "none"

\* sample_signed_mod_value, which knows plaintext_modulus only, or sample_signed_value
\* reduced by the caller.
QueryValue(v) ==
  reduce_mod(v, IF sampled = "plaintext" THEN params.plaintext_modulus ELSE combined_modulus(params))

\* build_seeded_query splits each value; every component has its own encoding.
BuildQuery ==
  /\ step = "sample"
  /\ components' = [ring \in Rings(params) |->
       [j \in Indices |-> Split(params, QueryValue(raw[j]))[ring]]]
  /\ step' = "encrypt"
  /\ UNCHANGED <<params, sampled, raw, docs, phases, stored, score>>

Encrypt ==
  /\ step = "encrypt"
  /\ \E noise \in [Rings(params) -> [Indices -> Noises]] :
       phases' = [ring \in Rings(params) |-> [j \in Indices |->
         Encode(params, components[ring][j], component_ring_modulus(params, ring)) + noise[ring][j]]]
  /\ step' = "store"
  /\ UNCHANGED <<params, sampled, raw, docs, components, stored, score>>

\* Mutant: the value is reduced mod the ring's own modulus.
StoredValue_OwnModulus(v, modulus) == reduce_mod(v, modulus)
\* build_polynomial_from_raw_values: the ring's modulus is passed and not used.
StoredValue(v, modulus) == reduce_mod(v, params.q)

\* crt_split_database_polynomial, one coefficient of each of its polynomials.
StoreDocument ==
  /\ step = "store"
  /\ stored' = [ring \in Rings(params) |->
       [j \in Indices |-> StoredValue(docs[j], component_ring_modulus(params, ring))]]
  /\ step' = "score"
  /\ UNCHANGED <<params, sampled, raw, docs, components, phases, score>>

\* compute_split_score of each ring, then decryption of each and recomposition.
ScorePhase(ring) ==
  Total([j \in Indices |-> phases[ring][j] * stored[ring][j]], params.embedding_length) % params.q

Decrypted(ring) == Decode(params, ScorePhase(ring), component_ring_modulus(params, ring))

ScoreDocument ==
  /\ step = "score"
  /\ score' = centered_residue(Recompose(params, [ring \in Rings(params) |-> Decrypted(ring)]),
                               combined_modulus(params))
  /\ step' = "done"
  /\ UNCHANGED <<params, sampled, raw, docs, components, phases, stored>>

RingNext == BuildQuery \/ Encrypt \/ StoreDocument \/ ScoreDocument
RingSpec == RingInit /\ [][RingNext]_ring_vars

----------------------------------------------------------------------------
(* Properties. *)

\* Every variable keeps its type: components are residues of their rings.
\* (Checked as a part of ScoreIsDotProduct.)
RingTypeOK ==
  /\ params \in ParamSets /\ sampled \in {"plaintext", "combined"}
  /\ step \in {"sample", "encrypt", "store", "score", "done"}
  /\ {raw, docs} \subseteq [Indices -> SignedValues(params)]
  /\ step # "sample" => \A ring \in Rings(params), j \in Indices :
       components[ring][j] \in 0 .. component_ring_modulus(params, ring) - 1
  /\ step = "done" => score \in Int

\* "EXPECT_EQ(decoded_signed, true_sum)": when the parameters pass the overflow
\* check, the true dot product is read, whatever the values, the noise and the
\* number of rings; a query sampled mod plaintext_modulus fits one ring only.
ScoreIsDotProduct ==
  /\ RingTypeOK
  /\ step = "done" /\ ~dot_product_can_overflow(params)
     /\ (sampled = "plaintext" => params.num_component_rings = 1) =>
    score = Total([j \in Indices |-> raw[j] * docs[j]], params.embedding_length)

\* The overflow check is tight for an odd modulus: one that fails it loses the
\* product of the largest values.
OverflowIsReal ==
  step = "done" /\ dot_product_can_overflow(params) /\ params.num_component_rings = 1
  /\ params.plaintext_modulus % 2 = 1
  /\ (\A j \in Indices : raw[j] = min_embedding_value(params) /\ docs[j] = raw[j]) =>
    score # WorstDotProduct(params)
=============================================================================
