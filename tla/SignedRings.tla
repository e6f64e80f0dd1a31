---------------------------- MODULE SignedRings ----------------------------
(***************************************************************************)
(* The arithmetic under the protocol: signed embedding values, residues,   *)
(* and the two-ring CRT with moduli p1 and p1 - 1. p is a record with the  *)
(* fields of Params it needs.                                              *)
(***************************************************************************)
EXTENDS Integers

\* A variable to which a loop adds n terms.
Total(term, n) ==
  LET total[k \in 0 .. n] == IF k = 0 THEN 0 ELSE total[k - 1] + term[k - 1] IN total[n]

(* db_polynomial: signed values. *)

min_embedding_value(p) == -(2 ^ (p.embedding_precision - 1))
max_embedding_value(p) == 2 ^ (p.embedding_precision - 1) - 1
max_abs_embedding_value(p) == -min_embedding_value(p)
SignedValues(p) == min_embedding_value(p) .. max_embedding_value(p)

WorstDotProduct(p) == max_abs_embedding_value(p) * max_abs_embedding_value(p) * p.embedding_length

\* Mutant: half an odd modulus is rounded down.
dot_product_can_overflow_Early(p) == WorstDotProduct(p) >= p.plaintext_modulus \div 2
dot_product_can_overflow(p) == WorstDotProduct(p) >= (p.plaintext_modulus + 1) \div 2

\* '%' of C++ takes the sign of the dividend.
Remainder(v, m) == IF v >= 0 THEN v % m ELSE -((-v) % m)
reduce_mod(v, m) == LET reduced == Remainder(v, m)
                    IN IF reduced < 0 THEN reduced + m ELSE reduced
centered_residue(v, m) == IF v > m \div 2 THEN v - m ELSE v

----------------------------------------------------------------------------
(* crt and component_ring_modulus. *)

crt_combined_modulus(p1) == p1 * (p1 - 1)
crt_split(v, p1) == <<Remainder(v, p1), Remainder(v, p1 - 1)>>

crt_recompose(r1, r2, p1) ==
  LET diff == Remainder(r2 - r1, p1 - 1)
  IN r1 + p1 * (IF diff < 0 THEN diff + (p1 - 1) ELSE diff)

Rings(p) == 1 .. p.num_component_rings
component_ring_modulus(p, ring) ==
  IF p.num_component_rings = 1 THEN p.plaintext_modulus
  ELSE p.comp_ring_modulus - (ring - 1)

\* The modulus of the whole message space.
combined_modulus(p) ==
  IF p.num_component_rings = 1 THEN p.plaintext_modulus
  ELSE crt_combined_modulus(p.comp_ring_modulus)

Split(p, v) == IF p.num_component_rings = 1 THEN <<v>> ELSE crt_split(v, p.comp_ring_modulus)
Recompose(p, residues) ==
  IF p.num_component_rings = 1 THEN residues[1]
  ELSE crt_recompose(residues[1], residues[2], p.comp_ring_modulus)
=============================================================================
