----------------------------- MODULE MCResidues -----------------------------
(* The repository's two test parameter sets with two terms of the dot        *)
(* product, and moduli just above, at and just below the overflow check's    *)
(* boundary (worst dot product 16), odd and even.                            *)
EXTENDS Residues

Set(rings, p, p1, l, precision) ==
  [num_component_rings |-> rings, plaintext_modulus |-> p, comp_ring_modulus |-> p1,
   embedding_length |-> l, embedding_precision |-> precision, q |-> 10007]

MCParamSets ==
  {Set(2, 71, 11, 2, 2), Set(1, 71, 0, 2, 2), Set(1, 34, 0, 1, 3), Set(1, 33, 0, 1, 3), Set(1, 32, 0, 1, 3),
   Set(1, 31, 0, 1, 3), Set(2, 33, 7, 1, 3)}
MCNoises == {-15, 0, 15}
=============================================================================
