--------------------------- MODULE MCBitPacking ---------------------------
(***************************************************************************)
(* Bytes of three bits.  Coefficients of two, three and four bits fall     *)
(* short of a byte, fill it and exceed it; a q that is a power of two      *)
(* leaves no residue unused.  The first two Params give streams of equal   *)
(* size with different q.                                                  *)
(***************************************************************************)
EXTENDS BitPacking

ParamsOf(q, ksk, prime, l) ==
  [q |-> q, n |-> 2, embedding_length |-> l, num_clusters |-> 2, num_component_rings |-> 2,
   splits_per_cluster |-> 1, decomposition_base_ksk |-> ksk, decomposition_base_prime |-> prime]

MCInMemory(q) == {-1, q + 1}
MCParamSets == {ParamsOf(3, 4, 2, 1), ParamsOf(4, 4, 2, 1), ParamsOf(5, 2, 8, 1), ParamsOf(9, 16, 4, 2)}
=============================================================================
