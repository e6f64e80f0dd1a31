-------------------------- MODULE MCServerStartup --------------------------
(* Small parameter files of every shape: no document to more than two splits *)
(* hold, clusters and servers that do not divide, CRT moduli on both sides of *)
(* the lower bound, and files that cannot be read. One of them, WithDatabase, *)
(* has databases: clusters of three documents with two values each, two       *)
(* coefficients to a polynomial (the second split is padded), and databases   *)
(* that differ from it in each of the ways startup could meet.                *)
EXTENDS ServerStartup

File(defect, n, N, clusters, rings, p1, p) ==
  [defect |-> defect, n |-> n, q |-> "fits", plaintext_modulus |-> p,
   decomposition_base_ksk |-> 4, decomposition_base_prime |-> 8,
   database_size |-> N, embedding_length |-> 3, embedding_precision |-> 1,
   num_clusters |-> clusters, num_component_rings |-> rings, comp_ring_modulus |-> p1]
Shapes == {File("none", 2, N, clusters, 1, 0, 7) : N \in {0, 1, 4, 5, 9}, clusters \in 0 .. 3}
CrtFiles == {File("none", 2, 5, 3, rings, p1, p) : rings \in 0 .. 3, p1 \in {-3, 1, 3, 4}, p \in {7, 12}}
Defects ==
  {File(defect, 2, 5, 3, rings, 4, 7) : rings \in 1 .. 2,
     defect \in {"absent", "malformed", "n", "sigma", "comp_ring_modulus", "DFR"}}
  \cup {[File("none", 2, 5, 3, 1, 0, 7) EXCEPT !.q = "too_large"], File("none", 0, 5, 3, 1, 0, 7)}
WithDatabase ==
  [File("none", 2, 6, 2, 1, 0, 257) EXCEPT !.embedding_length = 2, !.embedding_precision = 4]
MCFiles == Shapes \cup CrtFiles \cup Defects \cup {WithDatabase}
MCArguments == {<<>>, <<1>>, <<2>>, <<3>>, <<5>>, <<0>>, <<3, 2>>, <<2, 3>>, <<NotANumber>>, <<1, NotANumber>>}

Database(l, sizes, first) ==
  [embedding_length |-> l, cluster_sizes |-> sizes,
   values |-> [c \in DOMAIN sizes |-> [k \in 1 .. l * sizes[c] |-> first + (c - 1) * 4 + k]]]
MCDatabases ==
  {Database(2, <<3, 3>>, -8), Database(2, <<3>>, -8), Database(2, <<3, 3, 3>>, -8),
   Database(2, <<3, 3>>, 0), Database(2, <<3, 2>>, -8), Database(1, <<3, 3>>, -8)}
=============================================================================
