----------------------------- MODULE MCScoring -----------------------------
(***************************************************************************)
(* Three clusters of three documents in splits of two: the second split is *)
(* half padding.  The clusters are chosen so that against MCQueryEmbeddings*)
(* their best score is positive, zero, negative, and tied.                 *)
(***************************************************************************)
EXTENDS Scoring

Embedding(x, y) == [j \in 0..1 |-> IF j = 0 THEN x ELSE y]

Cluster(a, b, c) == [d \in 0..2 |-> CASE d = 0 -> a [] d = 1 -> b [] d = 2 -> c]

MCClusterData ==
  { Cluster(Embedding(1, -2), Embedding(1, -1), Embedding(-2, 2)),
    Cluster(Embedding(-2, -1), Embedding(-1, -2), Embedding(-2, -2)),
    Cluster(Embedding(0, -2), Embedding(1, 0), Embedding(1, 0)) }

MCQueryEmbeddings == {Embedding(1, 1), Embedding(-2, -2)}
=============================================================================
