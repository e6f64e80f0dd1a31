----------------------------- MODULE Deployment -----------------------------
(***************************************************************************)
(* Where parameters come from and what is done with them before a query:   *)
(* params_io and the factories of Params fill the primary fields, derive_  *)
(* dependent_parameters checks them and computes the others, the tests     *)
(* change a field and derive again, and the distributed benchmarks divide  *)
(* the work over machines.                                                 *)
(*                                                                         *)
(* A parameter file is a record of its values with a field "defect": what  *)
(* is wrong with it ("absent", "malformed", the name of a missing field),  *)
(* or "none".                                                              *)
(***************************************************************************)
EXTENDS SignedRings, Sequences

CONSTANTS
  Files,       \* parameter files
  Arguments,   \* what may follow the file on the command line
  NotANumber   \* an argument std::stoll rejects

VARIABLES
  step,      \* "start", "ready", "failed" or "shared"
  program,   \* what uses the parameters: "test", "single", "distributed", "server"
  built_in,  \* whether the primary fields come from a factory
  params,
  shares     \* how the work is divided: one machine's share
vars == <<step, program, built_in, params, shares>>

Ceil(a, b) == (a + b - 1) \div b
Least(a, b) == IF a < b THEN a ELSE b

----------------------------------------------------------------------------
(* derive_dependent_parameters. *)

BadShape(p) ==
  \/ p.num_clusters <= 0 \/ p.num_servers <= 0 \/ p.n <= 0
  \/ p.q = "too_large"
  \/ p.num_component_rings \notin {1, 2}
TooSmall(p) == crt_combined_modulus(p.comp_ring_modulus) < p.plaintext_modulus

\* Mutant: the combined modulus is not compared with plaintext_modulus.
Rejected_AnyCombined(p) ==
  BadShape(p) \/ (p.num_component_rings = 2 /\ p.comp_ring_modulus < 2)
Rejected(p) ==
  BadShape(p) \/ (p.num_component_rings = 2 /\ (p.comp_ring_modulus < 2 \/ TooSmall(p)))

Dependent(p, cluster_size) ==
  [p EXCEPT !.cluster_size = Ceil(p.database_size, p.num_clusters),
            !.splits_per_cluster = Ceil(cluster_size, p.n),
            !.clusters_per_server = Ceil(p.num_clusters, p.num_servers),
            !.combined_component_ring_modulus =
                IF p.num_component_rings = 2 THEN crt_combined_modulus(p.comp_ring_modulus) ELSE 0]
\* Mutant: the splits are counted before the cluster size is derived again.
Derived_SplitsFirst(p) == Dependent(p, p.cluster_size)
Derived(p) == Dependent(p, Ceil(p.database_size, p.num_clusters))

\* The program continues with p, or ends with derive's exception.
Use(p) ==
  IF Rejected(p) THEN step' = "failed" /\ UNCHANGED params
                 ELSE step' = "ready" /\ params' = Derived(p)
Fail == step' = "failed" /\ UNCHANGED params

----------------------------------------------------------------------------
(* Primary fields. *)

Set(n, p, N, l, precision, clusters, servers, desired) ==
  [n |-> n, q |-> "fits", plaintext_modulus |-> p,
   decomposition_base_ksk |-> 4, decomposition_base_prime |-> 8,
   database_size |-> N, embedding_length |-> l, embedding_precision |-> precision,
   num_clusters |-> clusters, num_servers |-> servers, desired_cluster_index |-> desired,
   num_component_rings |-> 1, comp_ring_modulus |-> 0,
   cluster_size |-> 0, splits_per_cluster |-> 0, clusters_per_server |-> 0,
   combined_component_ring_modulus |-> 0]

\* A Params before its fields are set.
Fresh == [Set(0, 0, 0, 0, 0, 0, 0, 0)
            EXCEPT !.decomposition_base_ksk = 0, !.decomposition_base_prime = 0]

test_params == Set(2048, 71, 321383, 4, 2, 24, 10, 2)
test_params_component_rings ==
  [test_params EXCEPT !.num_component_rings = 2, !.comp_ring_modulus = 11]
test_database_params == Set(4096, 103, 5100, 10, 2, 2, 1, 0)
\* Derived once for the larger ring, then again.
test_database_params_with_splits == [Derived(test_database_params) EXCEPT !.n = 2048]
benchmark_params == [Set(2048, 100003, 3213835, 64, 4, 24, 10, 0)
                       EXCEPT !.decomposition_base_ksk = 16]

Copied == {"n", "q", "plaintext_modulus", "decomposition_base_ksk", "decomposition_base_prime",
           "database_size", "embedding_length", "embedding_precision", "num_clusters",
           "num_component_rings"}

\* Sizes are not negative ('/' of C++ rounds towards 0 there), nor is a shift by
\* embedding_precision - 1; the code relies on both and checks neither.
ASSUME FilesAssumption ==
  /\ \A file \in Files :
       /\ DOMAIN file = Copied \cup {"comp_ring_modulus", "defect"}
       /\ {file.n, file.plaintext_modulus, file.num_clusters, file.num_component_rings,
            file.comp_ring_modulus} \subseteq Int
       /\ {file.database_size, file.embedding_length} \subseteq Nat
       /\ file.embedding_precision \in Nat \ {0}
  /\ \A args \in Arguments : args \in Seq(Int \cup {NotANumber})
  /\ NotANumber \notin Int

Required(file) ==
  Copied \cup {"sigma"} \cup IF file.num_component_rings = 2 THEN {"comp_ring_modulus"} ELSE {}

\* load_params_from_json; a missing DFR is only not printed.
Load(file, num_servers, desired_cluster_index) ==
  IF file.defect \in {"absent", "malformed"} \cup Required(file)
     \/ file.num_component_rings \notin {1, 2}
  THEN Fail
  ELSE Use([field \in DOMAIN Fresh |->
              IF field \in Copied THEN file[field]
              ELSE CASE field = "comp_ring_modulus" ->
                          IF file.num_component_rings = 2 THEN file.comp_ring_modulus ELSE 0
                     [] field = "num_servers" -> num_servers
                     [] field = "desired_cluster_index" -> desired_cluster_index
                     [] OTHER -> Fresh[field]])

----------------------------------------------------------------------------
Init ==
  /\ step = "start" /\ built_in = FALSE /\ params = Fresh /\ shares = <<>>
  /\ program \in {"test", "single", "distributed", "server"}

\* An argument, or its default.
Argument(args, k, default) == IF Len(args) >= k THEN args[k] ELSE default

\* load_benchmark_params_from_args: num_servers only for a distributed program.
ServersAndCluster(args) ==
  IF program = "distributed" THEN <<Argument(args, 1, 1), Argument(args, 2, 0)>>
  ELSE <<1, Argument(args, 1, 0)>>

LoadFromArgs ==
  /\ step = "start" /\ program \in {"single", "distributed"}
  /\ \/ Use(benchmark_params) /\ built_in' = TRUE
     \/ \E file \in Files, args \in Arguments :
          /\ UNCHANGED built_in
          /\ LET given == ServersAndCluster(args)
             IN IF NotANumber \in {given[1], given[2]} THEN Fail ELSE Load(file, given[1], given[2])
  /\ UNCHANGED <<program, shares>>

\* The factories of the tests; two of them may be replaced by a file.
MakeTestParams ==
  /\ step = "start" /\ program = "test"
  /\ \/ \E p \in {test_params, test_params_component_rings, test_database_params,
                  test_database_params_with_splits} : Use(p) /\ built_in' = TRUE
     \/ \E file \in Files : Load(file, 1, 0) /\ UNCHANGED built_in
  /\ UNCHANGED <<program, shares>>

\* main of the server.
LoadForServer ==
  /\ step = "start" /\ program = "server"
  /\ \E file \in Files : Load(file, 1, 0)
  /\ UNCHANGED <<program, built_in, shares>>

\* A test replaces the database's shape and derives again.
Pin ==
  /\ step = "ready" /\ program = "test"
  /\ \/ \E size \in {params.n, params.n * params.num_clusters} :
          Use([params EXCEPT !.database_size = size])
     \/ Use([params EXCEPT !.database_size = 8, !.num_clusters = 2, !.embedding_length = 2])
  /\ UNCHANGED <<program, built_in, shares>>

\* run_one_query of the distributed benchmarks: the share of one machine, the
\* terms it switches being counted for every ring.
Divided(p, machines_per_ring, clusters_per_machine) ==
  LET total_query_terms == p.num_component_rings * p.embedding_length
      terms_per_machine == Ceil(p.embedding_length, machines_per_ring)
  IN [machines_per_ring |-> machines_per_ring, clusters_per_machine |-> clusters_per_machine,
      timed_query_terms |-> Least(p.num_component_rings * terms_per_machine, total_query_terms),
      total_query_terms |-> total_query_terms]
MachinesPerRing(p) == Ceil(p.num_servers, p.num_component_rings)
\* Mutant: "num_clusters / machines_per_ring" of the header, rounded down.
Shares_Floor(p) == Divided(p, MachinesPerRing(p), p.num_clusters \div MachinesPerRing(p))
Shares(p) == Divided(p, MachinesPerRing(p), Ceil(p.num_clusters, MachinesPerRing(p)))

DivideWork ==
  /\ step = "ready" /\ program = "distributed"
  /\ step' = "shared" /\ shares' = Shares(params)
  /\ UNCHANGED <<program, built_in, params>>

Next == LoadFromArgs \/ MakeTestParams \/ LoadForServer \/ Pin \/ DivideWork
Spec == Init /\ [][Next]_vars

----------------------------------------------------------------------------
(* Properties. *)

InUse == step \in {"ready", "shared"}

\* Every variable keeps its type; parameters in use have been checked.
\* (Checked as a part of EveryDocumentHasSlot.)
TypeOK ==
  /\ step \in {"start", "ready", "failed", "shared"} /\ built_in \in BOOLEAN
  /\ program \in {"test", "single", "distributed", "server"}
  /\ DOMAIN params = DOMAIN Fresh
  /\ InUse =>
       /\ {params.n, params.num_clusters, params.num_servers} \subseteq Nat \ {0}
       /\ params.num_component_rings \in {1, 2}
       /\ params.num_component_rings = 2 => params.comp_ring_modulus >= 2

\* Every document has a cluster, every document of a cluster a coefficient of
\* one of its splits, every cluster a server, and no split is left empty, also
\* after a test has changed the parameters and derived again.
EveryDocumentHasSlot ==
  TypeOK /\ (InUse =>
    /\ params.num_clusters * params.cluster_size >= params.database_size
    /\ params.splits_per_cluster * params.n >= params.cluster_size
    /\ (params.splits_per_cluster - 1) * params.n < params.cluster_size \/ params.cluster_size = 0
    /\ params.num_servers * params.clusters_per_server >= params.num_clusters)

\* Parameters that pass derive's check and the overflow check can carry the
\* worst dot product in the message space the client decodes from, although the
\* overflow check only knows plaintext_modulus and not the CRT moduli; the
\* hard-coded sets, and the tests' variations of them, do so unchecked.
MessageSpaceHolds ==
  InUse /\ (built_in \/ ~dot_product_can_overflow(params)) =>
    LET modulus == IF params.num_component_rings = 1 THEN params.plaintext_modulus
                   ELSE params.combined_component_ring_modulus
    IN \A v \in {WorstDotProduct(params), -WorstDotProduct(params)} :
         centered_residue(reduce_mod(v, modulus), modulus) = v

\* The share every machine is given covers all clusters and all query terms of
\* its ring when the division is not exact, and never reads past the query.
SharesCoverWork ==
  step = "shared" =>
    /\ shares.machines_per_ring * shares.clusters_per_machine >= params.num_clusters
    /\ shares.clusters_per_machine \in 1 .. params.num_clusters
    /\ shares.machines_per_ring * params.num_component_rings >= params.num_servers
    /\ shares.timed_query_terms <= shares.total_query_terms
    /\ shares.machines_per_ring * shares.timed_query_terms >= shares.total_query_terms
=============================================================================
