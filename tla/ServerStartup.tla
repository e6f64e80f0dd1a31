---------------------------- MODULE ServerStartup ----------------------------
(***************************************************************************)
(* The server program from its parameter and database files to its        *)
(* replies: main loads the parameters (module Deployment) and the database,*)
(* checks one against the other, then handles one connection at a time; a  *)
(* query rebuilds every split of the database.                             *)
(*                                                                         *)
(* The file is a sequence of cells: the magic number, counts, cluster      *)
(* sizes, then values in the converter's order. Scoring is left to module  *)
(* Scoring; here a query's result is the coefficients it was computed on.  *)
(***************************************************************************)
EXTENDS Deployment, SequencesExt, FiniteSets

CONSTANTS
  Databases,  \* what the converter may have written: embedding_length, cluster_sizes, values
  Sessions    \* session ids

ASSUME DatabasesAssumption ==
  \A d \in Databases :
    /\ d \in [embedding_length : Nat, cluster_sizes : Seq(Nat), values : Seq(Seq(Int))]
    /\ Len(d.values) = Len(d.cluster_sizes)
    /\ \A c \in DOMAIN d.values : Len(d.values[c]) = d.embedding_length * d.cluster_sizes[c]

VARIABLES
  phase,     \* "start", "stopped", "accept", "query" (scoring a query of the
             \* server's sizes), "misfit" (of other sizes), "dead" (an exception
             \* left the parallel region) or "killed" (SIGPIPE, access out of bounds)
  written,   \* the database the converter wrote
  damage,    \* what happened to its file since
  db,        \* the loaded ServerDatabase
  sessions,  \* ids with stored evaluation keys
  splits,    \* <<cluster, split>> -> [j -> coefficients], built so far for the query
  reply      \* the last request and the message sent for it, "none" if it was lost
server == <<phase, written, damage, db, sessions, splits, reply>>

----------------------------------------------------------------------------
(* The converter and the file. *)

\* Documents of the first k clusters.
Documents(sizes, k) ==
  LET total[c \in 0 .. k] == IF c = 0 THEN 0 ELSE total[c - 1] + sizes[c] IN total[k]
FileOf(d) ==
  <<"MDB1", Len(d.cluster_sizes), d.embedding_length>> \o d.cluster_sizes \o FlattenSeq(d.values)

NoDatabase == [embedding_length |-> 0, cluster_sizes |-> <<>>, values |-> <<>>]

\* How the server may find the file: <<what happened, the cells it reads>>.
Found(d) ==
  {<<"none", FileOf(d)>>, <<"magic", [FileOf(d) EXCEPT ![1] = "MDB2"]>>, <<"longer", FileOf(d) \o <<0, 1>>>>}
  \cup {<<"cut", SubSeq(FileOf(d), 1, k)>> : k \in 0 .. Len(FileOf(d)) - 1}

ServerInit ==
  /\ Init /\ phase = "start" /\ damage = "none" /\ written = NoDatabase /\ db = NoDatabase
  /\ sessions = {} /\ splits = <<>> /\ reply = <<"none", "none">>

----------------------------------------------------------------------------
(* load_from_file and the two checks of main. *)

Counts(file) == <<file[2], file[3]>>
SizesRead(file) == SubSeq(file, 4, 3 + Counts(file)[1])

Readable(file) ==
  Len(file) >= 3 /\ file[1] = "MDB1" /\ Len(file) >= 3 + Counts(file)[1]
  /\ Len(file) >= 3 + Counts(file)[1] + Counts(file)[2] * Documents(SizesRead(file), Counts(file)[1])

Loaded(file) ==
  LET sizes == SizesRead(file)
      l == Counts(file)[2]
      start(c) == 3 + Len(sizes) + l * Documents(sizes, c - 1)
  IN [embedding_length |-> l, cluster_sizes |-> sizes,
      values |-> [c \in DOMAIN sizes |-> SubSeq(file, start(c) + 1, start(c) + l * sizes[c])]]

InRange(d) == \A c \in DOMAIN d.values : Range(d.values[c]) \subseteq SignedValues(params)
UniformSizes(d) == Range(d.cluster_sizes) \subseteq {params.cluster_size}
\* Mutant: the length of the embeddings is not compared.
Valid_AnyLength(d) == InRange(d) /\ UniformSizes(d)
Valid(d) == d.embedding_length = params.embedding_length /\ InRange(d) /\ UniformSizes(d)

\* main up to the accept loop, after the parameters; one that failed ends it too.
Start ==
  /\ phase = "start" /\ program = "server" /\ step = "ready"
  /\ \E d \in Databases : \E found \in Found(d) :
       /\ written' = d /\ damage' = found[1]
       /\ IF Readable(found[2]) /\ Valid(Loaded(found[2]))
          THEN phase' = "accept" /\ db' = Loaded(found[2])
          ELSE phase' = "stopped" /\ UNCHANGED db
  /\ UNCHANGED <<vars, sessions, splits, reply>>

----------------------------------------------------------------------------
(* Requests; an exception of a handler is answered with an Error. A message  *)
(* to a client that has gone is lost, or its SIGPIPE, which the program       *)
(* neither blocks nor handles, ends the process.                              *)

Reply(request, message) ==
  \/ phase' = "accept" /\ \E sent \in {message, "none"} : reply' = <<request, sent>>
  \/ phase' = "killed" /\ reply' = <<request, "none">>

\* handle_registration: keys that cannot be rebuilt throw before they are stored.
HandleRegistration_StoredFirst(id, keys) ==
  /\ sessions' = sessions \cup {id}
  /\ Reply(id, IF keys = "good" THEN "RegistrationAck" ELSE "Error")
HandleRegistration(id, keys) ==
  /\ sessions' = IF keys = "good" THEN sessions \cup {id} ELSE sessions
  /\ Reply(id, IF keys = "good" THEN "RegistrationAck" ELSE "Error")

\* handle_query: without a session an Error, as for a query of another number of
\* rings, which reconstruct_query refuses. No other size of the query's vectors
\* is compared with the parameters before process_query begins.
HandleQuery(id) ==
  \/ Reply(id, "Error") /\ UNCHANGED splits
  \/ /\ id \in sessions
     /\ splits' = <<>> /\ phase' \in {"query", "misfit"} /\ reply' = <<id, "none">>

\* The accept loop takes the next connection; a message that cannot be read, of
\* another type, or malformed gets an Error.
Accept ==
  /\ phase = "accept"
  /\ \/ \E id \in Sessions, keys \in {"good", "bad"} :
          HandleRegistration(id, keys) /\ UNCHANGED splits
     \/ \E id \in Sessions : HandleQuery(id) /\ UNCHANGED sessions
     \/ Reply("none", "Error") /\ UNCHANGED <<sessions, splits>>
  /\ UNCHANGED <<vars, written, damage, db>>

\* A session's time to live passes.
Expire ==
  /\ phase = "accept" /\ \E id \in sessions : sessions' = sessions \ {id}
  /\ UNCHANGED <<vars, phase, written, damage, db, splits, reply>>

Pairs == (1 .. params.num_clusters) \X (0 .. params.splits_per_cluster - 1)

\* build_split's coefficient i of polynomial j: 0 after the cluster's end.
\* Mutant: the values are taken polynomial by polynomial.
Coefficient_PolynomialMajor(c, j, embedding_idx) ==
  IF embedding_idx < db.cluster_sizes[c]
  THEN db.values[c][(j - 1) * db.cluster_sizes[c] + embedding_idx + 1] ELSE 0
Coefficient(c, j, embedding_idx) ==
  IF embedding_idx < db.cluster_sizes[c]
  THEN db.values[c][embedding_idx * db.embedding_length + j] ELSE 0

Processing == phase \in {"query", "misfit"}

\* One iteration of the scoring loop: build_split throws for another embedding
\* length, .at() for a missing cluster, and an exception that leaves an OpenMP
\* region ends the process. A misfit's tables have no entry for some selector
\* or too many for db_split: the iteration goes on with what it reads out of
\* bounds, or ends the process.
BuildSplit(c, s) ==
  /\ Processing /\ <<c, s>> \in Pairs /\ <<c, s>> \notin DOMAIN splits
  /\ IF db.embedding_length # params.embedding_length \/ c > Len(db.values)
     THEN phase' = "dead" /\ UNCHANGED splits
     ELSE /\ splits' = [pair \in DOMAIN splits \cup {<<c, s>>} |->
               IF pair # <<c, s>> THEN splits[pair]
               ELSE [j \in 1 .. params.embedding_length |->
                       [i \in 0 .. params.n - 1 |-> Coefficient(c, j, s * params.n + i)]]]
          /\ phase' \in IF phase = "misfit" THEN {"misfit", "killed"} ELSE {phase}
  /\ UNCHANGED <<vars, written, damage, db, sessions, reply>>

Respond ==
  /\ Processing /\ DOMAIN splits = Pairs
  /\ Reply(reply[1], "QueryResponse")
  /\ UNCHANGED <<vars, written, damage, db, sessions, splits>>

ServerNext ==
  \/ Next /\ UNCHANGED server
  \/ Start \/ Accept \/ Expire \/ Respond
  \/ \E c \in 1 .. params.num_clusters, s \in 0 .. params.splits_per_cluster - 1 : BuildSplit(c, s)
ServerSpec == ServerInit /\ [][ServerNext]_<<vars, server>>

----------------------------------------------------------------------------
(* Properties. *)

Serving == phase = "accept" \/ Processing

\* Every variable keeps its type; a coefficient the server computes on is in the
\* range the overflow check of the parameters counts with.
\* (Checked as a part of ServesWhatWasWritten.)
ServerTypeOK ==
  /\ phase \in {"start", "stopped", "accept", "query", "misfit", "dead", "killed"}
  /\ damage \in {"none", "magic", "longer", "cut"} /\ sessions \subseteq Sessions
  /\ splits = <<>> \/ DOMAIN splits \subseteq Pairs
  /\ reply[2] \in {"none", "Error", "RegistrationAck", "QueryResponse"}
  /\ \A pair \in DOMAIN splits :
       splits[pair] \in [1 .. params.embedding_length -> [0 .. params.n - 1 -> SignedValues(params)]]

SameClusters == Len(written.cluster_sizes) = params.num_clusters

\* A server that started serves the database that was written: a file that was
\* cut anywhere, or is of another kind, is refused. When it has computed a query,
\* every value of every document was the one coefficient the client's global
\* index names and all others were zero, provided that the database has as many
\* clusters as the parameters say, which startup does not check.
ServesWhatWasWritten ==
  /\ ServerTypeOK
  /\ Serving => damage \in {"none", "longer"} /\ db = written
  /\ Serving /\ SameClusters /\ DOMAIN splits = Pairs => \A pair \in Pairs :
       \A j \in 1 .. params.embedding_length, i \in 0 .. params.n - 1 :
         LET document == pair[2] * params.n + i
         IN splits[pair][j][i] =
              IF document < params.cluster_size
              THEN written.values[pair[1]][document * written.embedding_length + j] ELSE 0

\* The startup checks keep build_split's exceptions out of the parallel region,
\* from where they would end the process: none occurs for any query on a server
\* with as many clusters as its parameters say. It is not said that the server
\* lives: a misfit or SIGPIPE may end it, and so may exceptions of the library
\* or of an allocation, which are not modelled.
NoExceptionEscapes == SameClusters => phase # "dead"

\* A registration answered with an error leaves no session behind, a response is
\* only sent while the session's keys are stored, for all pairs of that query.
RepliesFit ==
  [][/\ sessions' \ sessions # {} => reply'[2] \in {"none", "RegistrationAck"}
     /\ reply'[2] = "QueryResponse" /\ reply' # reply =>
          reply'[1] \in sessions /\ DOMAIN splits' = Pairs]_<<vars, server>>
=============================================================================
