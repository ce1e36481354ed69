------------------------------ MODULE MCWiring ------------------------------
(* Command lines that set the data stores in every way, and the other      *)
(* backends one at a time, in environments that name one of two graph      *)
(* databases, a place for the manifest, by one variable or the other, and  *)
(* everything else; or nothing at all.                                     *)
EXTENDS Wiring, FiniteSets, TLC

Flagged(fields) ==
  {g \in [Field -> Modes \cup {Unset}] : \A f \in Field \ fields : g[f] = Unset}

MCOptions ==
  [flag: Flagged({"graphStore", "vectorStore"}), profile: {"local-persist"}, dryRun: {FALSE}]
  \cup [flag: {g \in Flagged({"graphStore", "vectorStore"}) : \A f \in Field : g[f] # "default"},
        profile: {Unset}, dryRun: {FALSE}]
  \cup [flag: {NoProfile}, profile: {"local-persist"}, dryRun: {TRUE}]
  \cup [flag: {[NoProfile EXCEPT !["manifestStore"] = "other"]}, profile: {"misspelt"},
        dryRun: {FALSE}]
  \cup [flag: {[NoProfile EXCEPT !["manifestStore"] = "default"]}, profile: {"local-persist"},
        dryRun: {FALSE}]
  \cup [flag: {[LocalPersist EXCEPT !["manifestStore"] = Unset, ![f] = "other"] :
                 f \in {"embedder", "reranker"}},
        profile: {Unset}, dryRun: {FALSE}]

Server == CHOOSE p \in Place : TRUE

MCEnv ==
  {e \in [at: [Credentials -> Place \cup {Unset}], manifestPath: {Server, Unset},
          repoPath: Place \cup {Unset}] :
     /\ \A f \in {"embedder", "reranker"} : e.at[f] = e.at["vectorStore"]
     /\ e.at["vectorStore"] = IF e.at["graphStore"] = Unset THEN Unset ELSE Server
     /\ e.manifestPath = IF e.at["graphStore"] = Server THEN Server ELSE Unset
     /\ e.repoPath = IF e.at["graphStore"] = Unset THEN Unset ELSE CHOOSE p \in Place : p # Server}

(* A process that only reads leaves everything as it was, and need not be  *)
(* followed further; the stores hold at most three nodes and rows in all,  *)
(* and two batches.                                                        *)
Wrote == last.command \in {"none", "index"}

Held == {x \in Place \X Node : graph[x[1]][x[2]] # Unset}
Embedded == {x \in Place \X Node : x[2] \in rows[x[1]]}
Recorded == {x \in Place \X Run : x[2] \in batches[x[1]]}
Bounded ==
  /\ Wrote /\ Cardinality(Recorded) <= 2
  /\ Cardinality(Held) + Cardinality(Embedded) <= 3

Symmetry == Permutations(Run) \cup Permutations(Node)
=============================================================================
