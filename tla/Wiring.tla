------------------------------- MODULE Wiring -------------------------------
(***************************************************************************)
(* The CLI: wireRuntime builds a runtime from an IndexConfig and the       *)
(* environment; the commands run one process after the other, and share    *)
(* what is on disk and nothing else.                                       *)
(*                                                                         *)
(* Every field of the configuration has a default mode, which lives in the *)
(* process, and one other: neo4j, lancedb, sqlite or http, at the place    *)
(* the environment names.  An index run may stop after any of its steps,   *)
(* by a crash or by an error, and no command reads whether its batch is    *)
(* committed.  How the stores come to hold what they hold is the business  *)
(* of their own modules; limits are those of Retrieval and not reached     *)
(* here.  A table's pin is LanceStore's: an upsert that it refuses is a run *)
(* that stopped there.  A search compares nothing but lengths, and its     *)
(* vector has that of the table whichever embedders wrote and ask: all of  *)
(* them insist on EMBEDDING_DIM.                                           *)
(***************************************************************************)
EXTENDS Naturals, Sequences

CONSTANTS Run,      \* index runs
          Node,     \* the nodes a run may find
          Options,  \* the command lines given
          Env,      \* the environments they are given in
          Place,    \* where a database or a server is
          Unset     \* an option, a variable or a node that is not there

Stores == {"graphStore", "vectorStore", "manifestStore"}
Field == Stores \cup {"embedder", "reranker"}
Credentials == Field \ {"manifestStore"}
Modes == {"default", "other"}

Default == [f \in Field |-> "default"]
LocalPersist == [f \in Field |-> IF f \in Stores THEN "other" ELSE Unset]
NoProfile == [f \in Field |-> Unset]

ASSUME WiringAssumption ==
  /\ Options \subseteq [flag: [Field -> Modes \cup {Unset}],
                        profile: {Unset, "local-persist", "misspelt"},
                        dryRun: BOOLEAN]
  /\ Env \subseteq [at: [Credentials -> Place \cup {Unset}], manifestPath: Place \cup {Unset}, repoPath: Place \cup {Unset}]
  /\ Unset \notin Place \cup Modes \cup {"local-persist", "misspelt"}
  /\ Unset \notin Run

VARIABLES env,      \* the environment of the next process
          graph,    \* the run that last wrote each node of each neo4j database
          rows,     \* the nodes with vectors in each lancedb table
          batches,  \* the runs with a batch in each sqlite database
          told,     \* history: what the command lines asked to be written
          last      \* what the last process did

disk == <<graph, rows, batches>>
wiringVars == <<env, disk, told, last>>

NoNodes == [n \in Node |-> Unset]

None == [command |-> "none", threw |-> FALSE, asked |-> {}, named |-> {},
         blind |-> FALSE, found |-> NoNodes]

-----------------------------------------------------------------------------
(* wireRuntime.                                                            *)

(* A backend whose variables are missing is an AdapterUnavailableError.    *)
Wires(config) == \A f \in Credentials : config[f] = "other" => env.at[f] # Unset

Or(mode, otherwise) == IF mode = Unset THEN otherwise ELSE mode

Manifest == Or(env.manifestPath, env.repoPath)

(* Where the stores keep their data; Unset is the process itself.          *)
Backends(config) ==
  [f \in Stores |->
    IF config[f] = "default" THEN Unset
    ELSE IF f = "manifestStore" THEN Manifest ELSE env.at[f]]

-----------------------------------------------------------------------------
(* The commands.  A process is wired with the defaults, and wired again if *)
(* an option changes one of them; the profile stands behind the flags.     *)

ProfileOf(o) == IF o.profile = "local-persist" THEN LocalPersist ELSE NoProfile

ProfileFirst(o) ==
  [f \in Field |-> Or(ProfileOf(o)[f], Or(o.flag[f], Default[f]))]

Expanded(o) == [f \in Field |-> Or(o.flag[f], Or(ProfileOf(o)[f], Default[f]))]

Changed(o, fields) == \E f \in fields : o.flag[f] \notin {Unset, Default[f]}

IndexConfig(o) ==
  IF Changed(o, Field) \/ o.profile # Unset THEN Expanded(o) ELSE Default

QueryFields == Field \ {"manifestStore"}

Flags(o) ==
  [f \in Field |-> IF f \in QueryFields THEN Or(o.flag[f], Default[f]) ELSE Default[f]]

QueryConfig(o) == IF Changed(o, QueryFields) THEN Flags(o) ELSE Default

WiringInit ==
  /\ env \in Env /\ last = None
  /\ graph = [p \in Place |-> NoNodes]
  /\ rows = [p \in Place |-> {}] /\ batches = [p \in Place |-> {}]
  /\ told = [graph |-> graph, rows |-> rows, batches |-> batches]

SetEnv(e) ==
  /\ env' = e /\ last' = None
  /\ UNCHANGED <<disk, told>>

-----------------------------------------------------------------------------
(* index.  The steps of a run, in their order; a dry run takes the first   *)
(* and the last.                                                           *)
Steps(o) ==
  IF o.dryRun THEN <<"record", "commit">> ELSE <<"record", "graph", "vectors", "commit">>

(* What a run that stopped after some of its steps did.                    *)
Did(o, reached, step) == \E k \in 1..reached : Steps(o)[k] = step

(* The next step may be half done: an upsert of vectors deletes the rows   *)
(* of its nodes before it adds the new ones.                               *)
WasAt(o, reached, step) ==
  reached < Len(Steps(o)) /\ Steps(o)[reached + 1] = step

Stamped(held, place, r, nodes) ==
  [p \in Place |-> IF p = place THEN [n \in Node |-> IF n \in nodes THEN r ELSE held[p][n]]
                   ELSE held[p]]

Replaced(held, place, gone, added) ==
  [p \in Place |-> IF p = place THEN (held[p] \ gone) \cup added ELSE held[p]]

(* What the user asked for: a flag, or else the profile.                   *)
Asks(o, f) ==
  o.flag[f] = "other" \/ (o.flag[f] = Unset /\ o.profile = "local-persist")

AskedPlace(o, f) ==
  IF ~Asks(o, f) THEN Unset ELSE IF f = "manifestStore" THEN Manifest ELSE env.at[f]

(* A run over some nodes, some of which have vectors.                      *)
Runs(o, r, at, reached, nodes, vectored, gone) ==
  LET stamped == IF Did(o, reached, "graph") THEN nodes ELSE {}
      added == IF Did(o, reached, "vectors") THEN vectored ELSE {}
      recorded == IF Did(o, reached, "record") THEN {r} ELSE {}
  IN  /\ gone # {} => WasAt(o, reached, "vectors")
      /\ graph' = Stamped(graph, at["graphStore"], r, stamped)
      /\ rows' = Replaced(rows, at["vectorStore"], gone, added)
      /\ batches' = Replaced(batches, at["manifestStore"], {}, recorded)
      /\ told' = [graph |-> Stamped(told.graph, AskedPlace(o, "graphStore"), r, stamped),
                  rows |-> Replaced(told.rows, AskedPlace(o, "vectorStore"), gone, added),
                  batches |-> Replaced(told.batches, AskedPlace(o, "manifestStore"), {}, recorded)]
      /\ last' = [None EXCEPT !.command = "index", !.threw = reached < Len(Steps(o))]

Index(o, r) ==
  /\ UNCHANGED env
  /\ IF Wires(IndexConfig(o))
     THEN \E reached \in 0..Len(Steps(o)), nodes, vectored, gone \in SUBSET Node :
            /\ gone \subseteq vectored /\ vectored \subseteq nodes
            /\ Runs(o, r, Backends(IndexConfig(o)), reached, nodes, vectored, gone)
     ELSE /\ last' = [None EXCEPT !.command = "index", !.threw = TRUE]
          /\ UNCHANGED <<disk, told>>

-----------------------------------------------------------------------------
(* What a process finds in its stores: its own are empty.                  *)
GraphOf(config) ==
  IF Backends(config)["graphStore"] = Unset THEN NoNodes
  ELSE graph[Backends(config)["graphStore"]]

RowsOf(config) ==
  IF Backends(config)["vectorStore"] = Unset THEN {}
  ELSE rows[Backends(config)["vectorStore"]]

(* Whether a search reads no sidecar, because it is torn or cannot be read *)
(* just then.                                                              *)
Blind(config) ==
  IF Backends(config)["vectorStore"] = Unset THEN {FALSE} ELSE BOOLEAN

In(held) == {n \in Node : held[n] # Unset}

(* query.  The nodes its words name are looked up in the graph, those of   *)
(* the vectors it hits are fetched from it, and any more of its nodes may  *)
(* be neighbors of those.  A blind search has no hits.                     *)
Finds(config, named, blind, neighbors) ==
  LET held == GraphOf(config)
      hits == IF blind THEN {} ELSE RowsOf(config)
      base == (named \cup hits) \cap In(held)
      found == base \cup IF base = {} THEN {} ELSE neighbors \cap In(held)
  IN  [n \in Node |-> IF n \in found THEN held[n] ELSE Unset]

(* The stores and servers it calls may fail it.                            *)
Query(o) ==
  LET config == QueryConfig(o)
      process == [None EXCEPT !.command = "query",
                              !.asked = {f \in Stores : o.flag[f] = "other"}]
  IN  /\ o.profile = Unset /\ o.flag["manifestStore"] = Unset /\ ~o.dryRun
      /\ \/ last' = [process EXCEPT !.threw = TRUE]
         \/ /\ Wires(config)
            /\ \E named, neighbors \in SUBSET Node, blind \in Blind(config) :
                 last' = [process EXCEPT
                            !.named = named, !.blind = blind,
                            !.found = Finds(config, named, blind, neighbors)]
      /\ UNCHANGED <<env, disk, told>>

(* inspect, graph export and doctor have no option that names a store: the *)
(* stores they list, or the health of which they report, are the defaults. *)
Show(command) ==
  /\ last' = [None EXCEPT !.command = command, !.found = GraphOf(Default)]
  /\ UNCHANGED <<env, disk, told>>

Inspect == Show("inspect")
GraphExport == Show("graph export")
Doctor == Show("doctor")

WiringNext ==
  \/ \E e \in Env : SetEnv(e)
  \/ \E o \in Options : Query(o) \/ \E r \in Run : Index(o, r)
  \/ Inspect \/ GraphExport \/ Doctor

WiringSpec == WiringInit /\ [][WiringNext]_wiringVars

-----------------------------------------------------------------------------
GraphType == [Place -> [Node -> Run \cup {Unset}]]
RowsType == [Place -> SUBSET Node]
BatchesType == [Place -> SUBSET Run]
Processes ==
  [command: {"none", "index", "query", "inspect", "graph export", "doctor"},
   threw: BOOLEAN, asked: SUBSET Stores, named: SUBSET Node, blind: BOOLEAN,
   found: [Node -> Run \cup {Unset}]]

WiringTypeOK ==
  /\ env \in Env
  /\ graph \in GraphType /\ rows \in RowsType /\ batches \in BatchesType
  /\ told \in [graph: GraphType, rows: RowsType, batches: BatchesType]
  /\ last \in Processes

(* No backend is swapped silently (README.md:94, wiring.ts:179).  What a   *)
(* query finds is what the runs told to write to the graph its command     *)
(* line names last wrote there, whether or not they came to their end: no  *)
(* run that was told otherwise, no dry or in-memory run.  It finds every   *)
(* such node that it names, or that has vectors where its command line     *)
(* says, unless its search reads no sidecar.  A query that names no graph, *)
(* and every inspect, export and doctor, finds nothing.                    *)
GraphTold ==
  IF "graphStore" \in last.asked THEN told.graph[env.at["graphStore"]] ELSE NoNodes

RowsTold ==
  IF "vectorStore" \in last.asked THEN told.rows[env.at["vectorStore"]] ELSE {}

Sought == last.named \cup IF last.blind THEN {} ELSE RowsTold

QueriesFindRuns ==
  last.command # "none" /\ ~last.threw =>
    /\ \A n \in Node : last.found[n] \in {Unset, GraphTold[n]}
    /\ \A n \in Sought : last.found[n] = GraphTold[n]
    /\ (\A n \in Sought : GraphTold[n] = Unset) => last.found = NoNodes

(* A manifest database holds the batches of the runs told to record them   *)
(* there, stopped and dry runs included, and no others (README.md:70): the *)
(* manifest follows the same flag and profile as the data, wherever each   *)
(* is.  A run that has no place for its manifest keeps it in memory.       *)
BatchesAreKept == batches = told.batches

(* Flags, profile, defaults and environment together lead every command to *)
(* the stores its command line means, for the data and for the manifest.   *)
NothingIsSwapped == QueriesFindRuns /\ BatchesAreKept
=============================================================================
