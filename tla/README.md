# A verification development of CodeSoul in TLA+

CodeSoul indexes a repository into a code graph and a vector store and answers
questions about it with cited snippets. These modules model its core as the
code under `packages/`, `apps/cli/` and `workers/model-server/` behaves: 15
component modules, of which the state machines are checked by TLC on small
instances, and eight proof modules checked by TLAPS for every value of the
constants. Paths below are relative to the repository.

## The system

| Component | State it keeps | Operations | Met by |
|---|---|---|---|
| manifest store (`packages/manifest-store`) | batch rows, an append-only event log, ingestion rows | recordBatch, transitionBatch, recordIngestion, finishIngestion, listings | indexer |
| indexer (`packages/indexer`) | none between calls; in a call, what it read and how far it came | indexRepository | CLI; calls parser, rig, embedder and the three stores |
| graph store (`packages/graph-store`, `graph-store-neo4j`) | nodes and edges; in Neo4j also constraints and the cached migration promise | upsertNodes, upsertEdges, neighbors, getNode, finders | indexer writes, retrieval reads |
| vector store (`packages/vector-store`, `vector-store-lancedb`) | rows by (nodeId, payloadKind); in LanceDB a sidecar file naming the embedder, cached per store object | upsert, search, listByRun, close | indexer writes, retrieval reads |
| embedder, reranker (`packages/embedder*`, `reranker*`) | the configured model's identity; an abort timer per call | embed, rerank, with fallback and latency wrappers | indexer, retrieval; call the model server over HTTP |
| model server (`workers/model-server`) | the two models it has loaded | /embed, /rerank | the adapters |
| parser (`packages/parser`) | none | parseFile (tree-sitter; a regex mock) | indexer |
| rig (`packages/rig`) | none | canExtract and extract of four extractors; the dispatcher merges them | indexer, which materializes the graph |
| retrieval (`packages/retrieval`) | none between queries | retrieve | CLI; reads graph and vectors |
| CLI (`apps/cli`) | the default configuration | index, query, inspect, graph-export, doctor | the user |

What is hard about it, and so what the properties are for (the full list, line
by line, is `hazards` in PROJECT.json):

* **three stores, no transaction.** The batch row is a write-ahead record: it
  is pending before the first row of data, and must end up saying the truth,
  whatever throws, crashes or interleaves. *Correct when* committed means
  stored, and no one is told otherwise.
* **SQLite under several connections**: deferred transactions that read and
  then write, busy errors, crashes. *Correct when* what is committed is a
  behaviour of the plain manifest store.
* **LanceDB has no upsert**: it deletes and adds, and its sidecar is rewritten
  in place. *Correct when* a table is a map and never mixes two embedders, and a
  reader beside an upsert misses only what is being replaced. The second
  holds only as long as no read of the sidecar fails (see the findings).
* **Neo4j**: calls overlap between transactions; the migration is lazy and
  shared; a traversal reads one layer per transaction. *Correct when* an id has
  one node, no later write is lost to an earlier one, and an overtaken
  traversal still makes sense.
* **the model server** is slow, broken, or redeployed with another model.
  *Correct when* a vector names the model that made it, and calls settle.
* **identity**: ids of declarations must survive edits and agree between the
  two parsers, ids of a RIG batch must be unique, merging must lose nothing.
* **the tree changes while it is read.** *Correct when* a committed batch
  accounts for every source file, and a snippet quotes what it cites.
* **retrieval reads while an index run writes.** *Correct when* what it shows
  exists and is shown once.
* **processes share disks only**, and flags, profile, defaults and environment
  decide which; a run may stop anywhere. *Correct when* a query finds what was
  last written where its command line points, and nothing else.

## The modules

Every module's header says what it abstracts. An action is a whole handler up
to its next `await` (or, for SQLite, a statement), so that all the places where
another actor may step in are between actions.

| Module | Models | State and actions |
|---|---|---|
| `ManifestStore` | `manifest-store/src/memory.ts`, `transitions.ts` | the rows and the log; one action per operation. The contract of both backends. |
| `SqliteManifest` | `manifest-store/src/sqlite.ts` | the committed database, the write lock, an open transaction per process; an action per statement, plus Busy, Abandon, Crash. Implements `ManifestStore` (`Refines`). |
| `Indexer` | `indexer/src/mock-fixture.ts` `indexRepository` over its three stores | a `pc` per run; one action per await, and one for each await that rejects. EXTENDS `ManifestStore`, whose rows and log it writes by its operations. `mode` is the wiring: memory or LanceDB vectors, memory or Neo4j graph. |
| `SourceTree` | the walk, reads and content hash of `mock-fixture.ts`; `retrieval/src/source-provider.ts` | a tree that a developer edits, locks and moves; each run's `stage`, an action per readdir and readFile, the hash, the stored evidence; one query's snippet. |
| `VectorMap` | `vector-store/src/mock.ts` | the promise of upserts made one at a time: a map from keys to rows, with the embedder pinned before the first. `Begin`, `Write` and `Fail` are an upsert: one that fails may lose the rows of its own keys and no others. `Misread` is a failed read of the pin; only after one may the pin move under rows. |
| `LanceStore` | `vector-store-lancedb/src/lancedb-store.ts` | sidecar, table, each store object's cache and handle, each upsert (a row has its own identity), search and listing; one action per file or table operation, plus Throws, Crash, Close. `ReadSidecar` may fail on a good sidecar, which the code takes for none. Implements `VectorMap` (`RefinesMap`). |
| `Traversal` | `neighbors` of both graph stores | pure operators: the search, layer by layer, and a definition by paths. |
| `MemoryGraph` | `graph-store/src/mock.ts` | nodes and edges under upserts; EXTENDS `Traversal`. |
| `Neo4jStore` | `graph-store-neo4j/src/neo4j-store.ts`, `migrations.ts` | nodes with their multiplicity, the call whose properties each node and edge has (`by`), the migration promise, each call; one action per driver transaction; Throws, MigrationFails, Restart. EXTENDS `Traversal`. |
| `ModelClient` | `embedder-http`, `reranker-http`, their fallbacks, `api.py` | what the server runs, each call, its age, its answer and its outcome. |
| `ImportPaths` | `resolveLocalTsImport` | the walk over segments as a recursive function, and where a specifier leads, counted. The table from JavaScript to TypeScript endings is given, in the code's model and in the counting alike. |
| `Parser` | `parser/src/tree-sitter.ts`, `mock.ts`, `core/src/ids.ts` | a file as a syntax tree and its imports; Insert and Import (edits) and parseFile. EXTENDS `ImportPaths`. Text in docstrings, comments and template strings that looks like a declaration to the regexes of `mock.ts` is left out. |
| `Rig` | `rig/src/*`, `indexer/src/rig-materialize.ts` | four build files being edited; the dispatcher's awaits; the batch its merged graph becomes. A `package.json` or `pyproject.toml` that parses and is ill-typed throws; the several reads of one workspace are one step. |
| `Retrieval` | `retrieval/src/pipeline.ts` | one query's candidates, an action per await; the graph is a `MemoryGraph` (INSTANCE), which an index run writes in between, like the vectors. |
| `Wiring` | `apps/cli` wiring and the five commands | environment with the places it names; per neo4j database the run that last wrote each node, per lancedb table the nodes with vectors, per sqlite file the batches; what the last process did. One action per process: index (dry runs, and runs that stop after any step, or half way through replacing vectors: by a crash, by an error, by a pin that refuses its vectors), query, inspect, graph export, doctor. |

`MC*` modules EXTEND these and give the constants. Operators whose names say a
mistake (`NeverPin`, `StopAtRoot`, ...) are the mutations that show each
property can fail; no specification uses them. `*Proofs` modules are described
under "What is proved".

## The runs

| Run | Shows | Instance and why it is enough |
|---|---|---|
| manifest_store | the log tells each batch's story (`AuditTrail`), row and log agree on the commit time (`CommitStamp`), terminal batches never move (`TerminalIsFinal`) | two batches, so that histories interleave in one log; one run of each kind of call in any order |
| sqlite_manifest | `Refines` ManifestStore, `CallsReturn` | two connections (a conflict needs two), one batch, four commits: enough for create, two competing transitions and an ingestion row |
| indexer | `WriteAhead`, `CommittedGraph`, `CommittedVectors`, `NothingDangles`, `ToldTheTruth`, `RerunAddsNothing`, `PendingIsResolved` | two runs (each property speaks of one run disturbed by others), every fault at every await, both wirings |
| lance | until an upsert misreads the sidecar the pin protects the rows (`PinMatchesRows`), readers miss only what was not there throughout (`LookupsAnswer`), `RefinesMap` | three upserts in two processes with two embedders of different dimensions, in one batch also: pin, violate, and recover; keys of one node and an empty batch; one search or listing, limited or filtered, at any moment; three rows upserted in all |
| lance_reads | the finding below | as lance, with two embedders of one dimension |
| neo4j | `LastWriteStands`, `NodesAreUnique`, `ReadIsSandwiched`, `MirrorsMockInOrder`, `CallsSettle` | three overlapping calls: two racing writers and a reader, or three writers; a cycle of three nodes with two edge types; a limit that stops in the middle; with and without `autoMigrate` |
| model_client | `TagsAreTruthful`, `WrongModelIsRefused`, `CallsSettle` | an embedding with a fallback and a reranking without; two models, timeout of two ticks so that an answer can come before, at and after it |
| parser | `WellFormed`, `CallsAreFound`, `ParsersAgree`, `IdsAreStable`, `ReachesItsFile` | trees of four nodes: class, method, nested function and call; both languages; specifiers of five segments from a directory of depth two, so that one can leave the repository and come back |
| rig | `WellFormed`, `NeverShadowed`, `NothingIsSkipped`, `FailsClosed` | all four extractors; names that collide after `safeId`; contents that refer to unknown components |
| source_tree | a committed batch accounts for every file (`EveryFileIsAccountedFor`), an undisturbed run is a faithful copy (`QuietRunIsFresh`), snippets are the declarations they cite (`SnippetsQuote`) | six files at three depths, of them one in a skipped, one in a dotted directory and one in no language; two runs; two changes of a file, a directory or the repository's place, which is what it takes to change and change back |
| retrieval | `SnippetsResolve`, `DirectHitsAreRanked`, `BestEvidence`, and `TraversalIsLayerComplete` of every graph a query may find | four nodes, a cycle, a self-loop, two edge types, edges to ids without a node; limits of 1 to 3 stand for 20 to 50, so that each is reached and cut at |
| wiring | what a query finds and where batches are kept is what the command lines say (`NothingIsSwapped`) | the data stores' flags in every combination with the profile; dry run, misspelt profile, manifest and model flags one at a time; two neo4j and two manifest databases, so that runs and queries may disagree on the place, or none at all; two runs that overwrite each other's two nodes, stopped or not; at most three nodes and vectors, and two batches, are held in all |

Bounds are named where they cut: `MaxCommits` (SqliteManifest), `TimeoutTicks`
(age stops one past the timeout), `MaxSize`, `MaxImports`, `MaxSegments` and one
edit between two parses (Parser), `MaxEdits` (SourceTree), the constraint `Bounded` of the lance runs (three rows upserted in all, at most
two upserts beside a lookup), and that of the wiring run (three nodes and
vectors and two batches held in all; what a process that only reads did is not followed further,
for it leaves the disks as they were). Calls and
runs are one-shot, so the other specifications are finite by themselves.
`CHECK_DEADLOCK FALSE` is given where all calls may have been made and nothing
remains to happen.

Symmetry is used over names (parser), over the two calls of one process and
over the identities (lance), over runs and places (source_tree), and over runs
and nodes (wiring), which no
property distinguishes. The neo4j run has a liveness property and so uses the
constraint `InOrder` instead: calls differ in nothing but their names, and are
made in one order of the names. It cuts no behaviour that a renaming would not
give back, and since nothing obliges anybody to make a call, no fairness
condition is affected.

### Fairness

* `SqliteManifest`: a call that began takes its statements one after the other
  in native code; nobody is obliged to make a call.
* `Indexer`: the event loop drives a run whose awaited call has settled, and
  every awaited call settles. `PendingIsResolved` leaves out what really stays
  pending: crashed runs, and runs whose last transition failed as well.
* `Neo4jStore`: the driver settles every transaction it is given.
* `ModelClient`: time passes, due timers fire, the mock answers, a body that
  has begun ends or breaks (the HTTP client's own inactivity limit, external).
  The server is never obliged to answer.

No strong fairness is used.

## What is proved

Every property that a passing run checks, but for the three liveness
properties, is a theorem of its module's specification, for any number of
processes, batches, runs, calls, nodes and models and with no bound on
contents. Eight modules hold the proofs; each EXTENDS what it is about.

| Proofs | About | Theorems |
|---|---|---|
| `IndexerProofs` | `ManifestStore`, `Indexer`, `Parser`, `ImportPaths` | the contract: `TypeCorrect`, `AuditTrailHolds`, `CommitStampHolds`, `TerminalHolds`; the runs: `IndexTypeCorrect`, `WriteAheadHolds`, `CommittedGraphHolds`, `CommittedVectorsHold`, `NothingDanglesHolds`, `ToldTheTruthHolds`, `RerunAddsNothingHolds`; both: `KeepsTheContract`, `RunsAreAudited`; the parser: `WellFormedHolds`, `IdsAreStableHolds`, `ParsersAgreeHolds`, `CallsAreFoundHolds`, `ReachesItsFileHolds` |
| `SqliteProofs` | `SqliteManifest` | `TypeCorrect`, `RefinesHolds` (`Spec => Manifest!Spec`) |
| `LanceProofs` | `LanceStore` | `TypeCorrect`, `PinMatchesRowsHolds`, `RefinesMapHolds` (`Spec => Map!Spec`), `LookupsAnswerHolds` |
| `TraversalProofs` | `Traversal` | `TraversalIsComplete`, and what the next two need of the search |
| `Neo4jProofs` | `Neo4jStore`; uses `TraversalProofs` | `TypeCorrect`, `NodesAreUniqueHolds`, `LastWriteStandsHolds`, `ReadIsSandwichedHolds`, `MirrorsMockHolds` |
| `RetrievalProofs` | `Retrieval`, `SourceTree`; uses `TraversalProofs` | `QueryInvHolds`, `SnippetsResolveHolds`, `DirectHitsAreRankedHolds`, `BestEvidenceHolds`, `TraversalIsLayerCompleteHolds`; `TreeInvHolds`, `EveryFileIsAccountedForHolds`, `QuietRunIsFreshHolds`, `SnippetsQuoteHolds` |
| `RigProofs` | `Rig` | `RigTypeCorrect`, `IdsAreUniqueHolds`, `EdgesAreClosedHolds`, `WellFormedHolds`, `NeverShadowedHolds`, `NothingIsSkippedHolds`, `FailsClosedHolds` |
| `RuntimeProofs` | `ModelClient`, `Wiring` | `TypeCorrect`, `TagsAreTruthfulHolds`, `WrongModelIsRefusedHolds`; `NothingIsSwappedHolds` |

The arguments, with the invariant each rests on and why it is needed:

* **Manifest.** The invariant relates each row to the log. AuditTrail is
  inductive with the typing alone, because a terminal row admits no further event.
* **SQLite.** *InHand* says what an open transaction holds: the committed rows
  plus the call's work so far, provided its snapshot is still the newest; the
  one that has the write lock always has the newest. A commit is therefore a
  whole operation of `ManifestStore` on the rows as they are, and every other
  step leaves the committed rows alone.
* **Indexer.** None of the properties is inductive by itself. The invariant
  adds *Control* (what each `pc` says of the run's batch and of what it has
  read), *Stamps* (a row in a store is stamped by a run that passed the
  write-ahead record and is not a dry run, and belongs to what that run read)
  and *Progress* (a run past an upsert has its rows in the store). Upserts only
  overwrite, which is why other runs do not disturb Progress; with LanceDB's
  delete they would, and `CommittedVectors` is claimed for memory vectors only.
  Every step maps to a `ManifestStore` operation or to a stutter, so that what
  is proved of the contract holds of any overlapping, failing and crashing
  runs (`RunsAreAudited`).
* **Parser.** *ParserInv*: the source is a tree of the grammar in preorder, the
  stored edges are closed, what the last parse gave out is part of what a parse
  would give now, and is all of it if nothing was edited since. An edit inserts
  a leaf, which is above nothing; the map *Past* from positions before to
  positions after therefore keeps who is above whom and which declaration a
  node is (`AboveMoves`, `DeclsMove`), and with it every identity.
  `CallsAreFound` needs that what a name means where a call stands is in the
  table the code looks it up in, and that a file-level table loses no
  declaration that shadowing lets through.
* **Import paths.** Along the walk, the stack is exactly the names that still
  stand, each at the depth it is reached by counting; a step either adds the
  deepest, removes it, or leaves the repository for good (`WalkSteps`).
* **LanceDB.** The invariant has an unconditional part (*Base*, *TableInv*,
  *MapInv*) and one that holds while no upsert has missed a good sidecar
  (*PinInv*). In the latter, whoever has read or cached an identity agrees with
  the sidecar, an upsert that is to write the sidecar found none, and one past
  it has the sidecar's identity in all its rows: a sidecar that names an
  identity never changes again. For the refinement, the map's rows are those of
  the table, with the rows an upsert has deleted and not yet replaced: a delete
  is a stutter, a create or an add the map's `Write`, a throw or crash its
  `Fail`, a failed read its `Misread`. For lookups, what the table has held
  throughout is still in it, and what each phase of a lookup has checked is
  still so (*LookInv*).
* **Traversal.** The search after n layers is the ball of radius n of the
  definition by paths, as long as no limit is reached; the layer that reaches
  it is the last. Sandwiching is monotone in the graph on both sides and is
  kept by one layer of any graph in between.
* **Neo4j.** *MigrationLeads*: with `autoMigrate` nobody writes before the
  constraint is there, and once it is there no half of an unconstrained MERGE
  is left. *WritesLeft*: what an edge write has done so far is its own or a
  later call's, and its remaining types are exactly the ones not done.
  *ReadInv*: every node and edge was given by some call, the graph a call began
  on is still part of the database (nothing is ever deleted), and the layers a
  traversal has read are sandwiched between that graph and the present one.
  `MirrorsMockHolds` then compares a settled database with all that was asked.
* **Model clients.** *NotSent*: nothing is left of an answer before the request
  is sent, and a running call has no outcome. The key lemma is that an error
  sent to the fallback leaves no decodable answer of a wrong model behind.
* **Rig.** *Turns*, *SpadeWasGood*, *Collected* and *Result*: each file the
  dispatcher has passed, and that nobody edited since it began, is good or
  absent if it is SPADE's, and what it holds is among the collected graphs; the
  result is their merge. That merging loses no component, dependency or target
  and that ids stay unique are lemmas about the merge of any list of graphs.
* **Retrieval.** *QueryInv*: candidates are nodes of the graph, which only
  grows under the query; base and graph candidates are disjoint; and, undisturbed,
  each expansion met everything before it in the base, in order of score. That order
  is why the first expansion to reach a node gives it its best score.
* **Source tree.** *TreeInv*: per run, the history has what the run would read
  now and what it has read (*HistoryIsKept*); each file is found, or lies below
  a directory still to be listed, or was out of reach at some moment
  (*WalkCovers*, *ReadsCover*); nothing happened beside a quiet run
  (*QuietIsAlone*); a stamp says the truth of its batch (*StampsAreTrue*).
* **Wiring.** *AsTold*: what each database holds is what the command lines asked
  to be written there, in the order of the runs and however far each came. It
  rests on two lemmas that say which backend a command line leads to
  (`IndexAsks`, `QueryAsks`): an index run writes, and a query reads, where its
  command line says, and in its own memory otherwise.

The assumptions are those the modules declare on their constants: a sentinel
outside the sets it is used beside, finite directories and vectors, a tree whose
every entry lies under its root, a file in which a declaration's lines stand
together, extractor contents that the schemas accept, a snapshot whose vectors
have nodes (`mock-fixture.ts:205` skips the others), well-typed arguments. TLC
evaluates them on the instances of the runs.

Two hypotheses stand in theorems of `LanceProofs` instead, because the code
does not ensure them and only its callers do: `~Concurrent`, one upsert at a
time (without it `lancedb-store.ts:267` lets two first upserts pin two
identities, and the theorems are false), and for the refinement and the lookups
`TwinFree`, no batch names a key twice (`lancedb-store.ts:303` would add both
rows; the indexer's rows are one per node and kind). Both hold in the run. Two properties have a premise of their own,
`UpsertsReadTheSidecar`, that no upsert failed to read a sidecar that was good:
`PinMatchesRows`, and of `LookupsAnswer` what it says of searches. Without it
both are false (`lance_reads`); the refinement does not need it.

Where a recursive function computes over data (the walk over segments, the
search layer by layer, the flattening of lists), the proofs first show that a
function satisfying the recursion exists, by induction over a *set* of numbers
(`LeastNatural`, `SetInduction`, `LeastOf`, `InductionTo`, from
`WellFoundedInduction`), and then its properties the same way.

Only model-checked: the liveness properties `CallsReturn` (SQLite),
`PendingIsResolved` (indexer) and `CallsSettle` (Neo4j and model clients), which
rest on fairness and ENABLED; the finding below, which is a counterexample. Not
claimed by either: what the store does without the two hypotheses above.

What proving changed. `Rig!GraphOf` and the walk of `ImportPaths` were given by
a CASE whose arms overlapped; their arms are now disjoint. Preparing the proof
of `CallsAreFound` showed its reference to be wrong of Python, where a block
binds no names, a class body is no scope for the functions in it, and `self` is
closed over; TLC had not met a tree on which that mattered. `SourceTree` has
the directories above an entry as a closure, and `Retrieval` one operator per
stage of the pipeline, so that lemmas can be stated about them.

## Where code and documents disagree

Checked by a run of its own:

* `lance_reads`: `lancedb-store.ts:170-174` says that a table is
  "single-identity" and that writes which disagree throw. `loadManifest` catches
  every error of its read (line 227), so an upsert that cannot read a good
  sidecar just then (permissions, descriptors, I/O) overwrites the pin and adds
  the rows of another model.

Met while modelling, and excluded from what the runs claim as noted:

* **blocks of a function** (`tree-sitter.ts:730`): line 410 says child blocks
  are collected "from a function/method body"; line 730 collects them from
  `tree.rootNode`, so a long function is given the blocks of the whole file. In
  the model: `BlocksOf`.
* **foreign queries** (`lancedb-store.ts:314`): `core/src/errors.ts:20-22` wants an
  error on a search with another model than the table's. Search compares lengths
  only, and all embedders of the CLI give vectors of `EMBEDDING_DIM`
  (`core/src/constants.ts:2`, enforced by `http-embedder.ts:203`): a query without
  `--embedder http` searches a table of HTTP vectors with a mock vector, and gets
  hits. The length check never fires in the CLI; `LanceStore` has it for callers
  with other embedders.
* **manifest in memory** (`wiring.ts:162`): `--manifest-store sqlite` without
  `CODESOUL_MANIFEST_PATH` and `CODESOUL_REPO_PATH` opens `:memory:`, though the
  option's help, `wiring.ts:145-146` and `README.md:70` name
  `.codesoul/manifest.db` in the repository; the path given to `index` is not
  used for it. In the model: `Manifest`; `BatchesAreKept` asks nothing of a run
  without a place.
* **listing order** (`sqlite.ts:237`): SQLite lists by `created_at`, memory in
  the order of recording; the contract suite says any divergence "surfaces here".
* **lost vectors** (`lancedb-store.ts:302`): a re-index that stops between
  delete and add removes rows of a batch that stays committed, though upserts
  are documented as idempotent. Hence `CommittedVectors` speaks of memory
  vectors and `VectorMap!Fail` may lose an upsert's own keys.
* **ambiguous WAL** (`mock-fixture.ts:273`): when marking a batch failed throws
  too, the batch stays pending and the caller was told it failed; lines 129-130
  say the WAL is "never left ambiguous". In the model: `MarkFailedThrows`.
* **two first upserts** (`lancedb-store.ts:267`): both may read no manifest
  before either writes one; two embedders then share a "single-identity" table
  (line 170). The `lance` run has one upsert at a time, as one index process
  makes them; with `Concurrent = TRUE` TLC violates `PinMatchesRows`.
* **twin keys** (`lancedb-store.ts:303`): a batch that repeats a key adds both rows.
* **edges before nodes** (`neo4j-store.ts:178`): dropped by Neo4j, kept by
  memory; hence the premise `EndsCameFirst` of `MirrorsMockInOrder`.
* **hard timeout** (`http-embedder.ts:165`): cleared at the headers, so the body
  is not under it; line 54 calls it a "hard timeout per request".
* **limits** (`pipeline.ts:71`, `:115`): 20 exact hits hold per identifier, and
  30 graph hits not at all, against `plans/CodeSoul RIG.md:483-485`.
* **doctor, inspect, graph export** have no store options, and so see the fresh
  in-memory stores of their own process, though `README.md:10` says that doctor
  "health-checks all configured backends". In the model: `Show`.
* **unfinished runs are found** (`pipeline.ts:67-80`): a query looks names up in
  the graph and never asks the manifest, so it finds what a failed or crashed
  run wrote. No document says otherwise; `NothingIsSwapped` says it of stopped runs too.
* **default ids** (`index.ts:209`): every run without `--repo-id` and
  `--index-run-id` is run `run_phase0` of `repo_fixture`, so that two of them
  share what is listed by run.
* **cross-run identity**: `lancedb-store.ts:176` says that it "is enforced at
  index time" through `IngestionManifest`; nothing outside the tests calls
  `recordIngestion`.
* **two sources** (`query.ts:126`): with `--repo`, snippets come from that root,
  but the HTTP reranker still reads through the environment's source provider.
* **stub servers** answer with the model name and revision they are configured
  with, so a stub configured as the real model passes the clients' check.
* **the warning** (`query.ts:94`): decided on the defaults, before the flags.

## Not modelled, and why

* summarizer: a stateless mock nobody calls.
* cypher-mapping's codec and the Zod schemas: shapes, without control. That a
  write replaces a row's properties is `Neo4jStore!Set`.
* the models and their configuration in the server: only what its endpoints answer.
* listings of the manifest stores and finders of the graph stores: single reads
  of state that the modules have.
* doc and signature text of the parser, and the re-exports of export statements.
* recovery of batches that a crash left pending: the code has none, so
  `PendingIsResolved` leaves crashed runs out.

LanceDB, SQLite, Neo4j and SPADE are external and modelled from how the code
uses them; of LanceDB it is assumed that a query reads the newest commit.

## Plan

Order followed so far: manifest store, its SQLite implementation, the indexer
that depends on both, the vector and graph stores, the adapters, then what
feeds and reads the stores, and the CLI; proofs in the same order, the
refinement of the manifest store first, the parser last.

Next: an abstract specification of an index run (a batch's data appears in the
stores, then its commit in the manifest), implemented by `Indexer` with a proof
like `KeepsTheContract`; `Retrieval` beside `Indexer` instead of a writer of its
own; what holds of a LanceDB table when upserts overlap, in place of the
hypothesis `~Concurrent`.
