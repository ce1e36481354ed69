------------------------------- MODULE Indexer -------------------------------
(***************************************************************************)
(* FixtureIndexer.indexRepository (mock-fixture.ts): runs of the indexer   *)
(* over one graph store, one vector store and one manifest store.  There   *)
(* is no transaction across the three; the batch row in the manifest is    *)
(* the only record of how far a run came.                                  *)
(*                                                                         *)
(* A run is one call of indexRepository and owns one batch, so the run     *)
(* doubles as the batch id.  Runs interleave at every await, any awaited   *)
(* call may fail, and the process of a run may die between two of them.    *)
(* A store maps the key of a row to the batch the row is stamped with.     *)
(***************************************************************************)
EXTENDS ManifestStore

CONSTANTS NodeId,       \* stable node ids
          Snapshot,     \* what reading and parsing a working tree may yield
          Modes,        \* the stores a process may be wired with
          Faulty        \* the calls that may fail

Run == Batch            \* calls of indexRepository

EdgeKey == NodeId \X NodeId

Faults == {"prepare", "record", "nodes", "edges", "vectors",
           "finish", "fail", "crash"}

ASSUME SnapshotAssumption ==
  Snapshot \subseteq [nodes: SUBSET NodeId, edges: SUBSET EdgeKey,
                      vectors: SUBSET NodeId]

(* mock-fixture.ts:205: a vector without a node of this batch is skipped.  *)
ASSUME VectorsHaveNodes == \A s \in Snapshot : s.vectors \subseteq s.nodes

ASSUME ModeAssumption ==
  /\ Modes \subseteq [vectors: {"memory", "lancedb"}, graph: {"memory", "neo4j"}]
  /\ Faulty \subseteq Faults

ASSUME NullAssumption == Null \notin Run /\ Null \notin Snapshot

VARIABLES mode,      \* the stores, from the start to the end
          pc,        \* where each run is
          input,     \* its arguments and the clock reading at its start
          content,   \* what it read, or Null
          nodes, edges, vectors          \* the graph and the vector store

wal == <<batches, events, ingestions>>
stores == <<nodes, edges, vectors>>
indexVars == <<mode, pc, input, content, stores, wal>>

Input == [dryRun: BOOLEAN, run: IndexRun, startedAt: Time]

ASSUME NullIsNoRecord == Null \notin Input

Preparing == {"reading", "parsing", "extracting", "embedding"}
Guarded == {"nodes", "edges", "vectors", "adding", "finishing"}
Active == Preparing \cup {"recording"} \cup Guarded \cup {"failing"}
Over == {"returned", "threw", "unmarked", "crashed"}

IndexInit ==
  /\ mode \in Modes
  /\ pc = [r \in Run |-> "idle"]
  /\ input = [r \in Run |-> Null]
  /\ content = [r \in Run |-> Null]
  /\ nodes = [n \in NodeId |-> Null]
  /\ edges = [e \in EdgeKey |-> Null]
  /\ vectors = [n \in NodeId |-> Null]
  /\ Init

Goto(r, l) == pc' = [pc EXCEPT ![r] = l]

(***************************************************************************)
(* Upserts, shared by the stores: the rows of the keys are overwritten,    *)
(* the others stay.                                                        *)
(***************************************************************************)
FreshMap(store, keys, r) == [k \in keys |-> r]

ReplaceAll(store, keys, r) ==
  [k \in DOMAIN store |-> IF k \in keys THEN r ELSE Null]

Upsert(store, keys, r) ==
  [k \in DOMAIN store |-> IF k \in keys THEN r ELSE store[k]]

Present(store) == {k \in DOMAIN store : store[k] # Null}

(* Neo4j MATCHes both ends of an edge, so an edge without them is dropped; *)
(* the in-memory store keeps it.                                           *)
Storable(es) ==
  IF mode.graph = "neo4j" THEN es \cap (Present(nodes) \X Present(nodes)) ELSE es

(***************************************************************************)
(* Before the WAL row: nothing outside the run changes, an error rejects.  *)
(***************************************************************************)
Start(r, in) ==
  /\ pc[r] = "idle"
  /\ Goto(r, "reading")
  /\ input' = [input EXCEPT ![r] = in]
  /\ UNCHANGED <<content, stores, wal>>

Read(r, s) ==
  /\ pc[r] = "reading"
  /\ Goto(r, "parsing")
  /\ content' = [content EXCEPT ![r] = s]
  /\ UNCHANGED <<input, stores, wal>>

Parse(r) ==
  /\ pc[r] = "parsing"
  /\ Goto(r, "extracting")
  /\ UNCHANGED <<input, content, stores, wal>>

ExtractRig(r) ==
  /\ pc[r] = "extracting"
  /\ Goto(r, IF content[r].vectors = {} THEN "recording" ELSE "embedding")
  /\ UNCHANGED <<input, content, stores, wal>>

Embed(r) ==
  /\ pc[r] = "embedding"
  /\ Goto(r, "recording")
  /\ UNCHANGED <<input, content, stores, wal>>

PrepareThrows(r) ==
  /\ pc[r] \in Preparing /\ "prepare" \in Faulty
  /\ Goto(r, "threw")
  /\ UNCHANGED <<input, content, stores, wal>>

(***************************************************************************)
(* The WAL row, then the stores, then the resolution of the row.           *)
(***************************************************************************)
IgnoreDryRun(r) == "nodes"

VectorsFirst(r) == IF input[r].dryRun THEN "finishing" ELSE "vectors"

AfterRecord(r) == IF input[r].dryRun THEN "finishing" ELSE "nodes"

Record(r) ==
  /\ pc[r] = "recording"
  /\ RecordBatch(r, [run |-> input[r].run, status |-> "pending",
                     createdAt |-> input[r].startedAt, committedAt |-> Null])
  /\ Goto(r, AfterRecord(r))
  /\ UNCHANGED <<input, content, stores>>

RecordThrows(r) ==
  /\ pc[r] = "recording" /\ "record" \in Faulty
  /\ Goto(r, "threw")
  /\ UNCHANGED <<input, content, stores, wal>>

UpsertNodes(r) ==
  /\ pc[r] = "nodes"
  /\ nodes' = Upsert(nodes, content[r].nodes, r)
  /\ Goto(r, "edges")
  /\ UNCHANGED <<input, content, edges, vectors, wal>>

UpsertEdges(r) ==
  /\ pc[r] = "edges"
  /\ edges' = Upsert(edges, Storable(content[r].edges), r)
  /\ Goto(r, "vectors")
  /\ UNCHANGED <<input, content, nodes, vectors, wal>>

(* The in-memory vector store writes the rows in one turn.  LanceDB deletes *)
(* the matching rows first and adds the new ones in a second operation.    *)
UpsertVectors(r) ==
  /\ pc[r] = "vectors"
  /\ IF mode.vectors = "lancedb" /\ content[r].vectors # {}
     THEN /\ vectors' = Upsert(vectors, content[r].vectors, Null)
          /\ Goto(r, "adding")
     ELSE /\ vectors' = Upsert(vectors, content[r].vectors, r)
          /\ Goto(r, "finishing")
  /\ UNCHANGED <<input, content, nodes, edges, wal>>

AddVectors(r) ==
  /\ pc[r] = "adding"
  /\ vectors' = Upsert(vectors, content[r].vectors, r)
  /\ Goto(r, "finishing")
  /\ UNCHANGED <<input, content, nodes, edges, wal>>

(* An upsert rejects after any part of its rows was written (memory stores *)
(* a row at a time, Neo4j commits one transaction per edge type).          *)
UpsertNodesThrows(r) ==
  /\ pc[r] = "nodes" /\ "nodes" \in Faulty
  /\ \E some \in SUBSET content[r].nodes : nodes' = Upsert(nodes, some, r)
  /\ Goto(r, "failing")
  /\ UNCHANGED <<input, content, edges, vectors, wal>>

SwallowEdges(r) ==
  /\ pc[r] = "edges" /\ "edges" \in Faulty
  /\ \E some \in SUBSET Storable(content[r].edges) :
       edges' = Upsert(edges, some, r)
  /\ Goto(r, "vectors")
  /\ UNCHANGED <<input, content, nodes, vectors, wal>>

UpsertEdgesThrows(r) ==
  /\ pc[r] = "edges" /\ "edges" \in Faulty
  /\ \E some \in SUBSET Storable(content[r].edges) :
       edges' = Upsert(edges, some, r)
  /\ Goto(r, "failing")
  /\ UNCHANGED <<input, content, nodes, vectors, wal>>

UpsertVectorsThrows(r) ==
  /\ pc[r] \in {"vectors", "adding"} /\ "vectors" \in Faulty
  /\ IF mode.vectors = "lancedb"
     THEN UNCHANGED vectors
     ELSE \E some \in SUBSET content[r].vectors :
            vectors' = Upsert(vectors, some, r)
  /\ Goto(r, "failing")
  /\ UNCHANGED <<input, content, nodes, edges, wal>>

Outcome(r) == IF input[r].dryRun THEN "dry_run" ELSE "committed"

ValidateAfterCommit(r, now) ==
  /\ pc[r] = "finishing"
  /\ TransitionBatch(r, Outcome(r), now)
  /\ \/ Goto(r, "returned")
     \/ Goto(r, "failing")
  /\ UNCHANGED <<input, content, stores>>

Finish(r, now) ==
  /\ pc[r] = "finishing"
  /\ TransitionBatch(r, Outcome(r), now)
  /\ Goto(r, "returned")
  /\ UNCHANGED <<input, content, stores>>

RethrowUnmarked(r) ==
  /\ pc[r] = "finishing" /\ "finish" \in Faulty
  /\ Goto(r, "threw")
  /\ UNCHANGED <<input, content, stores, wal>>

FinishThrows(r) ==
  /\ pc[r] = "finishing" /\ "finish" \in Faulty
  /\ Goto(r, "failing")
  /\ UNCHANGED <<input, content, stores, wal>>

(***************************************************************************)
(* The catch block: mark the batch failed, then rethrow; an error of the   *)
(* marking itself is swallowed and the batch stays pending ("unmarked";    *)
(* the caller sees the same rejection).                                    *)
(***************************************************************************)
MarkFailed(r, now) ==
  /\ pc[r] = "failing"
  /\ TransitionBatch(r, "failed", now)
  /\ Goto(r, "threw")
  /\ UNCHANGED <<input, content, stores>>

MarkFailedThrows(r) ==
  /\ pc[r] = "failing"
  /\ "fail" \in Faulty \/ ~CanTransition(batches[r].status, "failed")
  /\ Goto(r, "unmarked")
  /\ UNCHANGED <<input, content, stores, wal>>

Crash(r) ==
  /\ pc[r] \in Active /\ "crash" \in Faulty
  /\ Goto(r, "crashed")
  /\ UNCHANGED <<input, content, stores, wal>>

Advance(r) ==
  \/ \E s \in Snapshot : Read(r, s)
  \/ Parse(r) \/ ExtractRig(r) \/ Embed(r) \/ PrepareThrows(r)
  \/ Record(r) \/ RecordThrows(r)
  \/ UpsertNodes(r) \/ UpsertNodesThrows(r)
  \/ UpsertEdges(r) \/ UpsertEdgesThrows(r)
  \/ UpsertVectors(r) \/ AddVectors(r) \/ UpsertVectorsThrows(r)
  \/ \E now \in Time : Finish(r, now) \/ MarkFailed(r, now)
  \/ FinishThrows(r) \/ MarkFailedThrows(r)

IndexNext ==
  /\ \E r \in Run :
       \/ \E in \in Input : Start(r, in)
       \/ Advance(r)
       \/ Crash(r)
  /\ UNCHANGED mode

(* A call that was made is driven on by the event loop: every awaited call *)
(* settles, by an answer, an error or its own timeout.                     *)
IndexSpec ==
  /\ IndexInit /\ [][IndexNext]_indexVars
  /\ \A r \in Run : WF_indexVars(Advance(r) /\ UNCHANGED mode)

-----------------------------------------------------------------------------
Has(r, status) == batches[r] # Null /\ batches[r].status = status

IndexTypeOK ==
  /\ mode \in Modes
  /\ pc \in [Run -> {"idle"} \cup Active \cup Over]
  /\ input \in [Run -> Input \cup {Null}]
  /\ content \in [Run -> Snapshot \cup {Null}]
  /\ nodes \in [NodeId -> Run \cup {Null}]
  /\ edges \in [EdgeKey -> Run \cup {Null}]
  /\ vectors \in [NodeId -> Run \cup {Null}]
  /\ TypeOK

(* The write-ahead rule of the header comment: a row in a store belongs to *)
(* a batch the manifest already knows, and never to a dry run.             *)
Stamped(r) == \/ \E n \in NodeId : nodes[n] = r \/ vectors[n] = r
              \/ \E e \in EdgeKey : edges[e] = r

WriteAhead ==
  \A r \in Run : Stamped(r) => batches[r] # Null /\ ~Has(r, "dry_run")

(* An edge that stays inside its own snapshot.                             *)
Internal(s) == s.edges \cap (s.nodes \X s.nodes)

(* `committed` means stored: every node, vector and inner edge of the      *)
(* batch is there, possibly restamped by a later run, whatever other runs  *)
(* did in between.                                                         *)
GraphIsStored(s) == /\ s.nodes \subseteq Present(nodes)
                    /\ Internal(s) \subseteq Present(edges)

CommittedGraph ==
  \A r \in Run : Has(r, "committed") => GraphIsStored(content[r])

(* The in-memory vector store loses nothing; LanceDB deletes before it     *)
(* adds, so a re-index that stops in between loses what was committed.     *)
CommittedRows ==
  \A r \in Run : Has(r, "committed") =>
    content[r].vectors \subseteq Present(vectors)

CommittedVectors == mode.vectors = "memory" => CommittedRows

(* Nodes go first: whatever fails or interleaves, a stored inner edge has  *)
(* both its ends in the graph and a stored vector has its node, so that    *)
(* retrieval can resolve a vector hit.                                     *)
NothingDangles ==
  /\ \A n \in NodeId : vectors[n] # Null => nodes[n] # Null
  /\ \A e \in EdgeKey : edges[e] # Null /\ e \in Internal(content[edges[e]])
       => nodes[e[1]] # Null /\ nodes[e[2]] # Null

(* What the caller is told agrees with the manifest: a result only for a   *)
(* batch resolved as asked, an error never for a committed one, and unless *)
(* the marking itself failed, never for a pending one.                     *)
ToldTheTruth ==
  \A r \in Run :
    /\ pc[r] = "returned" => Has(r, Outcome(r))
    /\ pc[r] = "unmarked" => ~Has(r, "committed") /\ ~Has(r, "dry_run")
    /\ pc[r] = "threw" => batches[r] = Null \/ Has(r, "failed")

(* Indexing again what a committed batch already holds adds and removes    *)
(* nothing, even when the second run fails half way or overlaps others     *)
(* (smoke.test.ts:94, "is idempotent on a second run" of the in-memory     *)
(* stores).                                                                *)
Keys == <<Present(nodes), Present(edges), Present(vectors)>>

IsRerun(r) ==
  \E q \in Run : Has(q, "committed") /\ content[q] = content[r]

InMemory == mode = [vectors |-> "memory", graph |-> "memory"]

RerunAddsNothing ==
  [][\A r \in Run :
       InMemory /\ IsRerun(r) /\ pc'[r] # pc[r] => Keys' = Keys]_indexVars

(* mock-fixture.ts:129, "the WAL is never left ambiguous": a recorded      *)
(* batch is resolved in the end, unless its process died or the manifest   *)
(* store refused the mark.                                                 *)
PendingIsResolved ==
  \A r \in Run :
    Has(r, "pending") ~> ~Has(r, "pending") \/ pc[r] \in {"crashed", "unmarked"}
=============================================================================
