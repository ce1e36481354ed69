----------------------------- MODULE Neo4jStore -----------------------------
(***************************************************************************)
(* Neo4jGraphStore (neo4j-store.ts): calls of one store object against one *)
(* database.  A call is a chain of awaited transactions: the lazy, shared  *)
(* migration, one write per node batch, one write per edge type, one read  *)
(* per layer of a traversal.  Calls interleave between transactions, each  *)
(* may reject, and the process may be restarted.                           *)
(*                                                                         *)
(* Neo4j is external.  Migrations are two statements here: the uniqueness  *)
(* constraint, which cannot be created over duplicates, and one index.     *)
(* MERGE on a constrained id is atomic; without the constraint two         *)
(* transactions that both miss the id both create it.  MATCH drops an edge *)
(* whose end is not there.                                                 *)
(***************************************************************************)
EXTENDS Traversal

CONSTANTS Call,         \* calls of the store
          Requests,     \* what they may ask for
          Null

NodesRequest == [op: {"nodes"}, ids: SUBSET NodeId]
EdgesRequest == [op: {"edges"}, edges: SUBSET Edge]
ReadRequest == [op: {"neighbors"}, id: NodeId, query: Query]

ASSUME Neo4jAssumption ==
  /\ \A req \in Requests :
       \/ req.op = "nodes" /\ req \in NodesRequest /\ IsFiniteSet(req.ids)
       \/ req.op = "edges" /\ req \in EdgesRequest
       \/ req.op = "neighbors" /\ req \in ReadRequest
  /\ Null \notin Requests \cup Call /\ NodeId \cap Edge = {}

Statements == 2

VARIABLES copies,    \* how many :Symbol nodes carry each id
          by,        \* the call whose properties a node or relationship has
          applied,   \* the migration statements the database has seen
          migration, \* migrationPromise: state, and the next statement
          pc, arg,   \* each call
          work,      \* what is left of it: ids, types, or a search
          began,     \* history: the graph and who had returned at the call
          autoMigrate \* the option of that name; fixed by Init

database == <<copies, by, applied>>
vars == <<database, migration, pc, arg, work, began, autoMigrate>>

Stored == {n \in NodeId : copies[n] > 0}
DbGraph == [nodes |-> Stored, edges |-> {e \in Edge : by[e] # Null}]

Constrained == applied > 0

Running == {"migrating", "writing", "creating", "seeding", "reading"}

NoPromise == [state |-> "none", next |-> 1]

(* An empty database, fresh or migrated by an earlier process.             *)
Init ==
  /\ copies = [n \in NodeId |-> 0] /\ by = [x \in NodeId \cup Edge |-> Null]
  /\ applied \in {0, Statements}
  /\ autoMigrate \in BOOLEAN
  /\ migration = NoPromise
  /\ pc = [c \in Call |-> "idle"]
  /\ arg = [c \in Call |-> Null]
  /\ work = [c \in Call |-> Null]
  /\ began = [c \in Call |-> Null]

Goto(c, l) == pc' = [pc EXCEPT ![c] = l]
Work(c, w) == work' = [work EXCEPT ![c] = w]

TypesOf(es) == {e.type : e \in es}

Returned == {c \in Call : pc[c] = "returned"}

Accept(c, req) ==
  /\ pc[c] = "idle"
  /\ arg' = [arg EXCEPT ![c] = req]
  /\ began' = [began EXCEPT ![c] = [graph |-> DbGraph, returned |-> Returned]]
  /\ UNCHANGED database

(* ensureMigrated: the first write starts the migration, and every write   *)
(* waits for the one promise.                                              *)
StarterWaits == autoMigrate /\ migration.state = "none"

MustWait == autoMigrate

BeginWrite(c, req) ==
  /\ req.op \in {"nodes", "edges"}
  /\ Accept(c, req)
  /\ IF (req.op = "nodes" /\ req.ids = {}) \/ (req.op = "edges" /\ req.edges = {})
     THEN Goto(c, "returned") /\ UNCHANGED <<migration, work>>
     ELSE /\ Goto(c, IF MustWait THEN "migrating" ELSE "writing")
          /\ Work(c, IF req.op = "nodes" THEN {} ELSE TypesOf(req.edges))
          /\ migration' = IF autoMigrate /\ migration.state = "none"
                          THEN [state |-> "running", next |-> 1]
                          ELSE migration

(* runMigrations: one statement after the other, each of them idempotent.  *)
(* The constraint is refused while an id is there twice.                   *)
Refused(k) == k = 1 /\ applied = 0 /\ \E n \in NodeId : copies[n] > 1

AfterStatement(m) == IF m.next = Statements THEN [m EXCEPT !.state = "done"]
                                            ELSE [m EXCEPT !.next = @ + 1]

Migrate ==
  /\ migration.state = "running" /\ ~Refused(migration.next)
  /\ applied' = IF migration.next > applied THEN migration.next ELSE applied
  /\ migration' = AfterStatement(migration)
  /\ UNCHANGED <<copies, by, pc, arg, work, began>>

MigrationFails ==
  /\ migration.state = "running"
  /\ migration' = [migration EXCEPT !.state = "rejected"]
  /\ UNCHANGED <<database, pc, arg, work, began>>

AwaitSuccessOnly(c) ==
  /\ pc[c] = "migrating" /\ migration.state = "done"
  /\ Goto(c, "writing")
  /\ UNCHANGED <<database, migration, arg, work, began>>

AwaitMigration(c) ==
  /\ pc[c] = "migrating" /\ migration.state \in {"done", "rejected"}
  /\ Goto(c, IF migration.state = "done" THEN "writing" ELSE "threw")
  /\ UNCHANGED <<database, migration, arg, work, began>>

(***************************************************************************)
(* upsertNodes: one transaction.                                           *)
(***************************************************************************)
Create(ids) == copies' = [n \in NodeId |-> IF n \in ids THEN copies[n] + 1
                                                        ELSE copies[n]]

SetOnCreate(xs, c) == by' = [x \in DOMAIN by |-> IF x \in xs /\ by[x] = Null THEN c
                                                 ELSE by[x]]

(* SET replaces the properties of what was there, too (toNodeProps and     *)
(* toEdgeProps carry the whole row, the run that wrote it among it).       *)
Set(xs, c) == by' = [x \in DOMAIN by |-> IF x \in xs THEN c ELSE by[x]]

MergeNodes(c) ==
  /\ pc[c] = "writing" /\ arg[c].op = "nodes"
  /\ IF Constrained
     THEN /\ Create(arg[c].ids \ Stored) /\ Set(arg[c].ids, c)
          /\ Goto(c, "returned")
          /\ UNCHANGED work
     ELSE /\ Goto(c, "creating")
          /\ Work(c, arg[c].ids \ Stored)
          /\ UNCHANGED <<copies, by>>
  /\ UNCHANGED <<applied, migration, arg, began>>

(* The second half of an unconstrained MERGE.                              *)
CreateNodes(c) ==
  /\ pc[c] = "creating"
  /\ Create(work[c]) /\ Set(arg[c].ids, c)
  /\ Goto(c, "returned")
  /\ UNCHANGED <<applied, migration, arg, work, began>>

(***************************************************************************)
(* upsertEdges: one transaction per type, in the order of the input.       *)
(***************************************************************************)
HasBothEnds(e) == e.src \in Stored /\ e.dst \in Stored

Matched(es) == {e \in es : HasBothEnds(e)}

FirstTypeOnly(c, t) ==
  /\ pc[c] = "writing" /\ arg[c].op = "edges" /\ t \in work[c]
  /\ Set(Matched({e \in arg[c].edges : e.type = t}), c)
  /\ Goto(c, "returned")
  /\ UNCHANGED <<copies, applied, migration, arg, work, began>>

MergeEdges(c, t) ==
  /\ pc[c] = "writing" /\ arg[c].op = "edges" /\ t \in work[c]
  /\ Set(Matched({e \in arg[c].edges : e.type = t}), c)
  /\ Work(c, work[c] \ {t})
  /\ IF work[c] = {t} THEN Goto(c, "returned") ELSE UNCHANGED pc
  /\ UNCHANGED <<copies, applied, migration, arg, began>>

(***************************************************************************)
(* neighbors: getNode in a session of its own, then a read per layer.      *)
(***************************************************************************)
BeginRead(c, req) ==
  /\ req.op = "neighbors"
  /\ Accept(c, req)
  /\ Goto(c, "seeding")
  /\ UNCHANGED <<migration, work>>

SearchIsOver(c, s, layers) ==
  layers = arg[c].query.depth \/ Exhausted(s, arg[c].query)

ReadSeed(c) ==
  /\ pc[c] = "seeding"
  /\ Work(c, [search |-> Seed(DbGraph, arg[c].id), layers |-> 0])
  /\ Goto(c, IF arg[c].query.depth = 0 THEN "returned" ELSE "reading")
  /\ UNCHANGED <<database, migration, arg, began>>

ReadLayer(c) ==
  LET s == Expand(DbGraph, work[c].search, arg[c].query)
      k == work[c].layers + 1
  IN
  /\ pc[c] = "reading"
  /\ Work(c, [search |-> s, layers |-> k])
  /\ Goto(c, IF SearchIsOver(c, s, k) THEN "returned" ELSE "reading")
  /\ UNCHANGED <<database, migration, arg, began>>

(***************************************************************************)
(* Faults.                                                                 *)
(***************************************************************************)
Throws(c) ==
  /\ pc[c] \in Running \ {"migrating"}
  /\ Goto(c, "threw")
  /\ UNCHANGED <<database, migration, arg, work, began>>

(* The process dies with its calls; the next one has a new store object.   *)
Restart ==
  /\ migration # NoPromise
  /\ migration' = NoPromise
  /\ pc' = [c \in Call |-> IF pc[c] \in Running THEN "crashed" ELSE pc[c]]
  /\ UNCHANGED <<database, arg, work, began>>

Advance(c) ==
  \/ AwaitMigration(c) \/ MergeNodes(c) \/ CreateNodes(c)
  \/ \E t \in EdgeType : MergeEdges(c, t)
  \/ ReadSeed(c) \/ ReadLayer(c)

Next ==
  /\ \/ \E c \in Call, req \in Requests : BeginWrite(c, req) \/ BeginRead(c, req)
     \/ \E c \in Call : Advance(c) \/ Throws(c)
     \/ Migrate \/ MigrationFails \/ Restart
  /\ UNCHANGED autoMigrate

(* The driver settles every transaction it was given.                      *)
Spec == /\ Init /\ [][Next]_vars
        /\ WF_vars((Migrate \/ MigrationFails) /\ UNCHANGED autoMigrate)
        /\ \A c \in Call : WF_vars(Advance(c) /\ UNCHANGED autoMigrate)

-----------------------------------------------------------------------------
TypeOK ==
  /\ copies \in [NodeId -> Nat] /\ by \in [NodeId \cup Edge -> Call \cup {Null}]
  /\ applied \in 0..Statements
  /\ migration \in [state: {"none", "running", "done", "rejected"},
                    next: 1..Statements]
  /\ pc \in [Call -> Running \cup {"idle", "returned", "threw", "crashed"}]
  /\ arg \in [Call -> Requests \cup {Null}]
  /\ autoMigrate \in BOOLEAN

(* migrations.ts:7, "the unique constraint is the contract every other     *)
(* adapter piece relies on": however many first writes race, fail and are  *)
(* restarted, an id never gets two nodes.                                  *)
NodesAreUnique ==
  autoMigrate \/ Constrained => \A n \in NodeId : copies[n] <= 1

(* A traversal overtaken by writes still makes sense: what it returns lies *)
(* between the answer at the time of the call and the answer now, and a    *)
(* limited one finds as many nodes as the limit asks and the graph had.    *)
Unlimited(q) == [q EXCEPT !.limit = 0]

ReadIsSandwiched ==
  \A c \in Call : pc[c] = "returned" /\ arg[c].op = "neighbors" =>
    LET q == arg[c].query
        r == Answer(work[c].search)
        lower == Neighbors(began[c].graph, arg[c].id, Unlimited(q))
        upper == Neighbors(DbGraph, arg[c].id, Unlimited(q))
    IN  /\ r.nodes \subseteq upper.nodes /\ r.edges \subseteq upper.edges
        /\ IF q.limit = 0
           THEN lower.nodes \subseteq r.nodes /\ lower.edges \subseteq r.edges
           ELSE \/ lower.nodes \subseteq r.nodes
                \/ Cardinality(r.nodes \ {arg[c].id}) >= q.limit

(* Everybody waiting on the one migration promise is told how it ended.    *)
CallsSettle == \A c \in Call : pc[c] \in Running ~> pc[c] \notin Running

(* MockGraphStore after the writes that returned.                          *)
ReturnedAs(op) == {c \in Returned : arg[c].op = op}

Mirror == [nodes |-> UNION {arg[c].ids : c \in ReturnedAs("nodes")},
           edges |-> UNION {arg[c].edges : c \in ReturnedAs("edges")}]

Settled == \A c \in Call : pc[c] \in {"idle", "returned"}

EndsCameFirst ==
  \A c \in ReturnedAs("edges") :
    \A e \in arg[c].edges : {e.src, e.dst} \subseteq began[c].graph.nodes

(* The two graph stores answer alike (neo4j-store.ts:79, "traversal        *)
(* mirrors MockGraphStore's layer-complete BFS"), however the calls        *)
(* overlapped, once all of them returned and every edge was asked for      *)
(* after the nodes at its ends, as the indexer does.  Without that order   *)
(* they differ: only the in-memory store keeps an edge without ends.       *)
MirrorsMockInOrder ==
  Settled /\ EndsCameFirst =>
    \A id \in NodeId, direction \in {"out", "in", "both"} :
      LET q == [depth |-> 2, types |-> {}, direction |-> direction, limit |-> 0]
      IN  Neighbors(DbGraph, id, q) = Neighbors(Mirror, id, q)

(* However writes overlap, a node or an edge keeps the properties of the   *)
(* last one (mock.ts:20): a write that was asked for after another had     *)
(* returned is never the one that is lost, or half lost.                   *)
Wrote(c) == IF arg[c].op = "nodes" THEN arg[c].ids
            ELSE {e \in arg[c].edges : {e.src, e.dst} \subseteq began[c].graph.nodes}

LastWriteStands ==
  \A c \in ReturnedAs("nodes") \cup ReturnedAs("edges") :
    \A x \in Wrote(c) : by[x] # Null /\ by[x] \notin began[c].returned
=============================================================================
