----------------------------- MODULE Neo4jProofs -----------------------------
(***************************************************************************)
(* What is proved of the Neo4j store for any calls, ids and requests: the  *)
(* migration that the first write starts keeps ids unique, the last write  *)
(* of a node or an edge stands, a traversal that writes overtake lies      *)
(* between the graphs it began and ended with, and a settled database has  *)
(* what the in-memory store would have.                                    *)
(***************************************************************************)
EXTENDS Neo4jStore, TraversalProofs

History == [graph: [nodes: SUBSET NodeId, edges: SUBSET Edge],
            returned: SUBSET Call]

(* What a call that was made has beside its type.                          *)
CallsAreKnown ==
  /\ DOMAIN work = Call /\ DOMAIN began = Call
  /\ \A c \in Call : pc[c] # "idle" => arg[c] \in Requests /\ began[c] \in History
  /\ \A c \in Call : pc[c] \in {"seeding", "reading"} => arg[c].op = "neighbors"

(* The migration has applied what it is past; without autoMigrate there is *)
(* none.  Who writes has waited for it, and no half of an unconstrained    *)
(* MERGE is under way beside the constraint.                               *)
MigrationLeads ==
  /\ migration.state = "done" => applied = Statements
  /\ migration.state = "running" => migration.next - 1 <= applied
  /\ ~autoMigrate => migration = NoPromise
  /\ \A c \in Call :
       /\ autoMigrate /\ pc[c] = "writing" => Constrained
       /\ pc[c] = "creating" => ~autoMigrate /\ ~Constrained

(* A call has returned for good, nodes stay, and an edge write has left to *)
(* do exactly the types it has not written.                                *)
Done(c) == {x \in Wrote(c) : arg[c].op = "edges" /\ x.type \notin work[c]}

Stands(c, x) == by[x] # Null /\ by[x] \notin began[c].returned

WritesLeft ==
  \A c \in Call :
    /\ pc[c] # "idle" => /\ began[c].returned \subseteq Returned \ {c}
                        /\ began[c].graph.nodes \subseteq Stored
    /\ pc[c] \in {"migrating", "writing", "creating"} =>
         arg[c].op \in {"nodes", "edges"}
    /\ pc[c] = "creating" => arg[c].op = "nodes"
    /\ pc[c] \in {"migrating", "writing"} => \A x \in Done(c) : Stands(c, x)

Inv == TypeOK /\ CallsAreKnown /\ MigrationLeads /\ NodesAreUnique /\ WritesLeft /\ LastWriteStands

LEMMA RequestsAreKnown ==
  ASSUME NEW req \in Requests
  PROVE  /\ req.op \in {"nodes", "edges", "neighbors"}
         /\ req.op = "nodes" => req.ids \subseteq NodeId
         /\ req.op = "edges" => req.edges \subseteq Edge
  BY Neo4jAssumption DEF NodesRequest, EdgesRequest, ReadRequest

(* A step of one call, or of none, that writes nothing.                    *)
LEMMA QuietSteps ==
  ASSUME Inv, UNCHANGED <<copies, by, arg, began>>,
         pc' \in [Call -> Running \cup {"idle", "returned", "threw", "crashed"}],
         applied' \in 0..Statements, applied <= applied',
         autoMigrate' = autoMigrate, DOMAIN work' = Call,
         migration' \in [state: {"none", "running", "done", "rejected"},
                        next: 1..Statements],
         ~autoMigrate => migration' = NoPromise /\ applied' = applied,
         migration'.state = "done" => applied' = Statements,
         migration'.state = "running" => migration'.next - 1 <= applied',
         \A c \in Call :
           \/ pc'[c] = pc[c] /\ work'[c] = work[c]
           \/ pc'[c] \in {"threw", "crashed"} /\ pc[c] \in Running
           \/ /\ pc'[c] = "writing" /\ pc[c] = "migrating" /\ work'[c] = work[c]
              /\ autoMigrate => Constrained'
           \/ /\ pc[c] \in {"seeding", "reading"}
              /\ pc'[c] \in {"returned", "reading"} /\ arg[c].op = "neighbors"
  PROVE  Inv'
<1> USE DEF Inv, Running
<1>1. TypeOK' /\ CallsAreKnown'
  BY DEF TypeOK, CallsAreKnown
<1>2. MigrationLeads'
  BY DEF MigrationLeads, TypeOK, Constrained, Statements
<1>3. NodesAreUnique'
  BY DEF NodesAreUnique, MigrationLeads, TypeOK, Constrained, Statements
<1>4. Returned \subseteq Returned'
  BY DEF Returned, TypeOK
<1>5. WritesLeft'
  BY <1>4 DEF WritesLeft, Done, Stands, Stored, Wrote, TypeOK
<1>6. LastWriteStands'
  BY DEF LastWriteStands, ReturnedAs, Returned, Wrote, TypeOK
<1> QED
  BY <1>1, <1>2, <1>3, <1>5, <1>6

LEMMA KnownWrites ==
  ASSUME Inv, NEW d \in Call, pc[d] # "idle", arg[d].op \in {"nodes", "edges"}
  PROVE  Wrote(d) \subseteq NodeId \cup Edge
  BY RequestsAreKnown DEF Inv, CallsAreKnown, Wrote

(* A call that is writing sets its properties on some ids and edges.       *)
LEMMA SetStands ==
  ASSUME Inv, NEW c \in Call, pc[c] \in {"writing", "creating"},
         NEW xs \in SUBSET (NodeId \cup Edge), Set(xs, c), UNCHANGED began
  PROVE  /\ by' \in [NodeId \cup Edge -> Call \cup {Null}]
         /\ \A x \in xs : Stands(c, x)'
         /\ \A d \in Call, x \in NodeId \cup Edge :
              pc[d] # "idle" /\ Stands(d, x) => Stands(d, x)'
<1>1. c \notin Returned /\ c # Null
  BY Neo4jAssumption DEF Returned
<1>2. \A d \in Call : pc[d] # "idle" => c \notin began[d].returned
  BY <1>1 DEF Inv, WritesLeft
<1>3. DOMAIN by = NodeId \cup Edge
  BY DEF Inv, TypeOK
<1> QED
  BY <1>1, <1>2, <1>3 DEF Set, Stands, Inv, TypeOK

LEMMA LastWritesStand ==
  ASSUME UNCHANGED <<arg, began>>,
         \A d \in Call : d \in Returned' /\ arg[d].op \in {"nodes", "edges"} =>
           \A x \in Wrote(d) : Stands(d, x)'
  PROVE  LastWriteStands'
<1>1. \A d \in Call : Wrote(d)' = Wrote(d)
  BY DEF Wrote
<1>2. ReturnedAs("nodes")' \cup ReturnedAs("edges")'
        = {d \in Returned' : arg[d].op \in {"nodes", "edges"}}
  BY DEF ReturnedAs
<1>3. Returned' \subseteq Call
  BY DEF Returned
<1> QED
  BY <1>1, <1>2, <1>3 DEF LastWriteStands, Stands

LEMMA MergeNodesKeeps ==
  ASSUME Inv, NEW c \in Call, MergeNodes(c), UNCHANGED autoMigrate
  PROVE  Inv'
<1> USE DEF Inv, Running
<1>1. arg[c] \in Requests /\ arg[c].ids \subseteq NodeId
  BY RequestsAreKnown DEF MergeNodes, CallsAreKnown
<1>2. CASE ~Constrained
  <2>1. /\ pc' = [pc EXCEPT ![c] = "creating"] /\ pc[c] = "writing"
        /\ work' = [work EXCEPT ![c] = arg[c].ids \ Stored]
        /\ UNCHANGED <<copies, by, applied, migration, arg, began, autoMigrate>>
        /\ arg[c].op = "nodes"
    BY <1>2 DEF MergeNodes, Goto, Work
  <2>2. TypeOK' /\ CallsAreKnown'
    BY <2>1 DEF TypeOK, CallsAreKnown
  <2>3. MigrationLeads'
    BY <1>2, <2>1 DEF MigrationLeads, TypeOK, Constrained
  <2>4. NodesAreUnique'
    BY <2>1 DEF NodesAreUnique, Constrained
  <2>5. Returned' = Returned
    BY <2>1 DEF Returned, TypeOK
  <2>6. WritesLeft'
    BY <2>1, <2>5 DEF WritesLeft, Done, Stands, Stored, Wrote, TypeOK, CallsAreKnown
  <2>7. LastWriteStands'
    BY <2>1, <2>5 DEF LastWriteStands, ReturnedAs, Wrote, Stands
  <2> QED
    BY <2>2, <2>3, <2>4, <2>6, <2>7
<1>3. CASE Constrained
  <2>1. /\ pc' = [pc EXCEPT ![c] = "returned"] /\ pc[c] = "writing"
        /\ Create(arg[c].ids \ Stored) /\ Set(arg[c].ids, c)
        /\ UNCHANGED <<work, applied, migration, arg, began, autoMigrate>>
        /\ arg[c].op = "nodes"
    BY <1>3 DEF MergeNodes, Goto
  <2>2. /\ by' \in [NodeId \cup Edge -> Call \cup {Null}]
        /\ \A x \in arg[c].ids : Stands(c, x)'
        /\ \A d \in Call, x \in NodeId \cup Edge :
              pc[d] # "idle" /\ Stands(d, x) => Stands(d, x)'
    BY <1>1, <2>1, SetStands
  <2>3. /\ copies' \in [NodeId -> Nat] /\ \A n \in NodeId : copies[n] <= copies'[n]
        /\ \A n \in NodeId : copies'[n] <= 1 \/ copies'[n] = copies[n]
    BY <2>1 DEF Create, Stored, TypeOK
  <2>4. TypeOK' /\ CallsAreKnown'
    BY <2>1, <2>2, <2>3 DEF TypeOK, CallsAreKnown
  <2>5. MigrationLeads'
    BY <2>1 DEF MigrationLeads, TypeOK, Constrained
  <2>6. NodesAreUnique'
    BY <2>1, <2>3 DEF NodesAreUnique, Constrained
  <2>7. Returned' = Returned \cup {c} /\ Stored \subseteq Stored'
    BY <2>1, <2>3 DEF Returned, Stored, TypeOK
  <2>8. WritesLeft'
    BY <2>1, <2>2, <2>7, KnownWrites DEF WritesLeft, Done, TypeOK, CallsAreKnown, Wrote
  <2>9. LastWriteStands'
    <3> SUFFICES ASSUME NEW d \in Call, d \in Returned',
                        arg[d].op \in {"nodes", "edges"}, NEW x \in Wrote(d)
                 PROVE  Stands(d, x)'
      BY <2>1, LastWritesStand
    <3>1. CASE d = c
      BY <2>1, <2>2, <3>1 DEF Wrote
    <3>2. CASE d # c
      <4>1. pc[d] = "returned" /\ x \in NodeId \cup Edge
        BY <2>7, <3>2, KnownWrites DEF Returned
      <4>2. Stands(d, x)
        BY <4>1 DEF LastWriteStands, ReturnedAs, Returned, Stands
      <4> QED
        BY <2>2, <4>1, <4>2
    <3> QED
      BY <3>1, <3>2
  <2> QED
    BY <2>4, <2>5, <2>6, <2>8, <2>9
<1> QED
  BY <1>2, <1>3

LEMMA CreateNodesKeeps ==
  ASSUME Inv, NEW c \in Call, CreateNodes(c), UNCHANGED autoMigrate
  PROVE  Inv'
<1> USE DEF Inv, Running
<1>1. /\ pc' = [pc EXCEPT ![c] = "returned"] /\ pc[c] = "creating"
      /\ Create(work[c]) /\ Set(arg[c].ids, c)
      /\ UNCHANGED <<work, applied, migration, arg, began, autoMigrate>>
  BY DEF CreateNodes, Goto
<1>2. arg[c] \in Requests /\ arg[c].op = "nodes" /\ arg[c].ids \subseteq NodeId
      /\ ~autoMigrate /\ ~Constrained
  BY <1>1, RequestsAreKnown DEF CallsAreKnown, WritesLeft, MigrationLeads
<1>3. /\ by' \in [NodeId \cup Edge -> Call \cup {Null}]
      /\ \A x \in arg[c].ids : Stands(c, x)'
      /\ \A d \in Call, x \in NodeId \cup Edge :
            pc[d] # "idle" /\ Stands(d, x) => Stands(d, x)'
  BY <1>1, <1>2, SetStands
<1>4. copies' \in [NodeId -> Nat] /\ \A n \in NodeId : copies[n] <= copies'[n]
  BY <1>1 DEF Create, TypeOK
<1>5. TypeOK' /\ CallsAreKnown'
  BY <1>1, <1>3, <1>4 DEF TypeOK, CallsAreKnown
<1>6. MigrationLeads'
  BY <1>1 DEF MigrationLeads, TypeOK, Constrained
<1>7. NodesAreUnique'
  BY <1>1, <1>2 DEF NodesAreUnique, Constrained
<1>8. Returned' = Returned \cup {c} /\ Stored \subseteq Stored'
  BY <1>1, <1>4 DEF Returned, Stored, TypeOK
<1>9. WritesLeft'
  BY <1>1, <1>3, <1>8, KnownWrites DEF WritesLeft, Done, TypeOK, CallsAreKnown, Wrote
<1>10. LastWriteStands'
  <2> SUFFICES ASSUME NEW d \in Call, d \in Returned',
                      arg[d].op \in {"nodes", "edges"}, NEW x \in Wrote(d)
               PROVE  Stands(d, x)'
    BY <1>1, LastWritesStand
  <2>1. CASE d = c
    BY <1>2, <1>3, <2>1 DEF Wrote
  <2>2. CASE d # c
    <3>1. pc[d] = "returned" /\ x \in NodeId \cup Edge
      BY <1>8, <2>2, KnownWrites DEF Returned
    <3>2. Stands(d, x)
      BY <3>1 DEF LastWriteStands, ReturnedAs, Returned, Stands
    <3> QED
      BY <1>3, <3>1, <3>2
  <2> QED
    BY <2>1, <2>2
<1> QED
  BY <1>5, <1>6, <1>7, <1>9, <1>10

(* The edges of one type are set, and with the last type the call returns. *)
LEMMA MergeEdgesKeeps ==
  ASSUME Inv, NEW c \in Call, NEW t \in EdgeType, MergeEdges(c, t),
         UNCHANGED autoMigrate
  PROVE  Inv'
<1> USE DEF Inv, Running
<1> DEFINE now == Matched({e \in arg[c].edges : e.type = t})
<1>1. /\ pc[c] = "writing" /\ arg[c].op = "edges" /\ Set(now, c)
      /\ work' = [work EXCEPT ![c] = work[c] \ {t}]
      /\ pc' = IF work[c] = {t} THEN [pc EXCEPT ![c] = "returned"] ELSE pc
      /\ UNCHANGED <<copies, applied, migration, arg, began, autoMigrate>>
  BY DEF MergeEdges, Goto, Work
<1>2. arg[c] \in Requests /\ arg[c].edges \subseteq Edge /\ now \subseteq Edge
  BY <1>1, RequestsAreKnown DEF CallsAreKnown, Matched
<1>3. /\ by' \in [NodeId \cup Edge -> Call \cup {Null}]
      /\ \A x \in now : Stands(c, x)'
      /\ \A d \in Call, x \in NodeId \cup Edge :
            pc[d] # "idle" /\ Stands(d, x) => Stands(d, x)'
  BY <1>1, <1>2, SetStands
<1>4. TypeOK' /\ CallsAreKnown'
  BY <1>1, <1>3 DEF TypeOK, CallsAreKnown
<1>5. MigrationLeads' /\ NodesAreUnique'
  BY <1>1 DEF MigrationLeads, NodesAreUnique, TypeOK, Constrained
<1>6. Returned \subseteq Returned' /\ Returned' \subseteq Returned \cup {c}
      /\ Stored' = Stored
  BY <1>1 DEF Returned, Stored, TypeOK
<1>7. \A x \in Wrote(c) : x.type \notin work'[c] => Stands(c, x)'
  <2> SUFFICES ASSUME NEW x \in Wrote(c), x.type \notin work'[c]
               PROVE  Stands(c, x)'
    OBVIOUS
  <2>1. x \in arg[c].edges /\ {x.src, x.dst} \subseteq Stored
    BY <1>1 DEF Wrote, WritesLeft
  <2>2. CASE x.type = t
    BY <1>3, <2>1, <2>2 DEF Matched, HasBothEnds
  <2>3. CASE x.type # t
    <3>1. x.type \notin work[c]
      BY <1>1, <2>3 DEF CallsAreKnown
    <3>2. Stands(c, x)
      BY <1>1, <3>1 DEF WritesLeft, Done
    <3> QED
      BY <1>1, <1>2, <1>3, <2>1, <3>2
  <2> QED
    BY <2>2, <2>3
<1>8. WritesLeft'
  <2> SUFFICES ASSUME NEW d \in Call
               PROVE  /\ pc'[d] # "idle" =>
                           /\ began[d].returned \subseteq Returned' \ {d}
                           /\ began[d].graph.nodes \subseteq Stored'
                      /\ pc'[d] \in {"migrating", "writing", "creating"} =>
                           arg[d].op \in {"nodes", "edges"}
                      /\ pc'[d] = "creating" => arg[d].op = "nodes"
                      /\ pc'[d] \in {"migrating", "writing"} =>
                           \A x \in Done(d)' : Stands(d, x)'
    BY <1>1 DEF WritesLeft
  <2>1. CASE d = c
    BY <1>1, <1>6, <1>7, <2>1 DEF WritesLeft, Done, Wrote
  <2>2. CASE d # c
    <3>1. pc'[d] = pc[d] /\ work'[d] = work[d] /\ Done(d)' = Done(d)
      BY <1>1, <2>2 DEF TypeOK, CallsAreKnown, Done, Wrote
    <3> QED
      BY <1>3, <1>6, <3>1, KnownWrites DEF WritesLeft, Done
  <2> QED
    BY <2>1, <2>2
<1>9. LastWriteStands'
  <2> SUFFICES ASSUME NEW d \in Call, d \in Returned',
                      arg[d].op \in {"nodes", "edges"}, NEW x \in Wrote(d)
               PROVE  Stands(d, x)'
    BY <1>1, LastWritesStand
  <2>1. CASE d = c
    <3>1. work[c] = {t}
      BY <1>1, <2>1 DEF Returned
    <3> QED
      BY <1>1, <1>7, <2>1, <3>1 DEF CallsAreKnown
  <2>2. CASE d # c
    <3>1. pc[d] = "returned" /\ x \in NodeId \cup Edge
      BY <1>6, <2>2, KnownWrites DEF Returned
    <3>2. Stands(d, x)
      BY <3>1 DEF LastWriteStands, ReturnedAs, Returned, Stands
    <3> QED
      BY <1>3, <3>1, <3>2
  <2> QED
    BY <2>1, <2>2
<1> QED
  BY <1>4, <1>5, <1>8, <1>9

(* A new call: what it was asked, and what it found.                       *)
LEMMA BeginKeeps ==
  ASSUME Inv, NEW c \in Call, NEW req \in Requests,
         BeginWrite(c, req) \/ BeginRead(c, req), UNCHANGED autoMigrate
  PROVE  Inv'
<1> USE DEF Inv, Running
<1>1. /\ pc[c] = "idle"
      /\ arg' = [arg EXCEPT ![c] = req]
      /\ began' = [began EXCEPT ![c] = [graph |-> DbGraph, returned |-> Returned]]
      /\ UNCHANGED <<copies, by, applied, autoMigrate>>
  BY DEF BeginWrite, BeginRead, Accept, database
<1>2. \/ pc' = [pc EXCEPT ![c] = "returned"] /\ work' = work
         /\ ((req.op = "nodes" /\ req.ids = {}) \/ (req.op = "edges" /\ req.edges = {}))
      \/ /\ pc' = [pc EXCEPT ![c] = IF autoMigrate THEN "migrating" ELSE "writing"]
         /\ work' = [work EXCEPT ![c] = IF req.op = "nodes" THEN {} ELSE TypesOf(req.edges)]
         /\ req.op \in {"nodes", "edges"}
      \/ pc' = [pc EXCEPT ![c] = "seeding"] /\ work' = work /\ req.op = "neighbors"
  BY DEF BeginWrite, BeginRead, Goto, Work, MustWait
<1>3. \/ migration' = migration
      \/ /\ autoMigrate /\ migration.state = "none"
         /\ migration' = [state |-> "running", next |-> 1]
  BY DEF BeginWrite, BeginRead
<1>4. [graph |-> DbGraph, returned |-> Returned] \in History
  BY DEF History, DbGraph, Stored, Returned
<1>5. TypeOK'
  BY <1>1, <1>2, <1>3 DEF TypeOK, Statements
<1>6. CallsAreKnown'
  BY <1>1, <1>2, <1>4 DEF TypeOK, CallsAreKnown
<1>7. MigrationLeads'
  BY <1>1, <1>2, <1>3 DEF MigrationLeads, TypeOK, Constrained, Statements
<1>8. NodesAreUnique'
  BY <1>1 DEF NodesAreUnique, Constrained
<1>9. /\ Stored' = Stored /\ Returned \subseteq Returned'
      /\ Returned' \subseteq Returned \cup {c} /\ c \notin Returned
  BY <1>1, <1>2 DEF Stored, Returned, TypeOK
<1>10. \A d \in Call \ {c} : /\ pc'[d] = pc[d] /\ arg'[d] = arg[d]
                             /\ work'[d] = work[d] /\ began'[d] = began[d]
  BY <1>1, <1>2 DEF TypeOK, CallsAreKnown
<1>11. /\ arg'[c] = req /\ began'[c].returned = Returned
       /\ began'[c].graph.nodes = Stored
  BY <1>1 DEF TypeOK, CallsAreKnown, DbGraph
<1>12. WritesLeft'
  <2> SUFFICES ASSUME NEW d \in Call
               PROVE  /\ pc'[d] # "idle" =>
                           /\ began'[d].returned \subseteq Returned' \ {d}
                           /\ began'[d].graph.nodes \subseteq Stored'
                      /\ pc'[d] \in {"migrating", "writing", "creating"} =>
                           arg'[d].op \in {"nodes", "edges"}
                      /\ pc'[d] = "creating" => arg'[d].op = "nodes"
                      /\ pc'[d] \in {"migrating", "writing"} =>
                           \A x \in Done(d)' : Stands(d, x)'
    BY DEF WritesLeft
  <2>1. CASE d = c
    <3>1. pc'[c] \in {"migrating", "writing"} => Done(c)' = {}
      <4> SUFFICES ASSUME pc'[c] \in {"migrating", "writing"}, NEW x \in Done(c)'
                   PROVE  FALSE
        OBVIOUS
      <4>1. arg'[c].op = "edges" /\ x \in Wrote(c)' /\ x.type \notin work'[c]
        BY DEF Done
      <4>2. x \in req.edges /\ req.op = "edges"
        BY <1>11, <4>1 DEF Wrote
      <4>3. work'[c] = TypesOf(req.edges)
        BY <1>1, <1>2, <4>2 DEF TypeOK, CallsAreKnown
      <4> QED
        BY <4>1, <4>2, <4>3 DEF TypesOf
    <3> QED
      BY <1>1, <1>2, <1>9, <1>11, <2>1, <3>1 DEF TypeOK
  <2>2. CASE d # c
    <3>1. Wrote(d)' = Wrote(d) /\ Done(d)' = Done(d)
      BY <1>10, <2>2 DEF Wrote, Done
    <3>2. \A x : Stands(d, x)' <=> Stands(d, x)
      BY <1>1, <1>10, <2>2 DEF Stands
    <3> QED
      BY <1>9, <1>10, <2>2, <3>1, <3>2 DEF WritesLeft
  <2> QED
    BY <2>1, <2>2
<1>13. LastWriteStands'
  <2> SUFFICES ASSUME NEW d \in Call, d \in Returned', arg'[d].op \in {"nodes", "edges"},
                      NEW x \in Wrote(d)'
               PROVE  Stands(d, x)'
    BY DEF LastWriteStands, ReturnedAs, Returned, Stands
  <2>1. d # c
    <3> SUFFICES ASSUME d = c PROVE FALSE
      OBVIOUS
    <3>1. (req.op = "nodes" /\ req.ids = {}) \/ (req.op = "edges" /\ req.edges = {})
      BY <1>1, <1>2 DEF Returned, TypeOK
    <3> QED
      BY <1>11, <3>1 DEF Wrote
  <2>2. d \in Returned /\ x \in Wrote(d) /\ arg[d].op \in {"nodes", "edges"}
    BY <1>9, <1>10, <2>1 DEF Wrote
  <2>3. Stands(d, x)
    BY <2>2 DEF LastWriteStands, ReturnedAs, Stands
  <2> QED
    BY <1>1, <1>10, <2>1, <2>3 DEF Stands
<1> QED
  BY <1>5, <1>6, <1>7, <1>8, <1>12, <1>13

LEMMA InvInit == Init => Inv
<1> SUFFICES ASSUME Init PROVE Inv
  OBVIOUS
<1>1. TypeOK /\ CallsAreKnown
  BY DEF Init, TypeOK, CallsAreKnown, NoPromise, Statements
<1>2. MigrationLeads /\ NodesAreUnique
  BY DEF Init, MigrationLeads, NodesAreUnique, NoPromise, Statements
<1>3. WritesLeft /\ LastWriteStands
  BY DEF Init, WritesLeft, LastWriteStands, ReturnedAs, Returned
<1> QED
  BY <1>1, <1>2, <1>3 DEF Inv

LEMMA InvNext == Inv /\ [Next]_vars => Inv'
<1> SUFFICES ASSUME Inv, [Next]_vars PROVE Inv'
  OBVIOUS
<1> USE DEF Running
<1>0. /\ TypeOK /\ CallsAreKnown /\ MigrationLeads /\ WritesLeft
      /\ \A c \in Call : pc[c] \in Running => pc[c] # "idle"
  BY DEF Inv
<1>1. CASE UNCHANGED vars
  BY <1>0, <1>1, QuietSteps DEF vars, database, TypeOK, CallsAreKnown, MigrationLeads, Statements
<1>2. ASSUME NEW c \in Call, NEW req \in Requests,
             BeginWrite(c, req) \/ BeginRead(c, req), UNCHANGED autoMigrate
      PROVE  Inv'
  BY <1>2, BeginKeeps
<1>3. ASSUME NEW c \in Call, AwaitMigration(c), UNCHANGED autoMigrate PROVE Inv'
  BY <1>0, <1>3, QuietSteps
     DEF AwaitMigration, Goto, database, TypeOK, CallsAreKnown, MigrationLeads,
         Statements, Constrained
<1>4. ASSUME NEW c \in Call, Throws(c), UNCHANGED autoMigrate PROVE Inv'
  BY <1>0, <1>4, QuietSteps
     DEF Throws, Goto, database, TypeOK, CallsAreKnown, MigrationLeads, Statements
<1>5. ASSUME NEW c \in Call, ReadSeed(c) \/ ReadLayer(c), UNCHANGED autoMigrate
      PROVE  Inv'
  <2>1. arg[c].op = "neighbors"
    BY <1>0, <1>5 DEF ReadSeed, ReadLayer, CallsAreKnown
  <2> QED
    BY <1>0, <1>5, <2>1, QuietSteps
       DEF ReadSeed, ReadLayer, Goto, Work, database, TypeOK, CallsAreKnown,
           MigrationLeads, Statements
<1>6. CASE Migrate /\ UNCHANGED autoMigrate
  BY <1>0, <1>6, QuietSteps
     DEF Migrate, AfterStatement, TypeOK, CallsAreKnown, MigrationLeads, Statements,
         NoPromise
<1>7. CASE (MigrationFails \/ Restart) /\ UNCHANGED autoMigrate
  BY <1>0, <1>7, QuietSteps
     DEF MigrationFails, Restart, database, TypeOK, CallsAreKnown, MigrationLeads,
         Statements, NoPromise
<1> QED
  BY <1>1, <1>2, <1>3, <1>4, <1>5, <1>6, <1>7, MergeNodesKeeps, CreateNodesKeeps,
     MergeEdgesKeeps
     DEF Next, Advance

(* For any calls, ids and requests: the state stays typed, ...             *)
THEOREM TypeCorrect == Spec => []TypeOK
  BY InvInit, InvNext, PTL DEF Spec, Inv

(* ... no id gets two nodes, however first writes race, fail and are       *)
(* restarted, ...                                                          *)
THEOREM NodesAreUniqueHolds == Spec => []NodesAreUnique
  BY InvInit, InvNext, PTL DEF Spec, Inv

(* ... and no write is lost to one that had returned before it.            *)
THEOREM LastWriteStandsHolds == Spec => []LastWriteStands
  BY InvInit, InvNext, PTL DEF Spec, Inv

-----------------------------------------------------------------------------
(***************************************************************************)
(* What the store holds, and what a traversal has of it.                   *)
(***************************************************************************)
Gave(c, x) ==
  /\ pc[c] # "idle"
  /\ \/ arg[c].op = "nodes" /\ x \in arg[c].ids
     \/ arg[c].op = "edges" /\ x \in arg[c].edges

(* A node or an edge is there with the properties of a call that gave it,  *)
(* an edge with both its ends; a MERGE that has missed some ids has found  *)
(* the others.                                                             *)
StoredWasGiven ==
  /\ IsFiniteSet(Stored)
  /\ \A n \in NodeId : n \in Stored <=> by[n] # Null
  /\ \A e \in Edge : by[e] # Null => {e.src, e.dst} \subseteq Stored
  /\ \A x \in NodeId \cup Edge : by[x] # Null => Gave(by[x], x)
  /\ \A c \in Call : pc[c] = "creating" =>
       work[c] \subseteq arg[c].ids /\ arg[c].ids \subseteq Stored \cup work[c]

(* The graph that a call began on is still there, and the layers that a    *)
(* traversal has read lie between that graph and the one there is now.     *)
BeganBelow(c) ==
  pc[c] # "idle" =>
    /\ Extends(began[c].graph, DbGraph)
    /\ \A e \in began[c].graph.edges : {e.src, e.dst} \subseteq began[c].graph.nodes

ReadsBetween(c) ==
  pc[c] \in {"reading", "returned"} /\ arg[c].op = "neighbors" =>
    /\ work[c].layers \in 0..arg[c].query.depth
    /\ pc[c] = "reading" => work[c].layers < arg[c].query.depth
    /\ pc[c] = "returned" => SearchIsOver(c, work[c].search, work[c].layers)
    /\ Sandwiched(began[c].graph, DbGraph, arg[c].id, work[c].layers, arg[c].query,
                  work[c].search)

ReadInv == StoredWasGiven /\ \A c \in Call : BeganBelow(c) /\ ReadsBetween(c)

LEMMA WhatIsAsked ==
  ASSUME NEW req \in Requests
  PROVE  /\ req.op = "nodes" => IsFiniteSet(req.ids)
         /\ req.op = "neighbors" => req.id \in NodeId /\ req.query \in Query
  BY Neo4jAssumption DEF NodesRequest, EdgesRequest, ReadRequest

LEMMA GraphsAreTyped ==
  ASSUME TypeOK, CallsAreKnown
  PROVE  /\ DbGraph \in Graph
         /\ \A c \in Call : pc[c] # "idle" => began[c].graph \in Graph
  BY DEF TypeOK, CallsAreKnown, DbGraph, Stored, Graph, History

(* A step of the graph keeps what a call has of it, ...                    *)
LEMMA CallKeepsReading ==
  ASSUME Inv, ReadInv, Extends(DbGraph, DbGraph'), NEW c \in Call,
         \/ pc[c] = "idle" /\ pc'[c] = "idle"
         \/ /\ pc[c] # "idle" /\ arg'[c] = arg[c] /\ began'[c] = began[c]
            /\ \/ pc'[c] = pc[c] /\ work'[c] = work[c]
               \/ pc'[c] \notin {"reading", "returned"}
               \/ arg[c].op # "neighbors"
         \/ /\ pc[c] = "idle" /\ began'[c].graph = DbGraph
            /\ pc'[c] \notin {"reading", "returned"} \/ arg'[c].op # "neighbors"
  PROVE  BeganBelow(c)' /\ ReadsBetween(c)'
<1>1. CASE pc[c] = "idle" /\ pc'[c] = "idle"
  BY <1>1 DEF BeganBelow, ReadsBetween
<1>2. CASE pc[c] # "idle" /\ arg'[c] = arg[c] /\ began'[c] = began[c]
  <2>1. BeganBelow(c)'
    BY <1>2 DEF ReadInv, BeganBelow, Extends
  <2>2. CASE pc'[c] = pc[c] /\ work'[c] = work[c]
    <3> DEFINE q == arg[c].query
               Good(D) == Sandwiched(began[c].graph, D, arg[c].id, work[c].layers, q,
                                     work[c].search)
    <3>1. Good(DbGraph) => Good(DbGraph')
      BY GrowthKeepsSandwich
    <3> QED
      BY <1>2, <2>1, <2>2, <3>1 DEF ReadInv, ReadsBetween, SearchIsOver
  <2> QED
    BY <1>2, <2>1, <2>2 DEF ReadsBetween
<1>3. CASE /\ pc[c] = "idle" /\ began'[c].graph = DbGraph
           /\ pc'[c] \notin {"reading", "returned"} \/ arg'[c].op # "neighbors"
  <2>1. \A e \in DbGraph.edges : {e.src, e.dst} \subseteq DbGraph.nodes
    BY DEF DbGraph, ReadInv, StoredWasGiven
  <2> QED
    BY <1>3, <2>1 DEF BeganBelow, ReadsBetween
<1> QED
  BY <1>1, <1>2, <1>3

(* ... and a step that writes nothing keeps what is stored.                *)
LEMMA NothingStored ==
  ASSUME ReadInv, TypeOK, UNCHANGED <<copies, by>>,
         \A c \in Call : /\ pc[c] # "idle" => pc'[c] # "idle" /\ arg'[c] = arg[c]
                         /\ pc'[c] = "creating" => pc[c] = "creating" /\ work'[c] = work[c]
  PROVE  StoredWasGiven' /\ DbGraph' = DbGraph
<1>1. Stored' = Stored /\ DbGraph' = DbGraph
  BY DEF Stored, DbGraph
<1>2. \A x \in NodeId \cup Edge : by[x] # Null => by[x] \in Call
  BY DEF TypeOK
<1> QED
  BY <1>1, <1>2 DEF ReadInv, StoredWasGiven, Gave

LEMMA QuietReads ==
  ASSUME Inv, ReadInv, UNCHANGED <<copies, by, arg, began>>,
         \A c \in Call :
           \/ pc'[c] = pc[c] /\ work'[c] = work[c]
           \/ pc[c] # "idle" /\ pc'[c] \in {"threw", "crashed", "writing"}
  PROVE  ReadInv'
<1>1. StoredWasGiven' /\ DbGraph' = DbGraph
  BY NothingStored DEF Inv
<1>2. Extends(DbGraph, DbGraph')
  BY <1>1 DEF Extends
<1>3. ASSUME NEW c \in Call
      PROVE  BeganBelow(c)' /\ ReadsBetween(c)'
  BY <1>2, <1>3, CallKeepsReading
<1> QED
  BY <1>1, <1>3 DEF ReadInv

LEMMA BeginReads ==
  ASSUME Inv, ReadInv, NEW c \in Call, NEW req \in Requests,
         BeginWrite(c, req) \/ BeginRead(c, req)
  PROVE  ReadInv'
<1>1. /\ pc[c] = "idle" /\ UNCHANGED <<copies, by>>
      /\ arg' = [arg EXCEPT ![c] = req]
      /\ began' = [began EXCEPT ![c] = [graph |-> DbGraph, returned |-> Returned]]
  BY DEF BeginWrite, BeginRead, Accept, database
<1>2. \A d \in Call \ {c} : /\ pc'[d] = pc[d] /\ arg'[d] = arg[d]
                            /\ work'[d] = work[d] /\ began'[d] = began[d]
  BY <1>1 DEF BeginWrite, BeginRead, Goto, Work, Inv, TypeOK, CallsAreKnown
<1>3. /\ arg'[c] = req /\ began'[c].graph = DbGraph
      /\ pc'[c] \in {"returned", "migrating", "writing", "seeding"}
      /\ pc'[c] = "returned" => req.op # "neighbors"
  BY <1>1 DEF BeginWrite, BeginRead, Goto, MustWait, Inv, TypeOK, CallsAreKnown
<1>4. StoredWasGiven' /\ DbGraph' = DbGraph
  BY <1>1, <1>2, <1>3, NothingStored DEF Inv
<1>5. Extends(DbGraph, DbGraph')
  BY <1>4 DEF Extends
<1>6. ASSUME NEW d \in Call
      PROVE  BeganBelow(d)' /\ ReadsBetween(d)'
  BY <1>1, <1>2, <1>3, <1>5, CallKeepsReading
<1> QED
  BY <1>4, <1>6 DEF ReadInv

LEMMA SeedReads ==
  ASSUME Inv, ReadInv, NEW c \in Call, ReadSeed(c)
  PROVE  ReadInv'
<1> DEFINE q == arg[c].query
<1>1. /\ UNCHANGED <<copies, by, arg, began>> /\ pc[c] = "seeding"
      /\ arg[c].op = "neighbors" /\ arg[c] \in Requests
      /\ \A d \in Call \ {c} : pc'[d] = pc[d] /\ work'[d] = work[d]
      /\ work'[c] = [search |-> Seed(DbGraph, arg[c].id), layers |-> 0]
      /\ pc'[c] = IF q.depth = 0 THEN "returned" ELSE "reading"
  BY DEF ReadSeed, Goto, Work, database, Inv, TypeOK, CallsAreKnown
<1>2. StoredWasGiven' /\ DbGraph' = DbGraph
  BY <1>1, NothingStored DEF Inv
<1>3. Extends(DbGraph, DbGraph')
  BY <1>2 DEF Extends
<1>4. /\ DbGraph \in Graph /\ began[c].graph \in Graph
      /\ Extends(began[c].graph, DbGraph)
  BY <1>1, GraphsAreTyped DEF Inv, ReadInv, BeganBelow
<1>5. arg[c].id \in NodeId /\ q.depth \in Nat
  BY <1>1, WhatIsAsked DEF Query
<1>6. Sandwiched(began[c].graph, DbGraph, arg[c].id, 0, q, Seed(DbGraph, arg[c].id))
  BY <1>4, <1>5, SeedIsSandwiched
<1>7. ReadsBetween(c)'
  BY <1>1, <1>2, <1>5, <1>6 DEF ReadsBetween, SearchIsOver
<1>8. BeganBelow(c)'
  BY <1>1, <1>2 DEF ReadInv, BeganBelow
<1>9. ASSUME NEW d \in Call, d # c
      PROVE  BeganBelow(d)' /\ ReadsBetween(d)'
  BY <1>1, <1>3, <1>9, CallKeepsReading
<1> QED
  BY <1>2, <1>7, <1>8, <1>9 DEF ReadInv

LEMMA LayerReads ==
  ASSUME Inv, ReadInv, NEW c \in Call, ReadLayer(c)
  PROVE  ReadInv'
<1> DEFINE q == arg[c].query
           k == work[c].layers
           s == Expand(DbGraph, work[c].search, q)
<1>1. /\ UNCHANGED <<copies, by, arg, began>> /\ pc[c] = "reading"
      /\ arg[c].op = "neighbors" /\ arg[c] \in Requests
      /\ \A d \in Call \ {c} : pc'[d] = pc[d] /\ work'[d] = work[d]
      /\ work'[c].search = s /\ work'[c].layers = k + 1
      /\ pc'[c] = IF SearchIsOver(c, s, k + 1) THEN "returned" ELSE "reading"
  BY DEF ReadLayer, Goto, Work, database, Inv, TypeOK, CallsAreKnown
<1>2. StoredWasGiven' /\ DbGraph' = DbGraph
  BY <1>1, NothingStored DEF Inv
<1>3. Extends(DbGraph, DbGraph')
  BY <1>2 DEF Extends
<1>4. /\ DbGraph \in Graph /\ began[c].graph \in Graph
      /\ Extends(began[c].graph, DbGraph)
  BY <1>1, GraphsAreTyped DEF Inv, ReadInv, BeganBelow
<1>5. arg[c].id \in NodeId /\ q.depth \in Nat
  BY <1>1, WhatIsAsked DEF Query
<1>6. /\ k \in 0..q.depth /\ k < q.depth
      /\ Sandwiched(began[c].graph, DbGraph, arg[c].id, k, q, work[c].search)
  BY <1>1 DEF ReadInv, ReadsBetween
<1>7. k \in Nat /\ k + 1 \in 0..q.depth
  BY <1>5, <1>6
<1>8. Sandwiched(began[c].graph, DbGraph, arg[c].id, k + 1, q, s)
  BY <1>4, <1>5, <1>6, <1>7, ExpandKeepsSandwich
<1> HIDE DEF s
<1>9. ReadsBetween(c)'
  <2>1. k + 1 # q.depth \/ pc'[c] = "returned"
    BY <1>1 DEF SearchIsOver
  <2> QED
    BY <1>1, <1>2, <1>5, <1>7, <1>8, <2>1 DEF ReadsBetween, SearchIsOver
<1>10. BeganBelow(c)'
  BY <1>1, <1>2 DEF ReadInv, BeganBelow
<1>11. ASSUME NEW d \in Call, d # c
       PROVE  BeganBelow(d)' /\ ReadsBetween(d)'
  BY <1>1, <1>3, <1>11, CallKeepsReading
<1> QED
  BY <1>2, <1>9, <1>10, <1>11 DEF ReadInv

(* Nodes or edges are written by a call that was asked to.                 *)
LEMMA WriteReads ==
  ASSUME Inv, ReadInv, NEW c \in Call, pc[c] \in {"writing", "creating"},
         pc'[c] \in {"writing", "returned"}, UNCHANGED <<arg, began>>,
         \A d \in Call \ {c} : pc'[d] = pc[d] /\ work'[d] = work[d],
         \A n \in NodeId : copies[n] <= copies'[n],
         copies' \in [NodeId -> Nat], by' \in [NodeId \cup Edge -> Call \cup {Null}],
         IsFiniteSet(Stored'),
         \A n \in NodeId : n \in Stored' <=> by'[n] # Null,
         \A e \in Edge : by'[e] # Null => {e.src, e.dst} \subseteq Stored',
         \A x \in NodeId \cup Edge :
           by'[x] = by[x] \/ (by'[x] = c /\ Gave(c, x))
  PROVE  ReadInv'
<1>1. arg[c].op \in {"nodes", "edges"} /\ c # Null
  BY Neo4jAssumption DEF Inv, WritesLeft
<1>2. Stored \subseteq Stored'
  BY DEF Stored, Inv, TypeOK
<1>3. \A x \in NodeId \cup Edge : by[x] # Null => by'[x] # Null
  BY <1>1
<1>4. Extends(DbGraph, DbGraph')
  BY <1>2, <1>3 DEF Extends, DbGraph
<1>5. \A d \in Call, x \in NodeId \cup Edge : Gave(d, x) => Gave(d, x)'
  BY DEF Gave
<1>6. \A x \in NodeId \cup Edge : by'[x] # Null => Gave(by[x], x)'
  <2> SUFFICES ASSUME NEW x \in NodeId \cup Edge, by'[x] # Null PROVE Gave(by[x], x)'
    OBVIOUS
  <2>1. \A d \in Call : Gave(d, x) /\ by'[x] = d => Gave(by[x], x)'
    BY DEF Gave
  <2>2. CASE by'[x] = by[x]
    <3>1. by[x] \in Call /\ Gave(by[x], x)
      BY <2>2 DEF ReadInv, StoredWasGiven, Inv, TypeOK
    <3> QED
      BY <2>1, <2>2, <3>1
  <2>3. CASE by'[x] = c /\ Gave(c, x)
    BY <2>1, <2>3
  <2> QED
    BY <2>2, <2>3
<1>7. \A d \in Call : pc'[d] = "creating" =>
        work'[d] \subseteq arg'[d].ids /\ arg'[d].ids \subseteq Stored' \cup work'[d]
  BY <1>2 DEF ReadInv, StoredWasGiven
<1>8. StoredWasGiven'
  BY <1>6, <1>7 DEF StoredWasGiven
<1>9. ASSUME NEW d \in Call
      PROVE  BeganBelow(d)' /\ ReadsBetween(d)'
  BY <1>1, <1>4, CallKeepsReading
<1> QED
  BY <1>8, <1>9 DEF ReadInv

LEMMA NodesReads ==
  ASSUME Inv, ReadInv, NEW c \in Call, MergeNodes(c) \/ CreateNodes(c)
  PROVE  ReadInv'
<1>1. /\ pc[c] \in {"writing", "creating"} /\ UNCHANGED <<arg, began>>
      /\ \A d \in Call \ {c} : pc'[d] = pc[d] /\ work'[d] = work[d]
      /\ arg[c] \in Requests /\ arg[c].op = "nodes"
  BY DEF MergeNodes, CreateNodes, Goto, Work, Inv, TypeOK, CallsAreKnown, WritesLeft
<1>2. arg[c].ids \subseteq NodeId /\ IsFiniteSet(arg[c].ids)
  BY <1>1, RequestsAreKnown, WhatIsAsked
<1>3. CASE MergeNodes(c) /\ ~Constrained
  <2>1. /\ UNCHANGED <<copies, by>> /\ pc' = [pc EXCEPT ![c] = "creating"]
        /\ work' = [work EXCEPT ![c] = arg[c].ids \ Stored]
    BY <1>3 DEF MergeNodes, Goto, Work
  <2>2. Stored' = Stored /\ DbGraph' = DbGraph
    BY <2>1 DEF Stored, DbGraph
  <2>3. pc'[c] = "creating" /\ work'[c] = arg[c].ids \ Stored
    BY <2>1 DEF Inv, TypeOK, CallsAreKnown
  <2>4. \A d \in Call, x \in NodeId \cup Edge : Gave(d, x) => Gave(d, x)'
    BY <1>1, <2>3 DEF Gave
  <2>5. \A x \in NodeId \cup Edge : by[x] # Null => Gave(by[x], x)'
    <3> SUFFICES ASSUME NEW x \in NodeId \cup Edge, by[x] # Null PROVE Gave(by[x], x)'
      OBVIOUS
    <3>1. by[x] \in Call /\ Gave(by[x], x) /\ by'[x] = by[x]
      BY <2>1 DEF ReadInv, StoredWasGiven, Inv, TypeOK
    <3>2. pc'[by[x]] # "idle" /\ arg' = arg
      BY <1>1, <2>3, <3>1 DEF Gave
    <3> QED
      BY <3>1, <3>2 DEF Gave
  <2>6. \A d \in Call : pc'[d] = "creating" =>
          work'[d] \subseteq arg[d].ids /\ arg[d].ids \subseteq Stored \cup work'[d]
    BY <1>1, <2>3 DEF ReadInv, StoredWasGiven
  <2>7. StoredWasGiven'
    BY <1>1, <2>1, <2>2, <2>5, <2>6 DEF ReadInv, StoredWasGiven
  <2>8. Extends(DbGraph, DbGraph')
    BY <2>2 DEF Extends
  <2>9. ASSUME NEW d \in Call
        PROVE  BeganBelow(d)' /\ ReadsBetween(d)'
    BY <1>1, <2>8, CallKeepsReading
  <2> QED
    BY <2>7, <2>9 DEF ReadInv
<1>4. CASE (MergeNodes(c) /\ Constrained) \/ CreateNodes(c)
  <2>1. PICK new \in SUBSET arg[c].ids :
          Create(new) /\ arg[c].ids \subseteq Stored \cup new
    <3>1. CASE CreateNodes(c)
      <4>1. /\ Create(work[c]) /\ work[c] \subseteq arg[c].ids
            /\ arg[c].ids \subseteq Stored \cup work[c]
        BY <3>1 DEF CreateNodes, ReadInv, StoredWasGiven
      <4> QED
        BY <4>1
    <3>2. CASE MergeNodes(c) /\ Constrained
      <4>1. Create(arg[c].ids \ Stored)
        BY <3>2 DEF MergeNodes
      <4> QED
        BY <4>1
    <3> QED
      BY <1>4, <3>1, <3>2
  <2>2. Set(arg[c].ids, c) /\ pc' = [pc EXCEPT ![c] = "returned"]
    BY <1>4 DEF MergeNodes, CreateNodes, Goto
  <2>3. /\ copies' \in [NodeId -> Nat] /\ \A n \in NodeId : copies[n] <= copies'[n]
        /\ Stored' = Stored \cup new
    BY <1>2, <2>1 DEF Create, Stored, Inv, TypeOK
  <2>4. Stored' = Stored \cup arg[c].ids
    BY <2>1, <2>3
  <2>5. IsFiniteSet(Stored')
    BY <1>2, <2>4, FS_Union DEF ReadInv, StoredWasGiven
  <2>6. c # Null /\ \A e \in Edge : e \notin NodeId
    BY Neo4jAssumption
  <2>7. /\ by' \in [NodeId \cup Edge -> Call \cup {Null}]
        /\ \A x \in NodeId \cup Edge : by'[x] = IF x \in arg[c].ids THEN c ELSE by[x]
    BY <2>2 DEF Set, Inv, TypeOK
  <2>8. \A n \in NodeId : n \in Stored' <=> by'[n] # Null
    BY <2>4, <2>6, <2>7 DEF ReadInv, StoredWasGiven
  <2>9. \A e \in Edge : by'[e] # Null => {e.src, e.dst} \subseteq Stored'
    BY <1>2, <2>4, <2>6, <2>7 DEF ReadInv, StoredWasGiven
  <2>10. \A x \in NodeId \cup Edge : by'[x] = by[x] \/ (by'[x] = c /\ Gave(c, x))
    BY <1>1, <2>7 DEF Gave
  <2>11. pc'[c] \in {"writing", "returned"}
    BY <2>2 DEF Inv, TypeOK
  <2> QED
    BY <1>1, <2>3, <2>5, <2>7, <2>8, <2>9, <2>10, <2>11, WriteReads
<1> QED
  BY <1>3, <1>4

LEMMA EdgesReads ==
  ASSUME Inv, ReadInv, NEW c \in Call, NEW t \in EdgeType, MergeEdges(c, t)
  PROVE  ReadInv'
<1> DEFINE now == Matched({e \in arg[c].edges : e.type = t})
<1>1. /\ pc[c] = "writing" /\ UNCHANGED <<copies, arg, began>> /\ arg[c].op = "edges"
      /\ \A d \in Call \ {c} : pc'[d] = pc[d] /\ work'[d] = work[d]
      /\ pc'[c] \in {"writing", "returned"} /\ arg[c] \in Requests
      /\ by' = [x \in DOMAIN by |-> IF x \in now THEN c ELSE by[x]]
  BY DEF MergeEdges, Set, Goto, Work, Inv, TypeOK, CallsAreKnown
<1>2. now \subseteq Edge /\ \A e \in now : e \in arg[c].edges /\ {e.src, e.dst} \subseteq Stored
  BY <1>1, RequestsAreKnown DEF Matched, HasBothEnds
<1>3. c # Null /\ \A n \in NodeId : n \notin Edge
  BY Neo4jAssumption
<1>4. /\ by' \in [NodeId \cup Edge -> Call \cup {Null}]
      /\ \A x \in NodeId \cup Edge : by'[x] = IF x \in now THEN c ELSE by[x]
  BY <1>1 DEF Inv, TypeOK
<1> HIDE DEF now
<1>5. Stored' = Stored
  BY <1>1 DEF Stored
<1>6. \A n \in NodeId : n \in Stored' <=> by'[n] # Null
  BY <1>2, <1>3, <1>4, <1>5 DEF ReadInv, StoredWasGiven
<1>7. \A e \in Edge : by'[e] # Null => {e.src, e.dst} \subseteq Stored'
  BY <1>2, <1>4, <1>5 DEF ReadInv, StoredWasGiven
<1>8. \A x \in NodeId \cup Edge : by'[x] = by[x] \/ (by'[x] = c /\ Gave(c, x))
  BY <1>1, <1>2, <1>4 DEF Gave
<1>9. /\ IsFiniteSet(Stored') /\ copies' \in [NodeId -> Nat]
      /\ \A n \in NodeId : copies[n] <= copies'[n]
  BY <1>1, <1>5 DEF ReadInv, StoredWasGiven, Inv, TypeOK
<1> QED
  BY <1>1, <1>4, <1>6, <1>7, <1>8, <1>9, WriteReads

LEMMA ReadInvInit == Init => ReadInv
<1> SUFFICES ASSUME Init PROVE ReadInv
  OBVIOUS
<1>1. Stored = {}
  BY DEF Init, Stored
<1>2. StoredWasGiven
  BY <1>1, FS_EmptySet DEF Init, StoredWasGiven
<1> QED
  BY <1>2 DEF Init, ReadInv, BeganBelow, ReadsBetween

LEMMA ReadInvNext == Inv /\ ReadInv /\ [Next]_vars => ReadInv'
<1> SUFFICES ASSUME Inv, ReadInv, [Next]_vars PROVE ReadInv'
  OBVIOUS
<1>1. CASE UNCHANGED vars
  BY <1>1, QuietReads DEF vars, database
<1>2. ASSUME NEW c \in Call, AwaitMigration(c) \/ Throws(c) PROVE ReadInv'
  BY <1>2, QuietReads
     DEF AwaitMigration, Throws, Goto, database, Running, Inv, TypeOK, CallsAreKnown
<1>3. CASE Migrate \/ MigrationFails \/ Restart
  BY <1>3, QuietReads DEF Migrate, MigrationFails, Restart, database, Running, Inv, TypeOK
<1> QED
  BY <1>1, <1>2, <1>3, BeginReads, SeedReads, LayerReads, NodesReads, EdgesReads
     DEF Next, Advance

LEMMA SandwichFollows == Inv /\ ReadInv => ReadIsSandwiched
<1> SUFFICES ASSUME Inv, ReadInv, NEW c \in Call,
                    pc[c] = "returned", arg[c].op = "neighbors"
             PROVE  LET q == arg[c].query
                        r == Answer(work[c].search)
                        lower == Neighbors(began[c].graph, arg[c].id, Unlimited(q))
                        upper == Neighbors(DbGraph, arg[c].id, Unlimited(q))
                    IN  /\ r.nodes \subseteq upper.nodes /\ r.edges \subseteq upper.edges
                        /\ IF q.limit = 0
                           THEN lower.nodes \subseteq r.nodes /\ lower.edges \subseteq r.edges
                           ELSE \/ lower.nodes \subseteq r.nodes
                                \/ Cardinality(r.nodes \ {arg[c].id}) >= q.limit
  BY DEF ReadIsSandwiched
<1> DEFINE q == arg[c].query
           id == arg[c].id
           s == work[c].search
           k == work[c].layers
           B == began[c].graph
<1>1. arg[c] \in Requests /\ id \in NodeId /\ q \in Query
  BY WhatIsAsked DEF Inv, CallsAreKnown
<1>2. DbGraph \in Graph /\ B \in Graph
  BY GraphsAreTyped DEF Inv
<1>3. /\ B.nodes \subseteq DbGraph.nodes
      /\ \A e \in B.edges : {e.src, e.dst} \subseteq B.nodes
  BY DEF ReadInv, BeganBelow, Extends
<1>4. IsFiniteSet(DbGraph.nodes) /\ IsFiniteSet(B.nodes)
  BY <1>3, FS_Subset DEF ReadInv, StoredWasGiven, DbGraph
<1>5. /\ k \in 0..q.depth /\ Sandwiched(B, DbGraph, id, k, q, s)
      /\ k = q.depth \/ Exhausted(s, q)
  BY DEF ReadInv, ReadsBetween, SearchIsOver
<1>6. /\ Unlimited(q) \in Query /\ Unlimited(q).limit = 0 /\ Unlimited(q).depth = q.depth
      /\ Unlimited(q).types = q.types /\ Unlimited(q).direction = q.direction
  BY <1>1 DEF Unlimited, Query
<1>7. \A G \in {B, DbGraph} : Neighbors(G, id, Unlimited(q)) = Ball(G, id, q.depth, q)
  BY <1>1, <1>2, <1>4, <1>6, UnlimitedIsBall, BallWithoutLimit
<1> HIDE DEF q, id, s, k, B
<1>8. /\ s.nodes \subseteq Ball(DbGraph, id, q.depth, q).nodes
      /\ s.edges \subseteq Ball(DbGraph, id, q.depth, q).edges
      /\ \/ /\ Ball(B, id, q.depth, q).nodes \subseteq s.nodes
            /\ Ball(B, id, q.depth, q).edges \subseteq s.edges
         \/ /\ q.limit > 0
            /\ \/ Ball(B, id, q.depth, q).nodes = {}
               \/ Cardinality(s.nodes \ {id}) >= q.limit
  BY <1>1, <1>2, <1>3, <1>4, <1>5, OverIsSandwiched
<1>9. Answer(s).nodes = s.nodes /\ Answer(s).edges = s.edges
  BY DEF Answer
<1>10. q.limit \in Nat
  BY <1>1 DEF Query
<1> QED
  BY <1>7, <1>8, <1>9, <1>10 DEF q, id, s, k, B

LEMMA MirrorFollows == Inv /\ ReadInv => MirrorsMockInOrder
<1> SUFFICES ASSUME Inv, ReadInv, Settled, EndsCameFirst
             PROVE  DbGraph = Mirror
  BY DEF MirrorsMockInOrder
<1>1. \A n \in NodeId : n \notin Edge
  BY Neo4jAssumption
<1>2. \A x \in NodeId \cup Edge : by[x] # Null =>
        \E c \in Returned : Gave(c, x)
  <2> SUFFICES ASSUME NEW x \in NodeId \cup Edge, by[x] # Null
               PROVE  \E c \in Returned : Gave(c, x)
    OBVIOUS
  <2>1. by[x] \in Call /\ Gave(by[x], x)
    BY DEF Inv, TypeOK, ReadInv, StoredWasGiven
  <2>2. by[x] \in Returned
    BY <2>1 DEF Gave, Settled, Returned
  <2> QED
    BY <2>1, <2>2
<1>3. \A c \in Returned : /\ arg[c].op = "nodes" => arg[c].ids \subseteq NodeId
                          /\ arg[c].op = "edges" => arg[c].edges \subseteq Edge
  BY RequestsAreKnown DEF Returned, Inv, CallsAreKnown
<1>4. \A c \in Returned : /\ arg[c].op = "nodes" => Wrote(c) = arg[c].ids
                          /\ arg[c].op = "edges" => Wrote(c) = arg[c].edges
  BY DEF Wrote, EndsCameFirst, ReturnedAs
<1>5. \A c \in Returned :
        arg[c].op \in {"nodes", "edges"} => \A x \in Wrote(c) : by[x] # Null
  BY DEF Inv, LastWriteStands, ReturnedAs
<1>6. Stored = UNION {arg[c].ids : c \in ReturnedAs("nodes")}
  <2>1. ASSUME NEW n \in Stored
        PROVE  \E c \in ReturnedAs("nodes") : n \in arg[c].ids
    <3>1. n \in NodeId /\ by[n] # Null
      BY DEF Stored, ReadInv, StoredWasGiven
    <3>2. PICK c \in Returned : Gave(c, n)
      BY <1>2, <3>1
    <3> QED
      BY <1>1, <1>3, <3>1, <3>2 DEF Gave, ReturnedAs
  <2>2. ASSUME NEW c \in ReturnedAs("nodes"), NEW n \in arg[c].ids
        PROVE  n \in Stored
    <3>1. c \in Returned /\ arg[c].op = "nodes"
      BY DEF ReturnedAs
    <3>2. n \in NodeId /\ n \in Wrote(c)
      BY <1>3, <1>4, <3>1
    <3> QED
      BY <1>5, <3>1, <3>2 DEF ReadInv, StoredWasGiven
  <2> QED
    BY <2>1, <2>2
<1>7. {e \in Edge : by[e] # Null} = UNION {arg[c].edges : c \in ReturnedAs("edges")}
  <2>1. ASSUME NEW e \in Edge, by[e] # Null
        PROVE  \E c \in ReturnedAs("edges") : e \in arg[c].edges
    <3>1. PICK c \in Returned : Gave(c, e)
      BY <1>2, <2>1
    <3> QED
      BY <1>1, <1>3, <3>1 DEF Gave, ReturnedAs
  <2>2. ASSUME NEW c \in ReturnedAs("edges"), NEW e \in arg[c].edges
        PROVE  e \in Edge /\ by[e] # Null
    <3>1. c \in Returned /\ arg[c].op = "edges"
      BY DEF ReturnedAs
    <3> QED
      BY <1>3, <1>4, <1>5, <3>1
  <2> QED
    BY <2>1, <2>2
<1> QED
  BY <1>6, <1>7 DEF DbGraph, Mirror

(* A traversal overtaken by writes, and by failures, answers between the   *)
(* graph it began on and the graph at its end, for any graph and query ... *)
THEOREM ReadIsSandwichedHolds == Spec => []ReadIsSandwiched
  BY InvInit, InvNext, ReadInvInit, ReadInvNext, SandwichFollows, PTL DEF Spec

(* ... and once all calls returned, edges after their nodes, the store     *)
(* answers as the in-memory one.                                           *)
THEOREM MirrorsMockHolds == Spec => []MirrorsMockInOrder
  BY InvInit, InvNext, ReadInvInit, ReadInvNext, MirrorFollows, PTL DEF Spec
=============================================================================
