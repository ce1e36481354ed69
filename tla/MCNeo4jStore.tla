---------------------------- MODULE MCNeo4jStore ----------------------------
(* A few calls of the Neo4j store: node and edge batches that overlap, and *)
(* traversals that run beside them.                                        *)
EXTENDS Neo4jStore, TLC

CONSTANTS a, b, x, first, second, third

E(s, t, d) == [src |-> s, type |-> t, dst |-> d]

Ids == {a, b, x}

Calls == {first, second, third}

(* Calls differ in nothing but their names: they are made in this order.   *)
InOrder == /\ pc[second] # "idle" => pc[first] # "idle"
           /\ pc[third] # "idle" => pc[second] # "idle"

PutNodes(ids) == [op |-> "nodes", ids |-> ids]
PutEdges(es) == [op |-> "edges", edges |-> es]
Ask(id, depth, dir, limit) ==
  [op |-> "neighbors", id |-> id,
   query |-> [depth |-> depth, types |-> {}, direction |-> dir, limit |-> limit]]

Cycle == PutEdges({E(a, "CALLS", b), E(b, "IMPORTS", x), E(x, "CALLS", a)})

Requested ==
  {PutNodes({}), PutNodes({a, b}), PutNodes(Ids), Cycle,
   Ask(a, 3, "out", 2), Ask(b, 2, "both", 0)}
==============================================================================
