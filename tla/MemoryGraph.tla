----------------------------- MODULE MemoryGraph -----------------------------
(***************************************************************************)
(* MockGraphStore (graph-store mock.ts): two maps that only grow.  An      *)
(* upsert stores its rows one by one and keeps those it has stored when a  *)
(* row does not parse, so a call is a run of single-row steps.             *)
(***************************************************************************)
EXTENDS Traversal

CONSTANT Edges       \* the edges a caller may store

VARIABLES nodes, edges

vars == <<nodes, edges>>

Init == nodes = {} /\ edges = {}

UpsertNode(n) == nodes' = nodes \cup {n} /\ UNCHANGED edges

UpsertEdge(e) == edges' = edges \cup {e} /\ UNCHANGED nodes

Next == \/ \E n \in NodeId : UpsertNode(n)
        \/ \E e \in Edges : UpsertEdge(e)

Spec == Init /\ [][Next]_vars
=============================================================================
