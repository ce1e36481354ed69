------------------------------ MODULE Traversal ------------------------------
(***************************************************************************)
(* GraphStore.neighbors: the layer-complete breadth-first search that both *)
(* graph stores implement (graph-store mock.ts, neo4j-store.ts), over a    *)
(* graph [nodes, edges] given as an argument, and a definition of what it  *)
(* should return that speaks of paths instead of layers.                   *)
(*                                                                         *)
(* A stored edge may lead to an id that has no node: the in-memory store   *)
(* keeps such edges and walks across them.                                 *)
(***************************************************************************)
EXTENDS Naturals, FiniteSets

CONSTANTS NodeId, EdgeType

Edge == [src: NodeId, type: EdgeType, dst: NodeId]

Graph == [nodes: SUBSET NodeId, edges: SUBSET Edge]

(* TraversalOptions: no types allows every type, limit 0 is no limit.      *)
Query == [depth: Nat, types: SUBSET EdgeType,
          direction: {"out", "in", "both"}, limit: Nat]

Allowed(e, q) == q.types = {} \/ e.type \in q.types

Forward(e, n, q) == q.direction \in {"out", "both"} /\ e.src = n

Backward(e, n, q) == q.direction \in {"in", "both"} /\ e.dst = n

(* The edges that lead out of a layer, and the ids at their other ends.    *)
Crossed(G, layer, q) ==
  {e \in G.edges : /\ Allowed(e, q)
                   /\ \E n \in layer : Forward(e, n, q) \/ Backward(e, n, q)}

Reached(G, layer, q) ==
  UNION {{IF Forward(e, n, q) THEN e.dst ELSE e.src :
            e \in Crossed(G, {n}, q)} : n \in layer}

Seed(G, id) ==
  [nodes |-> {id} \cap G.nodes, edges |-> {}, visited |-> {id},
   layer |-> {id}, start |-> {id} \cap G.nodes]

Expand(G, s, q) ==
  LET reached == Reached(G, s.layer, q) IN
    [s EXCEPT !.nodes = @ \cup (reached \cap G.nodes),
              !.edges = @ \cup Crossed(G, s.layer, q),
              !.visited = @ \cup reached,
              !.layer = reached \ s.visited]

(* The limit counts the nodes found beside the seed, a layer at a time.    *)
SeedCounted(s, q) == q.limit > 0 /\ Cardinality(s.nodes) >= q.limit

Full(s, q) ==
  q.limit > 0 /\ Cardinality(s.nodes) - Cardinality(s.start) >= q.limit

Exhausted(s, q) == Full(s, q) \/ s.layer = {}

Answer(s) == [nodes |-> s.nodes, edges |-> s.edges]

Onward(G, s, q) == IF Exhausted(s, q) THEN s ELSE Expand(G, s, q)

(* The search after each number of layers.                                 *)
Search(G, id, q) ==
  LET search[d \in 0..q.depth] ==
        IF d = 0 THEN Seed(G, id) ELSE Onward(G, search[d - 1], q)
  IN  search

Neighbors(G, id, q) == Answer(Search(G, id, q)[q.depth])

(***************************************************************************)
(* The same in terms of paths.                                             *)
(***************************************************************************)
Leads(e, m, n, q) ==
  /\ Allowed(e, q)
  /\ \/ Forward(e, m, q) /\ e.dst = n
     \/ Backward(e, m, q) /\ e.src = n

Within(G, id, k, q) ==
  {n \in NodeId :
     \E j \in 0..k : \E p \in [0..j -> NodeId] :
       /\ p[0] = id /\ p[j] = n
       /\ \A i \in 1..j : \E e \in G.edges : Leads(e, p[i - 1], p[i], q)}

(* Every node within k steps of id and every edge on the way there.        *)
Ball(G, id, k, q) ==
  [nodes |-> Within(G, id, k, q) \cap G.nodes,
   edges |-> {e \in G.edges : \E m \in Within(G, id, k - 1, q), n \in NodeId :
                                Leads(e, m, n, q)}]

EnoughAt(G, id, k, q) ==
  \/ k = q.depth
  \/ q.limit > 0 /\ Cardinality(Ball(G, id, k, q).nodes \ {id}) >= q.limit

(* The contract: the smallest ball that has `limit` nodes beside the seed, *)
(* and no larger than `depth`.                                             *)
LayerComplete(G, id, q) ==
  \E k \in 0..q.depth :
    /\ EnoughAt(G, id, k, q)
    /\ \A j \in 0..(k - 1) : ~EnoughAt(G, id, j, q)
    /\ Neighbors(G, id, q) = Ball(G, id, k, q)
=============================================================================
