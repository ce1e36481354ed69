----------------------------- MODULE MCRetrieval -----------------------------
(* Four nodes: a and b answer to the query's identifiers, c is close to    *)
(* the query in meaning, d is reached over the graph only.                 *)
EXTENDS Retrieval

CONSTANTS a, b, c, d

E(x, t, y) == [src |-> x, type |-> t, dst |-> y]

(* A cycle, a self-loop and two types of edges.                            *)
MCEdges == {E(a, "CALLS", c), E(c, "CALLS", a), E(b, "CALLS", c),
            E(c, "IMPORTS", d), E(d, "CALLS", d)}

MCQueries == [depth: 0..3, types: {{}, {"CALLS"}},
              direction: {"out", "in", "both"}, limit: 0..2]

MCScore == [n \in NodeId |-> CASE n = a -> 10 [] n = b -> 5 [] n = c -> 15 [] n = d -> -5]
TwoNames == <<{a, b}, {b}>>
==============================================================================
