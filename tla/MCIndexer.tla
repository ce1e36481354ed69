------------------------------ MODULE MCIndexer ------------------------------
(* Small instances of the indexer: two nodes, a working tree that is read  *)
(* as one of two snapshots, the second one with an edge that leaves it.    *)
EXTENDS Indexer

CONSTANTS n1, n2

Whole == [nodes |-> {n1, n2}, edges |-> {<<n1, n2>>}, vectors |-> {n2}]
Half  == [nodes |-> {n1}, edges |-> {<<n1, n2>>}, vectors |-> {n1}]

MCNodes == {n1, n2}
MCSnapshots == {Whole, Half}
OneInstant == {1}
AllFaults == Faults
InProcess == [vectors |-> "memory", graph |-> "memory"]
Durable == [vectors |-> "lancedb", graph |-> "neo4j"]
MCModes == {InProcess, Durable}

===============================================================================
