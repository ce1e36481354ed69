------------------------------ MODULE Retrieval ------------------------------
(***************************************************************************)
(* retrieve: one query, answered from the graph (MemoryGraph) and the      *)
(* vectors while an index run may be writing them.                         *)
(*                                                                         *)
(* The graph may be kept in memory and the vectors on disk, so a vector    *)
(* may have no node.  Every await is a step: the writer acts between any   *)
(* two.  A node's name stands for its path and lines.  A score is a number *)
(* of twentieths; the reranker's scores are arbitrary.                     *)
(***************************************************************************)
EXTENDS Traversal, Integers, Sequences, SequencesExt, FiniteSetsExt

CONSTANTS Named,          \* the identifiers of the query, each with its nodes
          Edges,          \* the edges there may be
          Queries,        \* what a caller of the graph may ask
          Vectored,       \* the nodes that are embedded
          Score,          \* similarity of each node to the query
          ExactHits, SemanticHits, GraphHits, RerankInput, \* RETRIEVAL_LIMITS
          limit           \* snippets asked for

ASSUME RetrievalAssumption ==
  /\ IsFiniteSet(NodeId)
  /\ Named \in Seq(SUBSET NodeId)
  /\ Vectored \subseteq NodeId
  /\ Score \in [NodeId -> -20..20]
  /\ Queries \subseteq Query /\ Edges \subseteq Edge
  /\ {ExactHits, SemanticHits, GraphHits, RerankInput, limit} \subseteq Nat \ {0}

VARIABLES nodes, edges, rows, \* the graph and the vectors
          pc,                 \* the phase of the query
          turn,               \* items of the phase already handled
          hits,               \* what the vector search returned
          exact, semantic, graph, \* candidates of the three kinds
          ranked,             \* what the reranker returned, sorted
          undisturbed         \* history: no index run has written since

stores == <<nodes, edges, rows>>
query == <<pc, turn, hits, exact, semantic, graph, ranked>>
vars == <<stores, query, undisturbed>>

Memory == INSTANCE MemoryGraph

Candidate == [node: NodeId, score: Int]
Candidates == Seq(Candidate)

Exact(n) == [node |-> n, score |-> 20]
Semantic(n) == [node |-> n, score |-> Score[n]]

Of(candidates) == {c.node : c \in ToSet(candidates)}

(* The orders a store may return a set in.                                 *)
Orders(S) == SetToSeqs(S)

AtMost(n, s) == SubSeq(s, 1, IF Len(s) < n THEN Len(s) ELSE n)

Init ==
  /\ nodes \in SUBSET NodeId /\ edges \in SUBSET Edges /\ rows \in SUBSET Vectored
  /\ pc = "exact" /\ turn = 0 /\ hits = <<>>
  /\ exact = <<>> /\ semantic = <<>> /\ graph = <<>> /\ ranked = <<>>
  /\ undisturbed = TRUE

(* The index run: rows of the graph, and vectors of its nodes.             *)
WriteGraph ==
  /\ Memory!Next
  /\ undisturbed' = FALSE
  /\ UNCHANGED <<rows, query>>

WriteRow(n) ==
  /\ n \in nodes \cap Vectored /\ rows' = rows \cup {n}
  /\ undisturbed' = FALSE
  /\ UNCHANGED <<nodes, edges, query>>

(***************************************************************************)
(* ExactLookup, one identifier at a time.                                  *)
(***************************************************************************)
ExactLookup ==
  /\ pc = "exact" /\ turn < Len(Named)
  /\ \E found \in Orders(Named[turn + 1] \cap nodes) :
       exact' = exact \o [k \in DOMAIN AtMost(ExactHits, found) |-> Exact(found[k])]
  /\ turn' = turn + 1
  /\ UNCHANGED <<stores, undisturbed, pc, hits, semantic, graph, ranked>>

(* The embedder settles (ModelClient): with an error the query has failed. *)
Embed ==
  /\ pc = "exact" /\ turn = Len(Named)
  /\ pc' \in {"search", "threw"}
  /\ UNCHANGED <<stores, undisturbed, turn, hits, exact, semantic, graph, ranked>>

(* Both vector stores return the best rows first.                          *)
AnyOrder(s) == TRUE

BestFirst(s) == \A i, j \in DOMAIN s : i < j => Score[s[i]] >= Score[s[j]]

SemanticSearch ==
  /\ pc = "search"
  /\ \E found \in Orders(rows) :
       BestFirst(found) /\ hits' = AtMost(SemanticHits, found)
  /\ pc' = "hydrate" /\ turn' = 0
  /\ UNCHANGED <<stores, undisturbed, exact, semantic, graph, ranked>>

(* getNode for each hit; a hit without a node is skipped.                  *)
InGraph(n) == n \in nodes

Hydrate ==
  /\ pc = "hydrate" /\ turn < Len(hits)
  /\ LET n == hits[turn + 1] IN
       semantic' = IF InGraph(n) THEN Append(semantic, Semantic(n)) ELSE semantic
  /\ turn' = turn + 1
  /\ UNCHANGED <<stores, undisturbed, pc, hits, exact, graph, ranked>>

StoredGraph == [nodes |-> nodes, edges |-> edges]

(***************************************************************************)
(* GraphExpand: one hop from each base candidate, in both directions.      *)
(***************************************************************************)
Base == exact \o semantic

Hydrated ==
  /\ pc = "hydrate" /\ turn = Len(hits)
  /\ pc' = "expand" /\ turn' = 0
  /\ UNCHANGED <<stores, undisturbed, hits, exact, semantic, graph, ranked>>

OneHop(n) ==
  LET hop == [depth |-> 1, types |-> {}, direction |-> "both", limit |-> GraphHits]
  IN Neighbors(StoredGraph, n, hop).nodes \ {n}

Seen == Of(Base) \cup Of(graph)

Discounted(score) == (IF score > 0 THEN score * 4 ELSE 0) \div 5

GraphExpand ==
  /\ pc = "expand" /\ turn < Len(Base)
  /\ LET hit == Base[turn + 1] IN
       \E fresh \in Orders(OneHop(hit.node) \ Seen) :
         graph' = graph \o [k \in DOMAIN fresh |->
                              [node |-> fresh[k], score |-> Discounted(hit.score)]]
  /\ turn' = turn + 1
  /\ UNCHANGED <<stores, undisturbed, pc, hits, exact, semantic, ranked>>

(***************************************************************************)
(* MergeCandidates: the best candidate of each node stands where its first *)
(* one stood; then the reranker's input is cut.                            *)
(***************************************************************************)
GraphFirst == graph \o exact \o semantic

All == exact \o semantic \o graph

(* Where a node's first candidate stands.                                  *)
Firsts == {k \in DOMAIN All : \A j \in 1..(k - 1) : All[j].node # All[k].node}

BestScore(n) == Max({c.score : c \in {x \in ToSet(All) : x.node = n}})

Merged(k) == [node |-> All[k].node, score |-> BestScore(All[k].node)]

Unmerged == ToSet(AtMost(RerankInput, All))

ToRerank ==
  {Merged(k) : k \in {f \in Firsts : Cardinality(Firsts \cap 1..(f - 1)) < RerankInput}}

(* The reranker scores its input in any way; then the best come first.     *)
Rerank ==
  /\ pc = "expand" /\ turn = Len(Base)
  /\ \/ pc' = "done" /\ ranked' \in Orders(ToRerank)
     \/ pc' = "threw" /\ UNCHANGED ranked
  /\ UNCHANGED <<stores, undisturbed, turn, hits, exact, semantic, graph>>

Next ==
  \/ WriteGraph
  \/ \E n \in Vectored : WriteRow(n)
  \/ ExactLookup \/ Embed \/ SemanticSearch \/ Hydrate \/ Hydrated \/ GraphExpand \/ Rerank

Spec == Init /\ [][Next]_vars

(* AssembleContext.                                                        *)
Snippets == AtMost(limit, ranked)

-----------------------------------------------------------------------------
TypeOK ==
  /\ nodes \subseteq NodeId /\ rows \subseteq Vectored /\ edges \subseteq Edges
  /\ pc \in {"exact", "search", "hydrate", "expand", "done", "threw"}
  /\ Len(hits) <= SemanticHits /\ Len(ranked) <= RerankInput
  /\ {exact, semantic, graph, ranked} \subseteq Candidates
  /\ \A c \in ToSet(All) : c.score \in -20..20

SnippetsAreDistinct ==
  \A i, j \in DOMAIN Snippets : Snippets[i].node = Snippets[j].node => i = j

SnippetsAreNodes == Of(Snippets) \subseteq nodes

(* A node is shown at most once, however many ways the query found it, and *)
(* is in the graph, so that its citation can be followed, however stale    *)
(* the vectors are.                                                        *)
SnippetsResolve == SnippetsAreDistinct /\ SnippetsAreNodes

Joined(m, n) ==
  \E e \in edges : {e.src, e.dst} = {m, n}

(* When no index run wrote meanwhile, a candidate reached over the graph   *)
(* carries the score of the best base candidate it is linked to, though    *)
(* each node is scored only once, by the first expansion that meets it.    *)
BestEvidence ==
  undisturbed /\ pc = "done" => \A c \in ToSet(graph) :
    c.score = Max({Discounted(b.score) :
                     b \in {x \in ToSet(Base) : Joined(x.node, c.node)}})

(* A direct hit is never displaced by what it merely led to.               *)
DirectHitsAreRanked ==
  pc = "done" => Of(ranked) \cap Of(graph) = {} \/ Of(Base) \subseteq Of(ranked)

(* Whatever order the graph's rows came in, cycles, self-loops and edges   *)
(* to ids without a node included, a traversal answers the smallest ball   *)
(* around the seed that satisfies the limit (mock.ts:36, "layer-complete   *)
(* BFS"); said of the graph a query finds when it begins, since the        *)
(* vectors do not matter to it.                                            *)
TraversalIsLayerComplete ==
  pc = "exact" /\ turn = 0 /\ rows = {} =>
    \A id \in NodeId, q \in Queries : LayerComplete(StoredGraph, id, q)
=============================================================================
