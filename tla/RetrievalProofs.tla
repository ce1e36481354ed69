--------------------------- MODULE RetrievalProofs ---------------------------
(***************************************************************************)
(* What is proved of a query for any graph, vectors, limits and index run: *)
(* its snippets are distinct nodes of the graph, direct hits come before   *)
(* what they led to, and that carries its best evidence.  And of the tree  *)
(* that index runs read and snippets quote, for any edits: a committed     *)
(* batch accounts for every file, and a snippet is what it cites.          *)
(***************************************************************************)
EXTENDS Retrieval, SourceTree, TraversalProofs, SequenceTheorems

Typed ==
  /\ nodes \subseteq NodeId /\ rows \subseteq Vectored /\ edges \subseteq Edges
  /\ turn \in Nat /\ undisturbed \in BOOLEAN
  /\ pc \in {"exact", "search", "hydrate", "expand", "done", "threw"}
  /\ hits \in Seq(NodeId)
  /\ exact \in Candidates /\ semantic \in Candidates /\ graph \in Candidates

(* What each phase leaves for the later ones.                              *)
Phases ==
  /\ pc \in {"exact", "search"} => hits = <<>> /\ semantic = <<>>
  /\ pc \in {"exact", "search", "hydrate"} => graph = <<>>
  /\ pc # "done" => ranked = <<>>
  /\ pc = "done" => turn = Len(Base) /\ ranked \in Orders(ToRerank)

(* Exact hits have the highest score, and the semantic ones follow in the  *)
(* order of the vector search.                                             *)
Sorted ==
  /\ \A k \in DOMAIN exact : exact[k].score = 20
  /\ \A k \in DOMAIN semantic : semantic[k] = Semantic(semantic[k].node)
  /\ \A k \in DOMAIN semantic : \E i \in DOMAIN hits :
       hits[i] = semantic[k].node /\ (pc = "hydrate" => i <= turn)
  /\ BestFirst(hits) /\ \A i, j \in DOMAIN semantic :
       i < j => semantic[i].score >= semantic[j].score

(* Every candidate is a node, and none is both a base and a graph one.     *)
CandidatesAreNodes ==
  Of(exact) \cup Of(semantic) \cup Of(graph) \subseteq nodes

GraphIsNew == Of(graph) \cap Of(Base) = {}

(* Expanded so far; and where each graph candidate was first met.          *)
FirstMet(c, i) ==
  /\ c.score = Discounted(Base[i].score)
  /\ Joined(Base[i].node, c.node)
  /\ \A j \in 1..(i - 1) : ~Joined(Base[j].node, c.node)

Expansion ==
  pc \in {"expand", "done"} /\ undisturbed =>
    /\ \A i \in DOMAIN Base : i <= turn => OneHop(Base[i].node) \subseteq Seen
    /\ \A k \in DOMAIN graph : \E i \in DOMAIN Base : FirstMet(graph[k], i)

QueryInv == Typed /\ Phases /\ Sorted /\ CandidatesAreNodes /\ GraphIsNew /\ Expansion

-----------------------------------------------------------------------------
(* Any order of a finite set has each of its elements once.                *)
LEMMA OrdersMeans ==
  ASSUME NEW S, IsFiniteSet(S), NEW f \in Orders(S)
  PROVE  /\ f \in Seq(S) /\ Len(f) = Cardinality(S) /\ Len(f) \in Nat
         /\ DOMAIN f = 1..Len(f)
         /\ ToSet(f) = S
         /\ \A i, j \in DOMAIN f : f[i] = f[j] => i = j
<1> DEFINE D == 1..Cardinality(S)
<1>1. Cardinality(S) \in Nat
  BY FS_CardinalityType
<1>2. f \in [D -> S] /\ \A i, j \in D : i # j => f[i] # f[j]
  BY DEF Orders, SetToSeqs
<1>3. f \in Seq(S) /\ Len(f) = Cardinality(S) /\ DOMAIN f = D
  BY <1>1, <1>2, IsASeq
<1>4. f \in Surjection(D, S)
  <2>1. f \in Injection(D, S)
    BY <1>2 DEF Injection, IsInjective
  <2>2. Cardinality(D) = Cardinality(S)
    BY <1>1, FS_Interval
  <2> QED
    BY <2>1, <2>2, FS_Injection
<1>5. ToSet(f) = S
  BY <1>2, <1>3, <1>4 DEF ToSet, Surjection
<1> QED
  BY <1>1, <1>2, <1>3, <1>5

LEMMA AtMostMeans ==
  ASSUME NEW T, NEW s \in Seq(T), NEW n \in Nat
  PROVE  /\ AtMost(n, s) \in Seq(T) /\ Len(AtMost(n, s)) <= n
         /\ Len(AtMost(n, s)) <= Len(s)
         /\ \A k \in 1..Len(AtMost(n, s)) : AtMost(n, s)[k] = s[k]
<1> DEFINE m == IF Len(s) < n THEN Len(s) ELSE n
<1>1. m \in 0..Len(s) /\ m <= n
  BY LenProperties
<1> HIDE DEF m
<1>2. SubSeq(s, 1, m) \in Seq(T) /\ Len(SubSeq(s, 1, m)) = m
      /\ \A k \in 1..m : SubSeq(s, 1, m)[k] = s[k]
  BY <1>1, SubSeqProperties
<1> QED
  BY <1>1, <1>2 DEF AtMost, m

LEMMA MaxMeans ==
  ASSUME NEW S \in SUBSET Int, NEW v \in S, \A x \in S : x <= v
  PROVE  Max(S) = v
<1>1. \A y \in S : v >= y
  OBVIOUS
<1>2. Max(S) \in S /\ \A y \in S : Max(S) >= y
  BY <1>1 DEF Max
<1>3. Max(S) <= v /\ v <= Max(S) /\ Max(S) \in Int /\ v \in Int
  BY <1>2
<1> QED
  BY <1>3

LEMMA ScoreMeans ==
  ASSUME NEW n \in NodeId
  PROVE  Score[n] \in Int /\ -20 <= Score[n] /\ Score[n] <= 20
<1>1. Score[n] \in -20..20
  BY RetrievalAssumption
<1> QED
  BY <1>1

LEMMA DiscountedIsMonotone ==
  ASSUME NEW x \in Int, NEW y \in Int, x <= y
  PROVE  Discounted(x) \in Int /\ Discounted(x) <= Discounted(y)
  BY DEF Discounted

(* What a sequence of candidates names.                                    *)
LEMMA OfMeans ==
  ASSUME NEW s \in Candidates
  PROVE  /\ Of(s) \subseteq NodeId /\ DOMAIN s = 1..Len(s) /\ Len(s) \in Nat
         /\ \A n : n \in Of(s) <=> \E k \in DOMAIN s : s[k].node = n
         /\ \A k \in DOMAIN s : s[k] \in Candidate
<1>1. DOMAIN s = 1..Len(s) /\ Len(s) \in Nat /\ \A k \in DOMAIN s : s[k] \in Candidate
  BY LenProperties, ElementOfSeq DEF Candidates
<1>2. \A n : n \in Of(s) <=> \E k \in DOMAIN s : s[k].node = n
  BY DEF Of, ToSet
<1> QED
  BY <1>1, <1>2 DEF Candidate

LEMMA OfConcat ==
  ASSUME NEW s \in Candidates, NEW t \in Candidates
  PROVE  /\ s \o t \in Candidates /\ Len(s \o t) = Len(s) + Len(t)
         /\ \A k \in 1..Len(s) : (s \o t)[k] = s[k]
         /\ \A k \in 1..Len(t) : (s \o t)[Len(s) + k] = t[k]
         /\ Of(s \o t) = Of(s) \cup Of(t)
<1>1. /\ s \o t \in Candidates /\ Len(s \o t) = Len(s) + Len(t)
      /\ \A k \in 1..Len(s) : (s \o t)[k] = s[k]
      /\ \A k \in 1..Len(t) : (s \o t)[Len(s) + k] = t[k]
      /\ \A k \in 1..(Len(s) + Len(t)) : k <= Len(s) \/ k - Len(s) \in 1..Len(t)
      /\ Len(s) \in Nat /\ Len(t) \in Nat
  BY ConcatProperties, LenProperties DEF Candidates
<1>2. ASSUME NEW n \in Of(s) \cup Of(t)
      PROVE  n \in Of(s \o t)
  <2>1. CASE n \in Of(s)
    <3>1. PICK k \in 1..Len(s) : s[k].node = n
      BY <2>1, OfMeans
    <3>2. k \in 1..Len(s \o t) /\ (s \o t)[k].node = n
      BY <1>1, <3>1
    <3> QED
      BY <1>1, <3>2, OfMeans
  <2>2. CASE n \in Of(t)
    <3>1. PICK k \in 1..Len(t) : t[k].node = n
      BY <2>2, OfMeans
    <3>2. Len(s) + k \in 1..Len(s \o t) /\ (s \o t)[Len(s) + k].node = n
      BY <1>1, <3>1
    <3> QED
      BY <1>1, <3>2, OfMeans
  <2> QED
    BY <2>1, <2>2
<1>3. ASSUME NEW n \in Of(s \o t)
      PROVE  n \in Of(s) \cup Of(t)
  <2> DEFINE u == s \o t
  <2>0. u \in Candidates /\ Len(u) = Len(s) + Len(t) /\ n \in Of(u)
    BY <1>1
  <2> HIDE DEF u
  <2>9. \E k \in 1..Len(u) : u[k].node = n
    BY <2>0, OfMeans
  <2>1. PICK k \in 1..(Len(s) + Len(t)) : (s \o t)[k].node = n
    BY <2>0, <2>9 DEF u
  <2>2. CASE k <= Len(s)
    <3>1. k \in 1..Len(s) /\ s[k].node = n
      BY <1>1, <2>1, <2>2
    <3> QED
      BY <3>1, OfMeans
  <2>3. CASE k > Len(s)
    <3>1. k - Len(s) \in 1..Len(t) /\ Len(s) + (k - Len(s)) = k
      BY <1>1, <2>3
    <3>2. t[k - Len(s)].node = n
      BY <1>1, <2>1, <3>1
    <3> QED
      BY <3>1, <3>2, OfMeans
  <2> QED
    BY <1>1, <2>2, <2>3
<1> QED
  BY <1>1, <1>2, <1>3

-----------------------------------------------------------------------------
LEMMA StoredGraphs ==
  ASSUME Typed
  PROVE  /\ StoredGraph \in Graph /\ IsFiniteSet(StoredGraph.nodes)
         /\ StoredGraph.nodes = nodes /\ StoredGraph.edges = edges
         /\ IsFiniteSet(nodes) /\ IsFiniteSet(rows)
<1>1. IsFiniteSet(nodes) /\ IsFiniteSet(rows)
  BY RetrievalAssumption, FS_Subset DEF Typed
<1> QED
  BY <1>1, RetrievalAssumption DEF Typed, StoredGraph, Graph

(* One hop is cut by no limit: it has every node joined to the seed.       *)
LEMMA OneHopMeans ==
  ASSUME Typed, NEW n \in NodeId
  PROVE  OneHop(n) = {m \in nodes \ {n} : Joined(n, m)}
<1> DEFINE q == [depth |-> 1, types |-> {}, direction |-> "both", limit |-> GraphHits]
           G == StoredGraph
<1>1. q \in Query /\ GraphHits \in Nat \ {0}
  BY RetrievalAssumption DEF Query
<1>2. LayerComplete(G, n, q)
  BY <1>1, StoredGraphs, TraversalIsComplete
<1>3. Within(G, n, 0, q) = {n} /\ Within(G, n, 1, q) = {n} \cup Reached(G, {n}, q)
  <2> HIDE DEF q, G
  <2>1. Within(G, n, 0, q) = {n}
    BY StoredGraphs, WithinNone DEF G
  <2>2. ASSUME NEW k \in Nat, k = 0
        PROVE  Within(G, n, k + 1, q) = Within(G, n, k, q) \cup Reached(G, Within(G, n, k, q), q)
    BY StoredGraphs, WithinStep DEF G
  <2>3. Within(G, n, 0 + 1, q) = {n} \cup Reached(G, {n}, q)
    BY <2>1, <2>2
  <2> QED
    BY <2>1, <2>3
<1>4. ~EnoughAt(G, n, 0, q)
  <2>1. Ball(G, n, 0, q).nodes \ {n} = {}
    BY <1>3 DEF Ball
  <2>2. Cardinality(Ball(G, n, 0, q).nodes \ {n}) = 0
    BY <2>1, FS_EmptySet
  <2> QED
    BY <1>1, <2>2 DEF EnoughAt
<1>5. Neighbors(G, n, q) = Ball(G, n, 1, q)
  <2>1. 0..q.depth = {0, 1}
    OBVIOUS
  <2> HIDE DEF q, G
  <2> QED
    BY <1>2, <1>4, <2>1 DEF LayerComplete
<1>6. Ball(G, n, 1, q).nodes = ({n} \cup Reached(G, {n}, q)) \cap nodes
  BY <1>3, StoredGraphs DEF Ball
<1>7. ASSUME NEW m \in NodeId, m # n
      PROVE  m \in Reached(G, {n}, q) <=> Joined(n, m)
  <2>1. m \in Reached(G, {n}, q) <=> \E e \in edges : Leads(e, n, m, q)
    BY StoredGraphs, ReachedMeans
  <2>2. \A e \in edges : Leads(e, n, m, q) <=> {e.src, e.dst} = {n, m}
    BY <1>7 DEF Leads, Allowed, Forward, Backward
  <2> QED
    BY <2>1, <2>2 DEF Joined
<1>8. nodes \subseteq NodeId
  BY DEF Typed
<1> QED
  BY <1>5, <1>6, <1>7, <1>8 DEF OneHop

-----------------------------------------------------------------------------
(* Nothing but the index run acted: the query has what it had.             *)
LEMMA QueryStays ==
  ASSUME UNCHANGED query
  PROVE  /\ Phases => Phases'
         /\ Sorted => Sorted'
         /\ GraphIsNew => GraphIsNew'
<1>1. ToRerank' = ToRerank
  BY DEF query, ToRerank, Merged, Firsts, BestScore, All
<1>2. Phases => Phases'
  BY <1>1 DEF query, Phases, Base
<1>3. Sorted => Sorted'
  BY DEF query, Sorted
<1>4. GraphIsNew => GraphIsNew'
  BY DEF query, GraphIsNew, Base
<1> QED
  BY <1>2, <1>3, <1>4

LEMMA WritesKeep ==
  ASSUME QueryInv, WriteGraph \/ \E n \in Vectored : WriteRow(n)
  PROVE  QueryInv'
<1>1. /\ UNCHANGED query /\ undisturbed' = FALSE
      /\ nodes \subseteq nodes' /\ nodes' \subseteq NodeId
      /\ edges' \subseteq Edges /\ rows' \subseteq Vectored
  BY DEF WriteGraph, WriteRow, Memory!Next, Memory!UpsertNode, Memory!UpsertEdge,
         QueryInv, Typed
<1>2. Typed' /\ CandidatesAreNodes'
  BY <1>1 DEF QueryInv, Typed, CandidatesAreNodes, query, Candidates
<1>3. Expansion'
  BY <1>1 DEF Expansion
<1> QED
  BY <1>1, <1>2, <1>3, QueryStays DEF QueryInv

LEMMA NoCandidates ==
  /\ <<>> \in Candidates /\ Of(<<>>) = {} /\ Len(<<>>) = 0 /\ DOMAIN <<>> = {}
  BY DEF Candidates, Of, ToSet

LEMMA QueryInvInit == Init => QueryInv
<1> SUFFICES ASSUME Init PROVE QueryInv
  OBVIOUS
<1>1. Typed
  BY NoCandidates DEF Init, Typed
<1>2. Sorted
  BY NoCandidates DEF Init, Sorted, BestFirst
<1> QED
  BY <1>1, <1>2, NoCandidates
     DEF Init, QueryInv, Phases, CandidatesAreNodes, GraphIsNew, Expansion

LEMMA ExactKeeps ==
  ASSUME QueryInv, ExactLookup
  PROVE  QueryInv'
<1>1. PICK listed \in Orders(Named[turn + 1] \cap nodes) :
        exact' = exact \o [k \in DOMAIN AtMost(ExactHits, listed) |-> Exact(listed[k])]
  BY DEF ExactLookup
<1> DEFINE new == [k \in DOMAIN AtMost(ExactHits, listed) |-> Exact(listed[k])]
<1>2. /\ pc = "exact" /\ turn' = turn + 1
      /\ UNCHANGED <<stores, undisturbed, pc, hits, semantic, graph, ranked>>
  BY DEF ExactLookup
<1>3. listed \in Seq(nodes) /\ ToSet(listed) \subseteq nodes
  <2>1. IsFiniteSet(Named[turn + 1] \cap nodes)
    BY StoredGraphs, FS_Subset DEF QueryInv
  <2> QED
    BY <2>1, OrdersMeans
<1>4. /\ DOMAIN AtMost(ExactHits, listed) = 1..Len(AtMost(ExactHits, listed))
      /\ Len(AtMost(ExactHits, listed)) \in Nat
      /\ \A k \in DOMAIN AtMost(ExactHits, listed) : listed[k] \in nodes
  <2>1. /\ AtMost(ExactHits, listed) \in Seq(nodes)
        /\ Len(AtMost(ExactHits, listed)) <= Len(listed)
    BY <1>3, AtMostMeans, RetrievalAssumption
  <2> QED
    BY <1>3, <2>1, LenProperties, ElementOfSeq
<1>5. /\ new \in Candidates /\ DOMAIN new = DOMAIN AtMost(ExactHits, listed)
      /\ \A k \in DOMAIN new : new[k].node \in nodes /\ new[k].score = 20
  <2>1. \A k \in DOMAIN new : new[k] \in Candidate
    BY <1>4 DEF QueryInv, Typed, Exact, Candidate
  <2>2. new \in Candidates
    BY <1>4, <2>1, IsASeq DEF Candidates
  <2> QED
    BY <1>4, <2>2 DEF Exact
<1> HIDE DEF new
<1>6. /\ exact' \in Candidates /\ Of(exact') = Of(exact) \cup Of(new)
      /\ \A k \in DOMAIN exact' : exact'[k].score = 20
  <2>1. exact' = exact \o new /\ exact \in Candidates
    BY <1>1 DEF new, QueryInv, Typed
  <2>2. \A k \in DOMAIN exact : exact[k].score = 20
    BY DEF QueryInv, Sorted
  <2>3. ASSUME NEW k \in DOMAIN exact'
        PROVE  exact'[k].score = 20
    <3>1. /\ k \in 1..(Len(exact) + Len(new)) /\ Len(exact) \in Nat /\ Len(new) \in Nat
          /\ DOMAIN exact = 1..Len(exact) /\ DOMAIN new = 1..Len(new)
      BY <1>5, <2>1, OfConcat, OfMeans
    <3>2. CASE k <= Len(exact)
      BY <1>5, <2>1, <2>2, <3>1, <3>2, OfConcat
    <3>3. CASE k > Len(exact)
      <4>1. k - Len(exact) \in 1..Len(new) /\ Len(exact) + (k - Len(exact)) = k
        BY <3>1, <3>3
      <4>2. exact'[Len(exact) + (k - Len(exact))] = new[k - Len(exact)]
        BY <1>5, <2>1, <4>1, OfConcat
      <4> QED
        BY <1>5, <3>1, <4>1, <4>2
    <3> QED
      BY <3>1, <3>2, <3>3
  <2> QED
    BY <1>5, <2>1, <2>3, OfConcat
<1>7. Of(new) \subseteq nodes
  BY <1>5, OfMeans
<1>8. Typed'
  BY <1>2, <1>6 DEF QueryInv, Typed, stores
<1>9. Phases' /\ GraphIsNew'
  BY <1>2, NoCandidates DEF QueryInv, Phases, GraphIsNew
<1>10. Sorted'
  BY <1>2, <1>6, NoCandidates DEF QueryInv, Sorted, Phases
<1>11. CandidatesAreNodes'
  BY <1>2, <1>6, <1>7 DEF QueryInv, CandidatesAreNodes, stores
<1>12. Expansion'
  BY <1>2 DEF Expansion
<1> QED
  BY <1>8, <1>9, <1>10, <1>11, <1>12 DEF QueryInv

LEMMA EmbedKeeps ==
  ASSUME QueryInv, Embed
  PROVE  QueryInv'
<1>1. /\ pc = "exact" /\ pc' \in {"search", "threw"}
      /\ UNCHANGED <<nodes, edges, rows, undisturbed, turn, hits, exact, semantic, graph, ranked>>
  BY DEF Embed, stores
<1>2. Typed' /\ CandidatesAreNodes' /\ GraphIsNew' /\ Expansion'
  BY <1>1 DEF QueryInv, Typed, CandidatesAreNodes, GraphIsNew, Base, Expansion
<1>3. Phases' /\ Sorted'
  BY <1>1, NoCandidates DEF QueryInv, Phases, Sorted
<1> QED
  BY <1>2, <1>3 DEF QueryInv

LEMMA SemanticSearchKeeps ==
  ASSUME QueryInv, SemanticSearch
  PROVE  QueryInv'
<1>1. PICK listed \in Orders(rows) : BestFirst(listed) /\ hits' = AtMost(SemanticHits, listed)
  BY DEF SemanticSearch
<1>2. /\ pc = "search" /\ pc' = "hydrate" /\ turn' = 0
      /\ UNCHANGED <<nodes, edges, rows, undisturbed, exact, semantic, graph, ranked>>
  BY DEF SemanticSearch, stores
<1>3. hits' \in Seq(NodeId) /\ BestFirst(hits')
  <2>1. listed \in Seq(rows) /\ rows \subseteq NodeId /\ DOMAIN listed = 1..Len(listed)
    BY StoredGraphs, OrdersMeans, RetrievalAssumption DEF QueryInv, Typed
  <2>2. listed \in Seq(NodeId) /\ SemanticHits \in Nat
    BY <2>1, RetrievalAssumption, ElementOfSeq, LenProperties, IsASeq
  <2>3. /\ hits' \in Seq(NodeId) /\ Len(hits') <= Len(listed)
        /\ \A k \in 1..Len(hits') : hits'[k] = listed[k]
    BY <1>1, <2>2, AtMostMeans
  <2>4. DOMAIN hits' = 1..Len(hits') /\ \A k \in DOMAIN hits' : k \in DOMAIN listed
    BY <2>1, <2>2, <2>3, LenProperties
  <2> QED
    BY <1>1, <2>3, <2>4 DEF BestFirst
<1>4. Typed' /\ CandidatesAreNodes' /\ GraphIsNew' /\ Expansion' /\ Phases'
  BY <1>2, <1>3 DEF QueryInv, Typed, CandidatesAreNodes, GraphIsNew, Base, Expansion, Phases
<1>5. Sorted'
  BY <1>2, <1>3, NoCandidates DEF QueryInv, Phases, Sorted, BestFirst
<1> QED
  BY <1>4, <1>5 DEF QueryInv

(* The next hit is no better than those that are candidates already.       *)
LEMMA HydrateKeeps ==
  ASSUME QueryInv, Hydrate
  PROVE  QueryInv'
<1> DEFINE n == hits[turn + 1]
<1>1. /\ pc = "hydrate" /\ turn' = turn + 1 /\ turn < Len(hits)
      /\ semantic' = IF n \in nodes THEN Append(semantic, Semantic(n)) ELSE semantic
      /\ UNCHANGED <<nodes, edges, rows, undisturbed, pc, hits, exact, graph, ranked>>
  BY DEF Hydrate, InGraph, stores
<1>2. /\ turn \in Nat /\ turn + 1 \in DOMAIN hits /\ n \in NodeId /\ Score[n] \in Int
      /\ \A i \in DOMAIN hits : i \in Nat /\ hits[i] \in NodeId /\ Score[hits[i]] \in Int
  <2>1. turn \in Nat /\ hits \in Seq(NodeId)
    BY DEF QueryInv, Typed
  <2>2. DOMAIN hits = 1..Len(hits) /\ Len(hits) \in Nat /\ \A i \in DOMAIN hits : hits[i] \in NodeId
    BY <2>1, LenProperties, ElementOfSeq
  <2>3. \A m \in NodeId : Score[m] \in Int
    BY ScoreMeans
  <2>4. turn + 1 \in DOMAIN hits
    BY <1>1, <2>1, <2>2
  <2> QED
    BY <2>1, <2>2, <2>3, <2>4
<1> HIDE DEF n
<1>3. graph = <<>> /\ ranked = <<>>
  BY <1>1 DEF QueryInv, Phases
<1>4. Phases' /\ GraphIsNew' /\ Expansion'
  BY <1>1, <1>3, NoCandidates DEF QueryInv, Phases, GraphIsNew, Expansion
<1>5. CASE n \notin nodes
  <2>1. UNCHANGED semantic
    BY <1>1, <1>5
  <2>2. Typed' /\ CandidatesAreNodes'
    BY <1>1, <1>2, <2>1 DEF QueryInv, Typed, CandidatesAreNodes
  <2>3. Sorted'
    BY <1>1, <1>2, <2>1 DEF QueryInv, Sorted, BestFirst
  <2> QED
    BY <1>4, <2>2, <2>3 DEF QueryInv
<1>6. CASE n \in nodes
  <2> DEFINE new == Semantic(n)
  <2>1. new \in Candidate /\ new.node = n /\ new = Semantic(new.node) /\ new.score = Score[n]
    BY <1>2 DEF Semantic, Candidate
  <2>2. /\ semantic' = Append(semantic, new) /\ semantic \in Seq(Candidate)
    BY <1>1, <1>6 DEF QueryInv, Typed, Candidates
  <2> HIDE DEF new
  <2>3. /\ semantic' \in Seq(Candidate) /\ Len(semantic) \in Nat
        /\ DOMAIN semantic = 1..Len(semantic)
        /\ DOMAIN semantic' = 1..(Len(semantic) + 1)
        /\ \A k \in DOMAIN semantic : semantic'[k] = semantic[k]
        /\ semantic'[Len(semantic) + 1] = new
    BY <2>1, <2>2, AppendProperties, LenProperties
  <2>4. Typed'
    BY <1>1, <1>2, <2>3 DEF QueryInv, Typed, Candidates
  <2>5. \A k \in DOMAIN semantic' : k \in DOMAIN semantic \/ k = Len(semantic) + 1
    BY <2>3
  <2>6. CandidatesAreNodes'
    <3>1. ASSUME NEW m \in Of(semantic')
          PROVE  m \in Of(semantic) \cup {n}
      <4>1. PICK k \in DOMAIN semantic' : semantic'[k].node = m
        BY <2>3, OfMeans DEF Candidates
      <4> QED
        BY <2>1, <2>2, <2>3, <2>5, <4>1, OfMeans DEF Candidates
    <3> QED
      BY <1>1, <1>6, <3>1 DEF QueryInv, CandidatesAreNodes
  <2>7. Sorted'
    <3>1. \A k \in DOMAIN semantic' : semantic'[k] = Semantic(semantic'[k].node)
      BY <2>1, <2>3, <2>5 DEF QueryInv, Sorted
    <3>2. ASSUME NEW k \in DOMAIN semantic'
          PROVE  \E i \in DOMAIN hits : hits[i] = semantic'[k].node /\ i <= turn'
      <4>1. CASE k \in DOMAIN semantic
        <5>1. PICK i \in DOMAIN hits : hits[i] = semantic[k].node /\ i <= turn
          BY <1>1, <4>1 DEF QueryInv, Sorted
        <5> QED
          BY <1>1, <1>2, <2>3, <4>1, <5>1
      <4>2. CASE k = Len(semantic) + 1
        BY <1>1, <1>2, <2>1, <2>3, <4>2 DEF n
      <4> QED
        BY <2>5, <4>1, <4>2
    <3>3. ASSUME NEW i \in DOMAIN semantic', NEW j \in DOMAIN semantic', i < j
          PROVE  semantic'[i].score >= semantic'[j].score
      <4>1. i \in DOMAIN semantic
        BY <2>3, <2>5, <3>3
      <4>2. CASE j \in DOMAIN semantic
        BY <2>3, <3>3, <4>1, <4>2 DEF QueryInv, Sorted
      <4>3. CASE j = Len(semantic) + 1
        <5>1. PICK h \in DOMAIN hits : hits[h] = semantic[i].node /\ h <= turn
          BY <1>1, <4>1 DEF QueryInv, Sorted
        <5>2. semantic[i].score = Score[hits[h]]
          <6>1. semantic[i] = Semantic(hits[h])
            BY <4>1, <5>1 DEF QueryInv, Sorted
          <6> QED
            BY <6>1 DEF Semantic
        <5>3. Score[hits[h]] >= Score[n]
          BY <1>2, <5>1 DEF QueryInv, Sorted, BestFirst, n
        <5> QED
          BY <2>1, <2>3, <4>1, <4>3, <5>2, <5>3
      <4> QED
        BY <2>5, <4>2, <4>3
    <3> QED
      BY <1>1, <3>1, <3>2, <3>3 DEF QueryInv, Sorted, BestFirst
  <2> QED
    BY <1>4, <2>4, <2>6, <2>7 DEF QueryInv
<1> QED
  BY <1>5, <1>6

LEMMA HydratedKeeps ==
  ASSUME QueryInv, Hydrated
  PROVE  QueryInv'
<1>1. /\ pc = "hydrate" /\ pc' = "expand" /\ turn' = 0
      /\ UNCHANGED <<nodes, edges, rows, undisturbed, hits, exact, semantic, graph, ranked>>
  BY DEF Hydrated, stores
<1>2. Typed' /\ CandidatesAreNodes' /\ GraphIsNew' /\ Phases' /\ Sorted'
  BY <1>1 DEF QueryInv, Typed, CandidatesAreNodes, GraphIsNew, Base, Phases, Sorted, BestFirst
<1>3. Expansion'
  <2>1. graph' = <<>>
    BY <1>1 DEF QueryInv, Phases
  <2>2. \A i \in DOMAIN Base' : ~(i <= turn')
    <3>1. Base' = Base /\ Base \in Candidates
      BY <1>1, OfConcat DEF QueryInv, Typed, Base
    <3> QED
      BY <1>1, <3>1, OfMeans
  <2> QED
    BY <2>1, <2>2, NoCandidates DEF Expansion
<1> QED
  BY <1>2, <1>3 DEF QueryInv

(* An expansion meets only what no earlier one could have met.             *)
LEMMA GraphExpandKeeps ==
  ASSUME QueryInv, GraphExpand
  PROVE  QueryInv'
<1> DEFINE hit == Base[turn + 1]
<1>1. PICK fresh \in Orders(OneHop(hit.node) \ Seen) :
        graph' = graph \o [k \in DOMAIN fresh |->
                             [node |-> fresh[k], score |-> Discounted(hit.score)]]
  BY DEF GraphExpand
<1> DEFINE new == [k \in DOMAIN fresh |->
                     [node |-> fresh[k], score |-> Discounted(hit.score)]]
<1>2. /\ pc = "expand" /\ turn' = turn + 1 /\ turn < Len(Base) /\ graph' = graph \o new
      /\ UNCHANGED <<nodes, edges, rows, undisturbed, pc, hits, exact, semantic, ranked>>
  BY <1>1 DEF GraphExpand, stores
<1>3. /\ Base \in Candidates /\ Base' = Base /\ graph \in Candidates /\ turn \in Nat
      /\ Of(Base) = Of(exact) \cup Of(semantic)
  BY <1>2, OfConcat DEF QueryInv, Typed, Base
<1>4. /\ turn + 1 \in DOMAIN Base /\ hit \in Candidate
      /\ DOMAIN Base = 1..Len(Base) /\ Len(Base) \in Nat
      /\ \A i \in DOMAIN Base : Base[i] \in Candidate /\ Base[i].node \in Of(Base)
  BY <1>2, <1>3, OfMeans
<1> HIDE DEF hit
<1>5. /\ fresh \in Seq(OneHop(hit.node) \ Seen) /\ DOMAIN fresh = 1..Len(fresh)
      /\ Len(fresh) \in Nat /\ ToSet(fresh) = OneHop(hit.node) \ Seen
  <2>1. OneHop(hit.node) \subseteq nodes
    BY <1>4, OneHopMeans DEF QueryInv, Candidate
  <2>2. IsFiniteSet(OneHop(hit.node) \ Seen)
    BY <2>1, StoredGraphs, FS_Subset DEF QueryInv
  <2> QED
    BY <2>2, OrdersMeans
<1>6. \A k \in DOMAIN fresh : /\ fresh[k] \in nodes /\ fresh[k] \notin Seen
                              /\ fresh[k] \in NodeId /\ Joined(hit.node, fresh[k])
  <2>1. \A k \in DOMAIN fresh : fresh[k] \in OneHop(hit.node) \ Seen
    BY <1>5 DEF ToSet
  <2> QED
    BY <1>4, <2>1, OneHopMeans DEF QueryInv, Typed, Candidate
<1>7. /\ new \in Candidates /\ DOMAIN new = DOMAIN fresh
      /\ \A k \in DOMAIN new : /\ new[k].node = fresh[k]
                               /\ new[k].score = Discounted(hit.score)
  <2>1. Discounted(hit.score) \in Int
    BY <1>4, DiscountedIsMonotone DEF Candidate
  <2>2. \A k \in DOMAIN new : new[k] \in Candidate
    BY <1>6, <2>1 DEF Candidate
  <2> QED
    BY <1>5, <2>2, IsASeq DEF Candidates
<1> HIDE DEF new
<1>8. Of(new) = OneHop(hit.node) \ Seen
  BY <1>5, <1>7, OfMeans DEF ToSet
<1>9. /\ graph' \in Candidates /\ Of(graph') = Of(graph) \cup Of(new)
      /\ Len(graph') = Len(graph) + Len(new)
      /\ \A k \in 1..Len(graph) : graph'[k] = graph[k]
      /\ \A k \in 1..Len(new) : graph'[Len(graph) + k] = new[k]
  BY <1>2, <1>3, <1>7, OfConcat
<1>10. Of(new) \subseteq nodes
  BY <1>4, <1>8, OneHopMeans DEF QueryInv, Candidate
<1>11. Typed'
  BY <1>2, <1>3, <1>9 DEF QueryInv, Typed
<1>12. CandidatesAreNodes'
  BY <1>2, <1>9, <1>10 DEF QueryInv, CandidatesAreNodes
<1>13. GraphIsNew'
  BY <1>3, <1>8, <1>9 DEF QueryInv, GraphIsNew, Seen
<1>14. Phases' /\ Sorted'
  BY <1>2 DEF QueryInv, Phases, Sorted, BestFirst
<1>15. ASSUME undisturbed
       PROVE  Expansion'
  <2>1. Seen' = Seen \cup Of(new)
    BY <1>3, <1>9 DEF Seen
  <2>2. OneHop(hit.node) \subseteq Seen'
    BY <1>8, <2>1
  <2>3. \A m : OneHop(m)' = OneHop(m)
    BY <1>2 DEF OneHop, StoredGraph
  <2>4. ASSUME NEW i \in DOMAIN Base, i <= turn + 1
        PROVE  OneHop(Base[i].node) \subseteq Seen'
    <3>1. CASE i <= turn
      BY <1>2, <1>15, <2>1, <3>1 DEF QueryInv, Expansion
    <3>2. CASE i = turn + 1
      BY <2>2, <3>2 DEF hit
    <3> QED
      BY <1>3, <1>4, <2>4, <3>1, <3>2
  <2>5. \A c, i : FirstMet(c, i)' <=> FirstMet(c, i)
    BY <1>2, <1>3 DEF FirstMet, Joined
  <2>6. ASSUME NEW k \in DOMAIN graph'
        PROVE  \E i \in DOMAIN Base : FirstMet(graph'[k], i)
    <3>1. /\ k \in 1..(Len(graph) + Len(new)) /\ Len(graph) \in Nat /\ Len(new) \in Nat
          /\ DOMAIN graph = 1..Len(graph) /\ DOMAIN new = 1..Len(new)
      BY <1>3, <1>7, <1>9, OfMeans
    <3>2. CASE k <= Len(graph)
      BY <1>2, <1>9, <1>15, <3>1, <3>2 DEF QueryInv, Expansion
    <3>3. CASE k > Len(graph)
      <4> DEFINE h == k - Len(graph)
      <4>1. h \in DOMAIN new /\ Len(graph) + h = k
        BY <3>1, <3>3
      <4>2. graph'[k] = new[h]
        BY <1>9, <3>1, <4>1
      <4> HIDE DEF h
      <4>3. /\ new[h].score = Discounted(Base[turn + 1].score)
            /\ Joined(Base[turn + 1].node, new[h].node)
        BY <1>6, <1>7, <4>1 DEF hit
      <4>4. ASSUME NEW j \in 1..((turn + 1) - 1), Joined(Base[j].node, new[h].node)
            PROVE  FALSE
        <5>1. j \in DOMAIN Base /\ j <= turn
          BY <1>3, <1>4
        <5>2. Base[j].node \in Seen /\ Base[j].node \in NodeId
          BY <1>4, <5>1 DEF Seen, Candidate
        <5>3. new[h].node \in nodes /\ new[h].node \notin Seen
          BY <1>6, <1>7, <4>1
        <5>4. new[h].node \in OneHop(Base[j].node)
          BY <4>4, <5>2, <5>3, OneHopMeans DEF QueryInv
        <5>5. OneHop(Base[j].node) \subseteq Seen
          BY <1>2, <1>15, <5>1 DEF QueryInv, Expansion
        <5> QED
          BY <5>3, <5>4, <5>5
      <4>5. FirstMet(new[h], turn + 1)
        BY <4>3, <4>4 DEF FirstMet
      <4> QED
        BY <1>4, <4>2, <4>5
    <3> QED
      BY <3>1, <3>2, <3>3
  <2>7. (\A i \in DOMAIN Base : i <= turn => OneHop(Base[i].node) \subseteq Seen)'
    BY <1>2, <1>3, <2>3, <2>4
  <2>8. (\A k \in DOMAIN graph : \E i \in DOMAIN Base : FirstMet(graph[k], i))'
    BY <1>2, <1>3, <2>5, <2>6
  <2> QED
    BY <2>7, <2>8 DEF Expansion
<1>16. Expansion'
  BY <1>2, <1>15 DEF Expansion
<1> QED
  BY <1>11, <1>12, <1>13, <1>14, <1>16 DEF QueryInv

LEMMA ExpansionStays ==
  ASSUME Expansion, UNCHANGED <<nodes, edges, exact, semantic, graph, turn, undisturbed>>,
         pc' \in {"expand", "done"} => pc \in {"expand", "done"}
  PROVE  Expansion'
<1>1. Base' = Base /\ Seen' = Seen /\ StoredGraph' = StoredGraph
  BY DEF Base, Seen, StoredGraph
<1>2. /\ \A m : OneHop(m)' = OneHop(m)
      /\ \A c, i : FirstMet(c, i)' <=> FirstMet(c, i)
  BY <1>1 DEF OneHop, FirstMet, Joined
<1> QED
  BY <1>1, <1>2 DEF Expansion

LEMMA RerankKeeps ==
  ASSUME QueryInv, Rerank
  PROVE  QueryInv'
<1>1. /\ pc = "expand" /\ turn = Len(Base)
      /\ \/ pc' = "done" /\ ranked' \in Orders(ToRerank)
         \/ pc' = "threw" /\ UNCHANGED ranked
      /\ UNCHANGED <<nodes, edges, rows, undisturbed, turn, hits, exact, semantic, graph>>
  BY DEF Rerank, stores
<1>2. ToRerank' = ToRerank
  BY <1>1 DEF ToRerank, Merged, Firsts, BestScore, All
<1>3. Typed' /\ CandidatesAreNodes' /\ GraphIsNew'
  BY <1>1 DEF QueryInv, Typed, CandidatesAreNodes, GraphIsNew, Base
<1>4. Phases' /\ Sorted'
  BY <1>1, <1>2 DEF QueryInv, Phases, Sorted, BestFirst, Base
<1>5. Expansion'
  BY <1>1, ExpansionStays DEF QueryInv
<1> QED
  BY <1>3, <1>4, <1>5 DEF QueryInv

LEMMA QueryInvNext == QueryInv /\ [Next]_vars => QueryInv'
<1> SUFFICES ASSUME QueryInv, [Next]_vars
             PROVE  QueryInv'
  OBVIOUS
<1>1. CASE UNCHANGED vars
  <2>1. UNCHANGED query /\ UNCHANGED <<nodes, edges, rows, undisturbed>>
    BY <1>1 DEF vars, stores
  <2>2. Typed' /\ CandidatesAreNodes'
    BY <2>1 DEF QueryInv, Typed, CandidatesAreNodes, query
  <2>3. Expansion'
    BY <2>1, ExpansionStays DEF QueryInv, query
  <2> QED
    BY <2>1, <2>2, <2>3, QueryStays DEF QueryInv
<1>2. CASE Next
  BY <1>2, WritesKeep, ExactKeeps, EmbedKeeps, SemanticSearchKeeps, HydrateKeeps,
     HydratedKeeps, GraphExpandKeeps, RerankKeeps DEF Next
<1> QED
  BY <1>1, <1>2

-----------------------------------------------------------------------------
(* What a query that has ended shows.                                      *)

LEMMA AllMeans ==
  ASSUME QueryInv
  PROVE  /\ Base \in Candidates /\ All \in Candidates
         /\ Of(Base) = Of(exact) \cup Of(semantic)
         /\ Of(All) = Of(Base) \cup Of(graph) /\ Of(All) \subseteq nodes
         /\ Len(All) = Len(Base) + Len(graph)
         /\ \A k \in 1..Len(Base) : All[k] = Base[k]
         /\ \A k \in 1..Len(graph) : All[Len(Base) + k] = graph[k]
<1>1. /\ exact \in Candidates /\ semantic \in Candidates /\ graph \in Candidates
      /\ All = Base \o graph
  BY DEF QueryInv, Typed, All, Base
<1>2. Base \in Candidates /\ Of(Base) = Of(exact) \cup Of(semantic)
  BY <1>1, OfConcat DEF Base
<1> QED
  BY <1>1, <1>2, OfConcat DEF QueryInv, CandidatesAreNodes

(* Each node has one first candidate.                                      *)
LEMMA FirstsMean ==
  ASSUME QueryInv
  PROVE  /\ Firsts \subseteq 1..Len(All) /\ Len(All) \in Nat
         /\ \A i, j \in Firsts : All[i].node = All[j].node => i = j
         /\ \A k \in 1..Len(All) : \E f \in Firsts : f <= k /\ All[f].node = All[k].node
<1>1. DOMAIN All = 1..Len(All) /\ Len(All) \in Nat
  BY AllMeans, OfMeans
<1>2. ASSUME NEW i \in Firsts, NEW j \in Firsts, All[i].node = All[j].node
      PROVE  i = j
  <2>1. i \in Nat /\ j \in Nat /\ i > 0 /\ j > 0
    BY <1>1 DEF Firsts
  <2>2. ~(i < j) /\ ~(j < i)
    <3>1. ASSUME i < j PROVE FALSE
      BY <1>2, <2>1, <3>1 DEF Firsts
    <3>2. ASSUME j < i PROVE FALSE
      BY <1>2, <2>1, <3>2 DEF Firsts
    <3> QED
      BY <3>1, <3>2
  <2> QED
    BY <2>1, <2>2
<1>3. ASSUME NEW k \in 1..Len(All)
      PROVE  \E f \in Firsts : f <= k /\ All[f].node = All[k].node
  <2> DEFINE S == {j \in 1..Len(All) : All[j].node = All[k].node}
  <2>1. S \subseteq Nat /\ k \in S
    BY <1>1
  <2>2. PICK f \in S : \A j \in S : f <= j
    BY <2>1, LeastNatural
  <2>3. f \in 1..Len(All) /\ All[f].node = All[k].node
    OBVIOUS
  <2>4. ASSUME NEW j \in 1..(f - 1), All[j].node = All[f].node
        PROVE  FALSE
    <3>1. j \in S /\ j < f
      BY <1>1, <2>3, <2>4
    <3> QED
      BY <1>1, <2>1, <2>2, <3>1
  <2>5. f \in Firsts
    BY <1>1, <2>3, <2>4 DEF Firsts
  <2> QED
    BY <2>1, <2>2, <2>3, <2>5
<1> QED
  BY <1>1, <1>2, <1>3 DEF Firsts

(* The reranker is given each node once, and base candidates first.        *)
LEMMA ToRerankMeans ==
  ASSUME QueryInv
  PROVE  /\ IsFiniteSet(ToRerank)
         /\ \A x \in ToRerank : x.node \in nodes
         /\ \A x, y \in ToRerank : x.node = y.node => x = y
         /\ \/ \A x \in ToRerank : x.node \notin Of(graph)
            \/ \A n \in Of(Base) : \E x \in ToRerank : x.node = n
<1> DEFINE Picked == {f \in Firsts : Cardinality(Firsts \cap 1..(f - 1)) < RerankInput}
<1>1. ToRerank = {Merged(k) : k \in Picked} /\ \A k : Merged(k).node = All[k].node
  BY DEF ToRerank, Merged
<1>2. IsFiniteSet(Firsts) /\ IsFiniteSet(Picked) /\ Picked \subseteq Firsts
  <2>1. IsFiniteSet(1..Len(All))
    BY FirstsMean, FS_Interval
  <2>2. IsFiniteSet(Firsts)
    BY <2>1, FirstsMean, FS_Subset
  <2>3. Picked \subseteq Firsts
    OBVIOUS
  <2> QED
    BY <2>2, <2>3, FS_Subset
<1>3. /\ Base \in Candidates /\ All \in Candidates /\ Of(All) \subseteq nodes
      /\ Len(All) = Len(Base) + Len(graph) /\ graph \in Candidates
      /\ DOMAIN Base = 1..Len(Base) /\ Len(Base) \in Nat
      /\ DOMAIN All = 1..Len(All) /\ Len(All) \in Nat
      /\ \A k \in 1..Len(Base) : All[k] = Base[k]
  BY AllMeans, OfMeans DEF QueryInv, Typed
<1>4. \A k \in Firsts : k \in 1..Len(All)
  BY FirstsMean
<1>5. \A f \in Picked : Cardinality(Firsts \cap 1..(f - 1)) < RerankInput
  OBVIOUS
<1>6. \A f \in Firsts : Cardinality(Firsts \cap 1..(f - 1)) < RerankInput => f \in Picked
  OBVIOUS
<1> HIDE DEF Picked
<1>7. IsFiniteSet(ToRerank)
  <2> DEFINE f == [k \in Picked |-> Merged(k)]
  <2>1. f \in Surjection(Picked, ToRerank)
    BY <1>1 DEF Surjection
  <2> QED
    BY <1>2, <2>1, FS_Surjection
<1>8. ASSUME NEW x \in ToRerank
      PROVE  x.node \in nodes
  <2>1. PICK k \in Picked : x = Merged(k)
    BY <1>1
  <2> QED
    BY <1>1, <1>2, <1>3, <1>4, <2>1, OfMeans
<1>9. ASSUME NEW x \in ToRerank, NEW y \in ToRerank, x.node = y.node
      PROVE  x = y
  <2>1. PICK k \in Picked, j \in Picked : x = Merged(k) /\ y = Merged(j)
    BY <1>1
  <2>2. k = j
    BY <1>1, <1>2, <1>9, <2>1, FirstsMean
  <2> QED
    BY <2>1, <2>2
<1>10. ASSUME NEW x \in ToRerank, x.node \in Of(graph), NEW n \in Of(Base)
       PROVE  \E y \in ToRerank : y.node = n
  <2>1. PICK f \in Picked : x = Merged(f)
    BY <1>1
  <2>2. f \in Nat /\ f > Len(Base)
    <3>1. f \in 1..Len(All)
      BY <1>2, <1>4
    <3>2. ASSUME f <= Len(Base) PROVE FALSE
      <4>1. f \in DOMAIN Base /\ All[f] = Base[f]
        BY <1>3, <3>1, <3>2
      <4>2. x.node \in Of(Base)
        BY <1>1, <1>3, <2>1, <4>1, OfMeans
      <4> QED
        BY <1>10, <4>2 DEF QueryInv, GraphIsNew
    <3> QED
      BY <1>3, <3>1, <3>2
  <2>3. PICK k \in 1..Len(Base) : Base[k].node = n
    BY <1>3, OfMeans
  <2>4. k \in 1..Len(All) /\ All[k].node = n
    <3>1. Len(graph) \in Nat
      BY <1>3, OfMeans
    <3> QED
      BY <1>3, <2>3, <3>1
  <2>5. PICK h \in Firsts : h <= k /\ All[h].node = n
    BY <2>4, FirstsMean
  <2>6. /\ h \in Nat /\ h < f
        /\ Firsts \cap 1..(h - 1) \subseteq Firsts \cap 1..(f - 1)
        /\ IsFiniteSet(Firsts \cap 1..(f - 1))
    <3>1. h \in 1..Len(All)
      BY <1>4
    <3>2. h \in Nat /\ h < f
      BY <1>3, <2>2, <2>3, <2>5, <3>1
    <3> QED
      BY <1>2, <2>2, <3>2, FS_Subset
  <2>7. /\ Cardinality(Firsts \cap 1..(h - 1)) <= Cardinality(Firsts \cap 1..(f - 1))
        /\ Cardinality(Firsts \cap 1..(h - 1)) \in Nat
        /\ Cardinality(Firsts \cap 1..(f - 1)) \in Nat
    BY <2>6, FS_Subset, FS_CardinalityType
  <2>8. h \in Picked
    BY <1>5, <1>6, <2>7, RetrievalAssumption
  <2> QED
    BY <1>1, <2>5, <2>8
<1> QED
  BY <1>7, <1>8, <1>9, <1>10

LEMMA RankedMeans ==
  ASSUME QueryInv, pc = "done"
  PROVE  /\ ranked \in Seq(ToRerank) /\ ToSet(ranked) = ToRerank
         /\ DOMAIN ranked = 1..Len(ranked) /\ Len(ranked) \in Nat
         /\ \A i, j \in DOMAIN ranked : ranked[i].node = ranked[j].node => i = j
<1>1. ranked \in Orders(ToRerank)
  BY DEF QueryInv, Phases
<1>2. /\ ranked \in Seq(ToRerank) /\ ToSet(ranked) = ToRerank
      /\ DOMAIN ranked = 1..Len(ranked) /\ Len(ranked) \in Nat
      /\ \A i, j \in DOMAIN ranked : ranked[i] = ranked[j] => i = j
  BY <1>1, ToRerankMeans, OrdersMeans
<1>3. \A i \in DOMAIN ranked : ranked[i] \in ToRerank
  BY <1>2 DEF ToSet
<1> QED
  BY <1>2, <1>3, ToRerankMeans

LEMMA Resolves == QueryInv => SnippetsResolve
<1> SUFFICES ASSUME QueryInv PROVE SnippetsResolve
  OBVIOUS
<1>1. limit \in Nat
  BY RetrievalAssumption
<1>2. CASE pc = "done"
  <2>1. /\ Len(Snippets) <= Len(ranked) /\ Snippets \in Seq(ToRerank)
        /\ \A k \in 1..Len(Snippets) : Snippets[k] = ranked[k]
    BY <1>1, <1>2, RankedMeans, AtMostMeans DEF Snippets
  <2>2. DOMAIN Snippets = 1..Len(Snippets) /\ Len(Snippets) \in Nat
    BY <2>1, LenProperties
  <2>3. \A k \in DOMAIN Snippets : k \in DOMAIN ranked /\ Snippets[k] = ranked[k]
    BY <1>2, <2>1, <2>2, RankedMeans
  <2>4. SnippetsAreDistinct
    BY <1>2, <2>3, RankedMeans DEF SnippetsAreDistinct
  <2>5. \A k \in DOMAIN Snippets : Snippets[k].node \in nodes
    BY <2>1, <2>2, ToRerankMeans, ElementOfSeq
  <2>6. SnippetsAreNodes
    BY <2>5 DEF SnippetsAreNodes, Of, ToSet
  <2> QED
    BY <2>4, <2>6 DEF SnippetsResolve
<1>3. CASE pc # "done"
  <2>1. ranked = <<>>
    BY <1>3 DEF QueryInv, Phases
  <2>2. Snippets \in Seq(Candidate) /\ Len(Snippets) <= 0
    BY <1>1, <2>1, AtMostMeans, NoCandidates DEF Snippets, Candidates
  <2>3. DOMAIN Snippets = {}
    BY <2>2, LenProperties
  <2> QED
    BY <2>3 DEF SnippetsResolve, SnippetsAreDistinct, SnippetsAreNodes, Of, ToSet
<1> QED
  BY <1>2, <1>3

LEMMA RanksDirectHits == QueryInv => DirectHitsAreRanked
<1> SUFFICES ASSUME QueryInv, pc = "done"
             PROVE  Of(ranked) \cap Of(graph) = {} \/ Of(Base) \subseteq Of(ranked)
  BY DEF DirectHitsAreRanked
<1>1. \A n : n \in Of(ranked) <=> \E x \in ToRerank : x.node = n
  BY RankedMeans DEF Of
<1> QED
  BY <1>1, ToRerankMeans

(* The base candidates come best first.                                    *)
LEMMA BaseIsSorted ==
  ASSUME QueryInv, NEW i \in DOMAIN Base, NEW j \in DOMAIN Base, i <= j
  PROVE  Base[j].score <= Base[i].score /\ Base[i].score \in Int /\ Base[j].score \in Int
<1>1. /\ exact \in Candidates /\ semantic \in Candidates /\ Base \in Candidates
      /\ Len(Base) = Len(exact) + Len(semantic)
      /\ \A k \in 1..Len(exact) : Base[k] = exact[k]
      /\ \A k \in 1..Len(semantic) : Base[Len(exact) + k] = semantic[k]
  BY OfConcat DEF QueryInv, Typed, Base
<1>2. /\ DOMAIN exact = 1..Len(exact) /\ Len(exact) \in Nat
      /\ DOMAIN semantic = 1..Len(semantic) /\ Len(semantic) \in Nat
      /\ DOMAIN Base = 1..Len(Base)
      /\ \A k \in DOMAIN Base : Base[k].score \in Int
      /\ \A k \in DOMAIN semantic : semantic[k].score \in Int
  BY <1>1, OfMeans DEF Candidate
<1>3. \A k \in DOMAIN exact : Base[k].score = 20
  BY <1>1, <1>2 DEF QueryInv, Sorted
<1>4. ASSUME NEW k \in DOMAIN semantic
      PROVE  semantic[k].score <= 20
  <2>1. semantic[k].node \in NodeId /\ semantic[k] = Semantic(semantic[k].node)
    BY <1>1, OfMeans DEF Candidate, QueryInv, Sorted
  <2>2. semantic[k].score = Score[semantic[k].node]
    BY <2>1 DEF Semantic
  <2> QED
    BY <2>1, <2>2, ScoreMeans
<1>5. \A k \in DOMAIN Base : k \in DOMAIN exact \/ k - Len(exact) \in DOMAIN semantic
  BY <1>1, <1>2
<1>6. \A k \in DOMAIN Base : k - Len(exact) \in DOMAIN semantic
        => Base[k] = semantic[k - Len(exact)]
  <2>1. \A k \in DOMAIN Base : Len(exact) + (k - Len(exact)) = k
    BY <1>2
  <2> QED
    BY <1>1, <1>2, <2>1
<1>7. CASE i \in DOMAIN exact
  <2>1. CASE j \in DOMAIN exact
    BY <1>2, <1>3, <1>7, <2>1
  <2>2. CASE j - Len(exact) \in DOMAIN semantic
    BY <1>2, <1>3, <1>4, <1>6, <1>7, <2>2
  <2> QED
    BY <1>5, <2>1, <2>2
<1>8. CASE i - Len(exact) \in DOMAIN semantic
  <2>1. j - Len(exact) \in DOMAIN semantic
    BY <1>1, <1>2, <1>8
  <2>2. CASE i = j
    BY <1>2, <2>2
  <2>3. CASE i < j
    <3>1. i - Len(exact) < j - Len(exact)
      BY <1>2, <2>3
    <3>2. semantic[i - Len(exact)].score >= semantic[j - Len(exact)].score
      BY <1>8, <2>1, <3>1 DEF QueryInv, Sorted
    <3> QED
      BY <1>2, <1>6, <1>8, <2>1, <3>2
  <2> QED
    BY <1>2, <2>2, <2>3
<1> QED
  BY <1>5, <1>7, <1>8

LEMMA BestIsFirst == QueryInv => BestEvidence
<1> SUFFICES ASSUME QueryInv, undisturbed, pc = "done", NEW c \in ToSet(graph)
             PROVE  c.score = Max({Discounted(b.score) :
                               b \in {x \in ToSet(Base) : Joined(x.node, c.node)}})
  BY DEF BestEvidence
<1> DEFINE Through == {x \in ToSet(Base) : Joined(x.node, c.node)}
           Scores == {Discounted(b.score) : b \in Through}
<1>1. PICK i \in DOMAIN Base : FirstMet(c, i)
  BY DEF QueryInv, Expansion, ToSet
<1>2. /\ Base \in Candidates /\ DOMAIN Base = 1..Len(Base) /\ Len(Base) \in Nat
      /\ \A k \in DOMAIN Base : Base[k] \in Candidate /\ Base[k].score \in Int
  BY AllMeans, OfMeans DEF Candidate
<1>3. c.score \in Scores
  BY <1>1 DEF FirstMet, ToSet
<1>4. ASSUME NEW b \in Through
      PROVE  Discounted(b.score) \in Int /\ Discounted(b.score) <= c.score
  <2>1. PICK j \in DOMAIN Base : b = Base[j]
    BY DEF ToSet
  <2>2. i <= j
    BY <1>1, <1>2, <2>1 DEF FirstMet
  <2>3. b.score \in Int /\ Base[i].score \in Int /\ b.score <= Base[i].score
    BY <2>1, <2>2, BaseIsSorted
  <2> QED
    BY <1>1, <2>3, DiscountedIsMonotone DEF FirstMet
<1> HIDE DEF Through
<1>5. Scores \in SUBSET Int /\ \A x \in Scores : x <= c.score
  BY <1>4
<1> HIDE DEF Scores
<1>6. Max(Scores) = c.score
  BY <1>3, <1>5, MaxMeans
<1> QED
  BY <1>6 DEF Scores, Through

LEMMA TraversesLayers == QueryInv => TraversalIsLayerComplete
<1> SUFFICES ASSUME QueryInv, NEW id \in NodeId, NEW q \in Queries
             PROVE  LayerComplete(StoredGraph, id, q)
  BY DEF TraversalIsLayerComplete
<1> QED
  BY StoredGraphs, TraversalIsComplete, RetrievalAssumption DEF QueryInv

-----------------------------------------------------------------------------
THEOREM QueryInvHolds == Spec => []QueryInv
<1> QED
  BY QueryInvInit, QueryInvNext, PTL DEF Spec

(* Whatever the index run writes meanwhile, a query shows each node at     *)
(* most once, and only nodes the graph has (pipeline.ts, hydration and     *)
(* mergeCandidates).                                                       *)
THEOREM SnippetsResolveHolds == Spec => []SnippetsResolve
<1> QED
  BY QueryInvHolds, Resolves, PTL

(* The cut of the reranker's input never drops a direct hit and keeps a    *)
(* node the query only reached over the graph.                             *)
THEOREM DirectHitsAreRankedHolds == Spec => []DirectHitsAreRanked
<1> QED
  BY QueryInvHolds, RanksDirectHits, PTL

(* Undisturbed, a node reached over the graph has the score of the best    *)
(* base candidate that leads to it, though expanded from the first.        *)
THEOREM BestEvidenceHolds == Spec => []BestEvidence
<1> QED
  BY QueryInvHolds, BestIsFirst, PTL

(* Every traversal a query may ask of the graph it meets is the smallest   *)
(* sufficient ball around its seed.                                        *)
THEOREM TraversalIsLayerCompleteHolds == Spec => []TraversalIsLayerComplete
<1> QED
  BY QueryInvHolds, TraversesLayers, PTL

-----------------------------------------------------------------------------
(***************************************************************************)
(* The tree.  What an index run has read of it, and what a snippet quotes. *)
(***************************************************************************)
Stages == {"idle", "walking", "reading", "storing", "committed", "threw"}

Snippet == [pc : {"none", "ranking", "quoted"}, file : File \cup {Null},
            name : Names \cup {Null}, row : Stamp \cup {Null},
            from : Place \cup {Null}, seen : Content \cup {Null}, text : Seq(Lines)]

(* Directories the walk may enter, and what it then lists.                 *)
Open == {d \in Dir : d \notin Dotted \cup Skipped /\ Above[d] \cap (Dotted \cup Skipped) = {}}

Listable == {f \in File : f \notin Dotted /\ Above[f] \cap (Dotted \cup Skipped) = {}}

TreeTyped ==
  /\ disk \in [File -> Content \cup {Null}] /\ locked \subseteq Dir
  /\ place \in Place /\ edits \in 0..MaxEdits
  /\ stage \in [Run -> Stages] /\ from \in [Run -> Place \cup {Null}]
  /\ dirs \in [Run -> Seq(Dir)] /\ found \in [Run -> SUBSET File]
  /\ got \in [Run -> UNION {[D -> Content] : D \in SUBSET File}]
  /\ DOMAIN hash = Run
  /\ stamped \in [File \X Names -> Stamp \cup {Null}]
  /\ snippet \in Snippet
  /\ was \in [Run -> [File -> SUBSET (Content \cup {Null})]]
  /\ quiet \subseteq Run

(* An active run's history has what it would read now, and what it has     *)
(* read it read from its history.                                          *)
HistoryIsKept(r) ==
  /\ r \in Active => \A f \in File : Now(f, from[r]) \in was[r][f]
  /\ \A f \in DOMAIN got[r] : f \in Indexable /\ got[r][f] \in was[r][f]

Unreachable(r, f) == Null \in was[r][f]

OnTheWay(r, f) == \E k \in DOMAIN dirs[r] : dirs[r][k] \in Above[f]

(* The walk has found a file, or a directory on the way to it is still to  *)
(* be listed, or there was a moment when it could not have been found.     *)
WalkCovers(r) ==
  stage[r] = "walking" =>
    /\ \A k \in DOMAIN dirs[r] : dirs[r][k] \in Open
    /\ found[r] \subseteq Listable /\ DOMAIN got[r] = {}
    /\ \A f \in Indexable : f \in found[r] \/ OnTheWay(r, f) \/ Unreachable(r, f)

ReadsCover(r) ==
  /\ stage[r] = "idle" => DOMAIN got[r] = {} /\ found[r] = {}
  /\ stage[r] \in {"reading", "storing", "committed"} =>
       /\ found[r] \subseteq Indexable
       /\ stage[r] # "reading" => found[r] = {}
       /\ \A f \in Indexable : f \in found[r] \/ f \in DOMAIN got[r] \/ Unreachable(r, f)

RunInv(r) == HistoryIsKept(r) /\ WalkCovers(r) /\ ReadsCover(r)

(* Nothing happened beside a quiet run.                                    *)
QuietIsAlone ==
  \A r \in quiet :
    /\ Active \subseteq {r} /\ stage[r] # "idle" /\ from[r] = place
    /\ \A f \in File : was[r][f] = {Now(f, place)}
    /\ stage[r] \in {"storing", "committed"} => hash[r] = HashOf(got[r], place)
    /\ stage[r] = "committed" => \A f \in File, n \in Names :
         Stored(r, f, n) => /\ stamped[<<f, n>>] # Null
                            /\ stamped[<<f, n>>].lines = Evidence(got[r][f], n)

(* What a stamp says of its batch.                                         *)
IsTrue(s, f, n) ==
  /\ s \in Stamp /\ stage[s.batch] = "committed"
  /\ Stored(s.batch, f, n) /\ s.lines = Evidence(got[s.batch][f], n)

StampsAreTrue ==
  /\ \A f \in File, n \in Names : stamped[<<f, n>>] # Null => IsTrue(stamped[<<f, n>>], f, n)
  /\ snippet.pc # "none" =>
       /\ snippet.file \in File /\ snippet.name \in Names
       /\ IsTrue(snippet.row, snippet.file, snippet.name)
  /\ snippet.pc = "quoted" =>
       snippet.text = IF snippet.seen = Null THEN <<>>
                                             ELSE Sliced(snippet.seen, snippet.row.lines)

TreeInv == TreeTyped /\ (\A r \in Run : RunInv(r)) /\ QuietIsAlone /\ StampsAreTrue

-----------------------------------------------------------------------------
(* The way to an entry.                                                    *)
LEMMA AboveIsUpward ==
  ASSUME NEW e \in File \cup Dir
  PROVE  /\ Above[e] \subseteq Dir /\ Upward(e, Above[e])
         /\ \A S \in SUBSET Dir : Upward(e, S) => Above[e] \subseteq S
<1>1. Above[e] = {d \in Dir : \A S \in SUBSET Dir : Upward(e, S) => d \in S}
  BY DEF Above
<1>2. Upward(e, Above[e])
  <2> SUFFICES ASSUME NEW x \in ({e} \cup Above[e]) \ {Root}
               PROVE  In[x] \in Above[e]
    BY DEF Upward
  <2>1. x \in File \cup (Dir \ {Root})
    BY <1>1
  <2>2. In[x] \in Dir
    BY <2>1, TreeAssumption
  <2>3. \A S \in SUBSET Dir : Upward(e, S) => In[x] \in S
    BY <1>1 DEF Upward
  <2> QED
    BY <1>1, <2>2, <2>3
<1> QED
  BY <1>1, <1>2

LEMMA RootIsTop == Above[Root] = {}
<1>1. Upward(Root, {})
  BY DEF Upward
<1>2. Root \in File \cup Dir
  BY TreeAssumption
<1> QED
  BY <1>1, <1>2, AboveIsUpward

LEMMA AboveUnfolds ==
  ASSUME NEW e \in DOMAIN In
  PROVE  In[e] \in Dir /\ Above[e] = {In[e]} \cup Above[In[e]]
<1>1. e \in File \cup Dir /\ e # Root /\ In[e] \in Dir
  BY TreeAssumption
<1> DEFINE S == {In[e]} \cup Above[In[e]]
<1>2. Upward(e, S) /\ S \in SUBSET Dir
  BY <1>1, AboveIsUpward DEF Upward
<1>3. Above[e] \subseteq S
  BY <1>1, <1>2, AboveIsUpward
<1>4. In[e] \in Above[e] /\ Upward(In[e], Above[e]) /\ Above[e] \in SUBSET Dir
  BY <1>1, AboveIsUpward DEF Upward
<1>5. S \subseteq Above[e]
  BY <1>1, <1>4, AboveIsUpward
<1> QED
  BY <1>1, <1>3, <1>5

LEMMA AboveIsTransitive ==
  ASSUME NEW e \in File \cup Dir, NEW d \in Above[e]
  PROVE  d \in Dir /\ Above[d] \subseteq Above[e]
<1>1. d \in Dir /\ Above[e] \in SUBSET Dir /\ Upward(d, Above[e])
  BY AboveIsUpward DEF Upward
<1> QED
  BY <1>1, AboveIsUpward

(* From a directory on the way one comes to the next one.                  *)
LEMMA NextOnTheWay ==
  ASSUME NEW e \in DOMAIN In, NEW d \in Above[e], In[e] # d
  PROVE  \E x \in Above[e] \ {Root} : In[x] = d
<1> DEFINE S == Above[e] \ {d}
<1>1. e \in File \cup Dir
  BY TreeAssumption
<1> SUFFICES ASSUME \A x \in Above[e] \ {Root} : In[x] # d
             PROVE  FALSE
  OBVIOUS
<1>2. S \in SUBSET Dir /\ Upward(e, S)
  BY <1>1, AboveIsUpward DEF Upward
<1> QED
  BY <1>1, <1>2, AboveIsUpward

LEMMA OpenDescends ==
  ASSUME NEW d \in Open, NEW e \in Dir \ {Root}, In[e] = d, e \notin Dotted \cup Skipped
  PROVE  e \in Open
<1>1. e \in DOMAIN In
  BY TreeAssumption
<1>2. Above[e] = {d} \cup Above[d]
  BY <1>1, AboveUnfolds
<1> QED
  BY <1>2 DEF Open

LEMMA WaysAreOpen ==
  ASSUME NEW f \in Indexable
  PROVE  /\ f \in File /\ f \in DOMAIN In /\ Root \in Above[f]
         /\ Above[f] \subseteq Open /\ f \in Listable
<1>1. f \in File /\ f \in DOMAIN In
  BY TreeAssumption DEF Indexable
<1>2. Root \in Above[f]
  BY <1>1, IsTree
<1>3. ASSUME NEW d \in Above[f]
      PROVE  d \in Open
  BY <1>1, <1>3, AboveIsTransitive DEF Open, Indexable
<1> QED
  BY <1>1, <1>2, <1>3 DEF Listable, Indexable

LEMMA RootIsOpen == Root \in Open
<1>1. Root \notin Dotted \cup Skipped /\ Root \in Dir
  BY TreeAssumption
<1> QED
  BY <1>1, RootIsTop DEF Open

(* What reading a file gives, now.                                         *)
LEMMA NowMeans ==
  ASSUME TreeTyped, NEW f \in File, NEW at
  PROVE  /\ Now(f, at) \in Content \cup {Null}
         /\ Now(f, at) # Null <=> Readable(f, at)
         /\ Readable(f, at) => Now(f, at) = disk[f] /\ disk[f] \in Content
  BY TreeAssumption DEF TreeTyped, Now, Readable

LEMMA NowStays ==
  ASSUME UNCHANGED tree
  PROVE  \A f, at : Now(f, at)' = Now(f, at) /\ Readable(f, at)' = Readable(f, at)
  BY DEF tree, Now, Readable

-----------------------------------------------------------------------------
LEMMA TreeInvInit == TreeInit => TreeInv
<1> SUFFICES ASSUME TreeInit PROVE TreeInv
  OBVIOUS
<1>1. DOMAIN <<>> = {} /\ <<>> \in [{} -> Content] /\ <<>> \in Seq(Dir)
  OBVIOUS
<1>2. TreeTyped
  <2>1. got \in [Run -> UNION {[D -> Content] : D \in SUBSET File}]
    BY <1>1 DEF TreeInit
  <2>2. snippet \in Snippet
    BY DEF TreeInit, NoSnippet, Snippet
  <2>3. stamped \in [File \X Names -> Stamp \cup {Null}]
    BY DEF TreeInit
  <2>4. disk \in [File -> Content \cup {Null}] /\ edits \in 0..MaxEdits
    BY TreeAssumption DEF TreeInit
  <2>5. /\ stage \in [Run -> Stages] /\ from \in [Run -> Place \cup {Null}]
        /\ dirs \in [Run -> Seq(Dir)] /\ found \in [Run -> SUBSET File]
    BY <1>1 DEF TreeInit, Stages
  <2>6. DOMAIN hash = Run /\ was \in [Run -> [File -> SUBSET (Content \cup {Null})]]
    BY DEF TreeInit
  <2> QED
    BY <2>1, <2>2, <2>3, <2>4, <2>5, <2>6 DEF TreeInit, TreeTyped
<1>3. \A r \in Run : stage[r] = "idle" /\ DOMAIN got[r] = {} /\ found[r] = {}
  BY <1>1 DEF TreeInit
<1>4. \A r \in Run : RunInv(r)
  BY <1>3 DEF RunInv, HistoryIsKept, WalkCovers, ReadsCover, Active
<1>5. QuietIsAlone
  BY DEF TreeInit, QuietIsAlone
<1>6. StampsAreTrue
  BY DEF TreeInit, StampsAreTrue, NoSnippet
<1> QED
  BY <1>2, <1>4, <1>5, <1>6 DEF TreeInv

(* The developer.                                                          *)
LEMMA ChangeKeeps ==
  ASSUME TreeInv, NEW newDisk \in [File -> Content \cup {Null}], NEW newLocked \in SUBSET Dir,
         NEW newPlace \in Place, Change(newDisk, newLocked, newPlace)
  PROVE  TreeInv'
<1>1. /\ disk' = newDisk /\ locked' = newLocked /\ place' = newPlace
      /\ edits < MaxEdits /\ edits' = edits + 1 /\ quiet' = {}
      /\ UNCHANGED <<stage, from, dirs, found, got, hash, stamped, snippet>>
  BY DEF Change, runs
<1>2. was' = [r \in Run |-> [f \in File |->
               IF r \in Active THEN was[r][f] \cup {Now(f, from[r])'} ELSE was[r][f]]]
  BY DEF Change
<1>3. TreeTyped
  BY DEF TreeInv
<1>4. ASSUME NEW r \in Run, NEW f \in File
      PROVE  /\ was[r][f] \subseteq was'[r][f]
             /\ r \in Active => Now(f, from[r])' \in was'[r][f]
  BY <1>2
<1>5. TreeTyped'
  <2>1. \A f \in File, r \in Run : Now(f, from[r])' \in Content \cup {Null}
    BY <1>1 DEF Now, Readable
  <2>2. was' \in [Run -> [File -> SUBSET (Content \cup {Null})]]
    BY <1>2, <1>3, <2>1 DEF TreeTyped
  <2>3. edits' \in 0..MaxEdits
    BY <1>1, <1>3, TreeAssumption DEF TreeTyped
  <2> QED
    BY <1>1, <1>3, <2>2, <2>3 DEF TreeTyped
<1>6. ASSUME NEW r \in Run
      PROVE  RunInv(r)'
  <2>1. RunInv(r) /\ Active' = Active
    BY <1>1 DEF TreeInv, Active
  <2>2. HistoryIsKept(r)'
    <3>1. \A f \in DOMAIN got[r] : f \in Indexable /\ f \in File /\ got[r][f] \in was[r][f]
      BY <2>1, WaysAreOpen DEF RunInv, HistoryIsKept
    <3> QED
      BY <1>1, <1>4, <2>1, <3>1 DEF HistoryIsKept
  <2>3. \A f \in Indexable : Unreachable(r, f) => Unreachable(r, f)'
    BY <1>4, WaysAreOpen DEF Unreachable
  <2>4. WalkCovers(r)' /\ ReadsCover(r)'
    BY <1>1, <2>1, <2>3 DEF RunInv, WalkCovers, ReadsCover, OnTheWay
  <2> QED
    BY <2>2, <2>4 DEF RunInv
<1>9. QuietIsAlone'
  BY <1>1 DEF QuietIsAlone
<1>10. StampsAreTrue'
  BY <1>1 DEF TreeInv, StampsAreTrue, IsTrue, Stored
<1> QED
  BY <1>5, <1>6, <1>9, <1>10 DEF TreeInv

(* The index runs.  What a step of r leaves of the others.                 *)
Others(r) ==
  \A q \in Run \ {r} :
    /\ stage'[q] = stage[q] /\ from'[q] = from[q] /\ dirs'[q] = dirs[q]
    /\ found'[q] = found[q] /\ got'[q] = got[q] /\ hash'[q] = hash[q]

LEMMA StampsStay ==
  ASSUME TreeInv, NEW r \in Run, Others(r), stage[r] # "committed",
         UNCHANGED <<stamped, snippet>>
  PROVE  StampsAreTrue'
<1>1. ASSUME NEW s, NEW f, NEW n, IsTrue(s, f, n)
      PROVE  IsTrue(s, f, n)'
  <2>1. s.batch \in Run /\ s.batch # r
    BY <1>1 DEF IsTrue, Stamp
  <2> QED
    BY <1>1, <2>1 DEF IsTrue, Others, Stored
<1> QED
  BY <1>1 DEF TreeInv, StampsAreTrue

LEMMA OthersKeep ==
  ASSUME TreeInv, NEW r \in Run, Others(r), UNCHANGED tree,
         NEW q \in Run \ {r}, was'[q] = was[q]
  PROVE  RunInv(q)'
<1>1. /\ stage'[q] = stage[q] /\ from'[q] = from[q] /\ dirs'[q] = dirs[q]
      /\ found'[q] = found[q] /\ got'[q] = got[q] /\ (q \in Active' <=> q \in Active)
  BY DEF Others, Active
<1>2. \A f : Now(f, from[q])' = Now(f, from[q])
  BY <1>1, NowStays DEF Now, Readable, tree
<1>3. RunInv(q)
  BY DEF TreeInv
<1> QED
  BY <1>1, <1>2, <1>3
     DEF RunInv, HistoryIsKept, WalkCovers, ReadsCover, OnTheWay, Unreachable

LEMMA StartKeeps ==
  ASSUME TreeInv, NEW r \in Run, Start(r)
  PROVE  TreeInv'
<1>1. /\ stage[r] = "idle" /\ stage' = [stage EXCEPT ![r] = "walking"]
      /\ from' = [from EXCEPT ![r] = place] /\ dirs' = [dirs EXCEPT ![r] = <<Root>>]
      /\ was' = [was EXCEPT ![r] = [f \in File |-> {Now(f, place)}]]
      /\ quiet' = IF Active = {} THEN {r} ELSE {}
      /\ UNCHANGED <<disk, locked, place, edits, found, got, hash, stamped, snippet>>
  BY DEF Start, Goto, tree
<1>2. TreeTyped
  BY DEF TreeInv
<1>3. \A f, at : Now(f, at)' = Now(f, at)
  BY <1>1, NowStays DEF tree
<1>4. /\ stage'[r] = "walking" /\ from'[r] = place /\ dirs'[r] = <<Root>>
      /\ was'[r] = [f \in File |-> {Now(f, place)}]
      /\ \A q \in Run \ {r} : was'[q] = was[q]
  BY <1>1, <1>2 DEF TreeTyped
<1>5. Others(r)
  BY <1>1, <1>2 DEF TreeTyped, Others
<1>6. DOMAIN got[r] = {} /\ found[r] = {}
  BY <1>1 DEF TreeInv, RunInv, ReadsCover
<1>7. TreeTyped'
  <2>1. <<Root>> \in Seq(Dir)
    BY TreeAssumption
  <2>2. \A f \in File : Now(f, place) \in Content \cup {Null}
    BY <1>2, NowMeans
  <2>3. was' \in [Run -> [File -> SUBSET (Content \cup {Null})]]
    BY <1>1, <1>2, <2>2 DEF TreeTyped
  <2>4. /\ stage' \in [Run -> Stages] /\ from' \in [Run -> Place \cup {Null}]
        /\ dirs' \in [Run -> Seq(Dir)] /\ quiet' \subseteq Run
    BY <1>1, <1>2, <2>1 DEF TreeTyped, Stages
  <2> QED
    BY <1>1, <1>2, <2>3, <2>4 DEF TreeTyped
<1>8. RunInv(r)'
  <2>1. HistoryIsKept(r)'
    <3>1. \A f \in File : Now(f, from[r])' \in was'[r][f]
      BY <1>3, <1>4 DEF Now, Readable
    <3> QED
      BY <1>1, <1>6, <3>1 DEF HistoryIsKept
  <2>2. WalkCovers(r)'
    <3>1. DOMAIN dirs'[r] = {1} /\ dirs'[r][1] = Root
      BY <1>4
    <3>2. \A f \in Indexable : OnTheWay(r, f)'
      BY <3>1, WaysAreOpen DEF OnTheWay
    <3> QED
      BY <1>1, <1>6, <3>1, <3>2, RootIsOpen DEF WalkCovers
  <2> QED
    BY <1>4, <2>1, <2>2 DEF RunInv, ReadsCover
<1>9. \A q \in Run \ {r} : RunInv(q)'
  BY <1>1, <1>4, <1>5, OthersKeep DEF tree
<1>10. QuietIsAlone'
  <2>1. ASSUME NEW q \in quiet'
        PROVE  q = r /\ Active' \subseteq {r}
    <3>1. q = r /\ Active = {}
      BY <1>1, <2>1
    <3> QED
      BY <1>1, <1>2, <3>1 DEF Active, TreeTyped
  <2>2. \A f \in File : was'[r][f] = {Now(f, place)'}
    BY <1>1, <1>3, <1>4 DEF Now, Readable
  <2> QED
    BY <1>1, <1>4, <2>1, <2>2 DEF QuietIsAlone
<1>11. StampsAreTrue'
  BY <1>1, <1>5, StampsStay
<1> QED
  BY <1>7, <1>8, <1>9, <1>10, <1>11 DEF TreeInv

(* A step of an active run that leaves the tree alone keeps what is said   *)
(* of the other runs and of the quiet ones.                                *)
LEMMA QuietStays ==
  ASSUME TreeInv, NEW r \in Active, Others(r), from'[r] = from[r],
         UNCHANGED <<disk, locked, place, was, quiet>>,
         stage'[r] \in {"walking", "reading", "threw"}
  PROVE  QuietIsAlone'
<1>1. ASSUME NEW q \in quiet
      PROVE  /\ q = r /\ Active' \subseteq {r} /\ from'[r] = place'
             /\ \A f \in File : was'[r][f] = {Now(f, place)'}
  <2>1. q = r /\ Active \subseteq {r} /\ from[r] = place
        /\ \A f \in File : was[r][f] = {Now(f, place)}
    BY DEF TreeInv, QuietIsAlone
  <2>2. Active' \subseteq {r}
    BY <2>1 DEF Active, Others
  <2> QED
    BY <2>1, <2>2 DEF Now, Readable
<1> QED
  BY <1>1 DEF QuietIsAlone

LEMMA WalkedKeeps ==
  ASSUME TreeInv, NEW r \in Run, Walked(r)
  PROVE  TreeInv'
<1>1. /\ stage[r] = "walking" /\ dirs[r] = <<>> /\ stage' = [stage EXCEPT ![r] = "reading"]
      /\ found' = [found EXCEPT ![r] = @ \cap Supported]
      /\ UNCHANGED <<disk, locked, place, edits, from, dirs, got, hash, stamped,
                     snippet, was, quiet>>
  BY DEF Walked, Goto, tree
<1>2. TreeTyped
  BY DEF TreeInv
<1>3. stage'[r] = "reading" /\ found'[r] = found[r] \cap Supported /\ r \in Active
  BY <1>1, <1>2 DEF TreeTyped, Active
<1>4. Others(r)
  BY <1>1, <1>2 DEF TreeTyped, Others
<1>5. TreeTyped'
  BY <1>1, <1>2 DEF TreeTyped, Stages
<1>6. RunInv(r)'
  <2>1. RunInv(r)
    BY DEF TreeInv
  <2>2. HistoryIsKept(r)'
    BY <1>1, <1>3, <2>1 DEF RunInv, HistoryIsKept, Now, Readable
  <2>3. ReadsCover(r)'
    <3>1. found'[r] \subseteq Indexable
      BY <1>1, <1>3, <2>1 DEF RunInv, WalkCovers, Listable, Indexable
    <3>2. \A f \in Indexable : f \in found'[r] \/ Unreachable(r, f)'
      <4>1. \A f : ~OnTheWay(r, f)
        BY <1>1 DEF OnTheWay
      <4> QED
        BY <1>1, <1>3, <2>1, <4>1 DEF RunInv, WalkCovers, Unreachable, Indexable
    <3> QED
      BY <1>3, <3>1, <3>2 DEF ReadsCover
  <2> QED
    BY <1>3, <2>2, <2>3 DEF RunInv, WalkCovers
<1>7. \A q \in Run \ {r} : RunInv(q)'
  BY <1>1, <1>4, OthersKeep DEF tree
<1>8. QuietIsAlone'
  BY <1>1, <1>3, <1>4, QuietStays
<1>9. StampsAreTrue'
  BY <1>1, <1>4, StampsStay
<1> QED
  BY <1>5, <1>6, <1>7, <1>8, <1>9 DEF TreeInv

LEMMA QueueMeans ==
  ASSUME NEW X, NEW s \in Seq(X), s # <<>>, NEW o \in Seq(X)
  PROVE  /\ Tail(s) \in Seq(X) /\ o \o Tail(s) \in Seq(X)
         /\ ToSet(s) = {Head(s)} \cup ToSet(Tail(s)) /\ Head(s) \in X
         /\ ToSet(o \o Tail(s)) = ToSet(o) \cup ToSet(Tail(s))
<1>1. /\ Tail(s) \in Seq(X) /\ Head(s) = s[1] /\ Head(s) \in X /\ 1 \in DOMAIN s
      /\ Len(Tail(s)) = Len(s) - 1 /\ \A k \in 1..Len(Tail(s)) : Tail(s)[k] = s[k + 1]
      /\ DOMAIN s = 1..Len(s) /\ DOMAIN Tail(s) = 1..Len(Tail(s))
      /\ Len(s) \in Nat /\ Len(Tail(s)) \in Nat
  OBVIOUS
<1>2. ASSUME NEW k \in DOMAIN s, k # 1
      PROVE  k - 1 \in DOMAIN Tail(s) /\ Tail(s)[k - 1] = s[k]
  BY <1>1, <1>2
<1>3. ToSet(s) = {Head(s)} \cup ToSet(Tail(s))
  <2>1. \A k \in DOMAIN Tail(s) : k + 1 \in DOMAIN s /\ Tail(s)[k] = s[k + 1]
    BY <1>1
  <2>2. ASSUME NEW x \in ToSet(s)
        PROVE  x = Head(s) \/ x \in ToSet(Tail(s))
    <3>1. PICK k \in DOMAIN s : x = s[k]
      BY DEF ToSet
    <3> QED
      BY <1>1, <1>2, <3>1 DEF ToSet
  <2>3. {Head(s)} \cup ToSet(Tail(s)) \subseteq ToSet(s)
    BY <1>1, <2>1 DEF ToSet
  <2> QED
    BY <2>2, <2>3
<1>4. o \o Tail(s) \in Seq(X)
  BY <1>1
<1>5. Range(o \o Tail(s)) = Range(o) \cup Range(Tail(s))
  BY <1>1, RangeConcatenation
<1>6. \A u : ToSet(u) = Range(u)
  BY DEF ToSet, Range
<1> QED
  BY <1>1, <1>3, <1>4, <1>5, <1>6

(* What is listed of a directory on the way leads on.                      *)
LEMMA ListingLeadsOn ==
  ASSUME TreeTyped, NEW f \in Indexable, NEW d \in Above[f], NEW at
  PROVE  \/ f \in Listed(d) \/ (\E e \in Entered(d) : e \in Above[f])
         \/ Now(f, at) = Null
<1>1. f \in File /\ f \in DOMAIN In /\ f \notin Dotted /\ Above[f] \subseteq Open
  BY WaysAreOpen DEF Listable
<1>2. CASE In[f] = d
  BY <1>1, <1>2 DEF Listed, Children, Now, Readable
<1>3. CASE In[f] # d
  <2>1. PICK e \in Above[f] \ {Root} : In[e] = d
    BY <1>1, <1>3, NextOnTheWay
  <2>2. e \in Dir /\ e \in DOMAIN In /\ e \notin Dotted \cup Skipped
    BY <1>1, <2>1, TreeAssumption DEF Open
  <2> QED
    BY <2>1, <2>2 DEF Entered, Children
<1> QED
  BY <1>2, <1>3

(* A directory that cannot be listed hides what is below it.               *)
LEMMA LockedHides ==
  ASSUME NEW f \in Indexable, NEW d \in Above[f], NEW at, ~CanList(d, at)
  PROVE  Now(f, at) = Null
<1>1. f \in File \cup Dir
  BY WaysAreOpen
<1>2. {d} \cup Above[d] \subseteq Above[f]
  BY <1>1, AboveIsTransitive
<1> QED
  BY <1>2 DEF CanList, Now, Readable

LEMMA WalkKeeps ==
  ASSUME TreeInv, NEW r \in Run, Walk(r)
  PROVE  TreeInv'
<1> DEFINE d == Head(dirs[r])
           rest == Tail(dirs[r])
<1>1. /\ stage[r] = "walking" /\ dirs[r] # <<>>
      /\ UNCHANGED <<disk, locked, place, edits, stage, from, got, hash, stamped,
                     snippet, was, quiet>>
  BY DEF Walk, tree
<1>2. TreeTyped /\ RunInv(r) /\ r \in Active
  BY <1>1 DEF TreeInv, Active
<1>3. PICK order \in Seq(Dir) :
        /\ dirs' = [dirs EXCEPT ![r] = order \o rest]
        /\ \/ /\ CanList(d, from[r]) /\ ToSet(order) = Entered(d)
              /\ found' = [found EXCEPT ![r] = @ \cup Listed(d)]
           \/ ~CanList(d, from[r]) /\ order = <<>> /\ UNCHANGED found
  <2>1. CASE CanList(d, from[r])
    <3>1. PICK order \in SetToSeqs(Entered(d)) : dirs' = [dirs EXCEPT ![r] = order \o rest]
      BY <2>1 DEF Walk
    <3>2. IsFiniteSet(Entered(d)) /\ Entered(d) \subseteq Dir
      BY TreeAssumption, FS_Subset DEF Entered
    <3>3. order \in Seq(Entered(d)) /\ ToSet(order) = Entered(d)
      BY <3>1, <3>2, OrdersMeans DEF Orders
    <3>4. order \in Seq(Dir)
      BY <3>2, <3>3
    <3> QED
      BY <2>1, <3>1, <3>3, <3>4 DEF Walk
  <2>2. CASE ~CanList(d, from[r])
    <3>1. rest \in Seq(Dir) /\ <<>> \in Seq(Dir)
      BY <1>1, <1>2, QueueMeans DEF TreeTyped
    <3>2. <<>> \o rest = rest
      BY <3>1
    <3> QED
      BY <2>2, <3>1, <3>2 DEF Walk, PassOver
  <2> QED
    BY <2>1, <2>2
<1>4. /\ dirs'[r] = order \o rest /\ dirs[r] \in Seq(Dir)
      /\ found'[r] = IF CanList(d, from[r]) THEN found[r] \cup Listed(d) ELSE found[r]
  BY <1>2, <1>3 DEF TreeTyped
<1>5. /\ dirs'[r] \in Seq(Dir) /\ d \in Dir
      /\ ToSet(dirs[r]) = {d} \cup ToSet(rest)
      /\ ToSet(dirs'[r]) = ToSet(order) \cup ToSet(rest)
  BY <1>1, <1>4, QueueMeans
<1>6. Others(r)
  BY <1>1, <1>2, <1>3 DEF TreeTyped, Others
<1>7. TreeTyped'
  <2>1. dirs' \in [Run -> Seq(Dir)]
    BY <1>2, <1>3, <1>4, <1>5 DEF TreeTyped
  <2>2. found' \in [Run -> SUBSET File]
    <3>1. Listed(d) \subseteq File
      BY DEF Listed
    <3>2. found \in [Run -> SUBSET File]
      BY <1>2 DEF TreeTyped
    <3> QED
      BY <1>3, <3>1, <3>2
  <2> QED
    BY <1>1, <1>2, <2>1, <2>2 DEF TreeTyped
<1>8. RunInv(r)'
  <2>1. /\ \A x \in ToSet(dirs[r]) : x \in Open
        /\ found[r] \subseteq Listable /\ DOMAIN got[r] = {}
        /\ \A f \in Indexable : \/ f \in found[r] \/ Unreachable(r, f)
                                \/ \E x \in ToSet(dirs[r]) : x \in Above[f]
    BY <1>1, <1>2 DEF RunInv, WalkCovers, OnTheWay, ToSet
  <2>2. d \in Open
    BY <1>5, <2>1
  <2>3. \A x \in ToSet(dirs'[r]) : x \in Open
    <3>1. ToSet(order) \subseteq Open
      <4>1. CASE order = <<>>
        BY <4>1 DEF ToSet
      <4>2. CASE ToSet(order) = Entered(d)
        <5>1. \A e \in Entered(d) : e \in Dir \ {Root} /\ In[e] = d /\ e \notin Dotted \cup Skipped
          BY TreeAssumption DEF Entered, Children
        <5> QED
          BY <2>2, <4>2, <5>1, OpenDescends
      <4> QED
        BY <1>3, <4>1, <4>2
    <3> QED
      BY <1>5, <2>1, <3>1
  <2>4. found'[r] \subseteq Listable
    <3>1. Listed(d) \subseteq Listable
      <4> SUFFICES ASSUME NEW f \in Listed(d) PROVE f \in Listable
        OBVIOUS
      <4>1. f \in File /\ f \in DOMAIN In /\ In[f] = d /\ f \notin Dotted
        BY DEF Listed, Children
      <4>2. Above[f] = {d} \cup Above[d]
        BY <4>1, AboveUnfolds
      <4> QED
        BY <2>2, <4>1, <4>2 DEF Open, Listable
    <3> QED
      BY <1>4, <2>1, <3>1
  <2>5. ASSUME NEW f \in Indexable
        PROVE  \/ f \in found'[r] \/ Unreachable(r, f)
               \/ \E x \in ToSet(dirs'[r]) : x \in Above[f]
    <3>1. CASE d \in Above[f]
      <4>1. f \in File
        BY WaysAreOpen
      <4>2. Now(f, from[r]) = Null => Unreachable(r, f)
        BY <1>2, <4>1 DEF RunInv, HistoryIsKept, Unreachable
      <4>3. CASE CanList(d, from[r])
        BY <1>2, <1>3, <1>4, <1>5, <3>1, <4>2, <4>3, ListingLeadsOn
      <4>4. CASE ~CanList(d, from[r])
        BY <3>1, <4>2, <4>4, LockedHides
      <4> QED
        BY <4>3, <4>4
    <3>2. CASE d \notin Above[f]
      BY <1>4, <1>5, <2>1, <3>2
    <3> QED
      BY <3>1, <3>2
  <2>6. WalkCovers(r)'
    BY <1>1, <2>1, <2>3, <2>4, <2>5 DEF WalkCovers, OnTheWay, Unreachable, ToSet
  <2>7. HistoryIsKept(r)' /\ ReadsCover(r)'
    BY <1>1, <1>2, <2>1 DEF RunInv, HistoryIsKept, ReadsCover, Active, Now, Readable
  <2> QED
    BY <2>6, <2>7 DEF RunInv
<1>9. \A q \in Run \ {r} : RunInv(q)'
  BY <1>1, <1>6, OthersKeep DEF tree
<1>10. QuietIsAlone'
  BY <1>1, <1>2, <1>6, QuietStays
<1>11. StampsAreTrue'
  BY <1>1, <1>6, StampsStay
<1> QED
  BY <1>7, <1>8, <1>9, <1>10, <1>11 DEF TreeInv

LEMMA FirstIsFound ==
  ASSUME NEW S \in SUBSET File, S # {}
  PROVE  FirstOf(S) \in S
<1> DEFINE I == {k \in DOMAIN Order : Order[k] \in S}
<1>1. DOMAIN Order = 1..Len(Order) /\ Len(Order) \in Nat
  BY TreeAssumption
<1>2. I \in SUBSET Nat /\ I # {}
  BY <1>1, TreeAssumption DEF ToSet
<1>3. PICK m \in I : \A k \in I : m <= k
  <2> HIDE DEF I
  <2> QED
    BY <1>2, LeastNatural
<1>4. Min(I) \in I
  <2> HIDE DEF I
  <2> QED
    BY <1>3 DEF Min
<1> QED
  BY <1>4 DEF FirstOf

LEMMA ReadFileKeeps ==
  ASSUME TreeInv, NEW r \in Run, ReadFile(r)
  PROVE  TreeInv'
<1> DEFINE f == FirstOf(found[r])
<1>1. /\ stage[r] = "reading" /\ found[r] # {}
      /\ UNCHANGED <<disk, locked, place, edits, from, dirs, hash, stamped, snippet, was, quiet>>
  BY DEF ReadFile, tree
<1>2. TreeTyped /\ RunInv(r) /\ r \in Active
  BY <1>1 DEF TreeInv, Active
<1>3. f \in found[r] /\ f \in File /\ found[r] \subseteq Indexable /\ f \in Indexable
  BY <1>1, <1>2, FirstIsFound DEF TreeTyped, RunInv, ReadsCover
<1>4. CASE Readable(f, from[r])
  <2>1. /\ got' = [got EXCEPT ![r] = [g \in DOMAIN @ \cup {f} |->
                      IF g = f THEN disk[f] ELSE got[r][g]]]
        /\ found' = [found EXCEPT ![r] = @ \ {f}] /\ UNCHANGED stage
    BY <1>4 DEF ReadFile
  <2>2. /\ got'[r] = [g \in DOMAIN got[r] \cup {f} |-> IF g = f THEN disk[f] ELSE got[r][g]]
        /\ found'[r] = found[r] \ {f}
    BY <1>2, <2>1 DEF TreeTyped
  <2>3. disk[f] = Now(f, from[r]) /\ disk[f] \in Content /\ Now(f, from[r]) \in was[r][f]
    BY <1>2, <1>3, <1>4, NowMeans DEF RunInv, HistoryIsKept
  <2>4. Others(r)
    BY <1>1, <1>2, <2>1 DEF TreeTyped, Others
  <2>5. TreeTyped'
    <3>1. PICK D \in SUBSET File : got[r] \in [D -> Content]
      BY <1>2 DEF TreeTyped
    <3>2. got'[r] \in [D \cup {f} -> Content] /\ D \cup {f} \in SUBSET File
      BY <1>3, <2>2, <2>3, <3>1
    <3>3. got'[r] \in UNION {[E -> Content] : E \in SUBSET File}
      BY <3>2
    <3>4. got' \in [Run -> UNION {[E -> Content] : E \in SUBSET File}]
      BY <1>2, <2>1, <2>2, <3>3 DEF TreeTyped
    <3>5. found' \in [Run -> SUBSET File]
      BY <1>2, <2>1 DEF TreeTyped
    <3> QED
      BY <1>1, <1>2, <2>1, <3>4, <3>5 DEF TreeTyped
  <2>6. RunInv(r)'
    <3>1. HistoryIsKept(r)'
      <4>1. \A g \in DOMAIN got'[r] : g \in Indexable /\ got'[r][g] \in was[r][g]
        BY <1>2, <1>3, <2>2, <2>3 DEF RunInv, HistoryIsKept
      <4> QED
        BY <1>1, <1>2, <2>1, <4>1 DEF RunInv, HistoryIsKept, Active, Now, Readable
    <3>2. ReadsCover(r)'
      <4>1. DOMAIN got'[r] = DOMAIN got[r] \cup {f}
        BY <2>2
      <4> QED
        BY <1>1, <1>2, <2>1, <2>2, <4>1 DEF RunInv, ReadsCover, Unreachable
    <3> QED
      BY <1>1, <2>1, <3>1, <3>2 DEF RunInv, WalkCovers
  <2>7. \A q \in Run \ {r} : RunInv(q)'
    BY <1>1, <2>4, OthersKeep DEF tree
  <2>8. QuietIsAlone'
    BY <1>1, <1>2, <2>1, <2>4, QuietStays
  <2>9. StampsAreTrue'
    BY <1>1, <2>4, StampsStay
  <2> QED
    BY <2>5, <2>6, <2>7, <2>8, <2>9 DEF TreeInv
<1>5. CASE ~Readable(f, from[r])
  <2>1. stage' = [stage EXCEPT ![r] = "threw"] /\ UNCHANGED <<got, found>>
    BY <1>5 DEF ReadFile, Goto
  <2>2. stage'[r] = "threw"
    BY <1>2, <2>1 DEF TreeTyped
  <2>3. Others(r)
    BY <1>1, <1>2, <2>1 DEF TreeTyped, Others
  <2>4. TreeTyped'
    BY <1>1, <1>2, <2>1 DEF TreeTyped, Stages
  <2>5. RunInv(r)'
    BY <1>1, <1>2, <2>1, <2>2
       DEF RunInv, HistoryIsKept, WalkCovers, ReadsCover, Active
  <2>6. \A q \in Run \ {r} : RunInv(q)'
    BY <1>1, <2>3, OthersKeep DEF tree
  <2>7. QuietIsAlone'
    BY <1>1, <1>2, <2>2, <2>3, QuietStays
  <2>8. StampsAreTrue'
    BY <1>1, <2>3, StampsStay
  <2> QED
    BY <2>4, <2>5, <2>6, <2>7, <2>8 DEF TreeInv
<1> QED
  BY <1>4, <1>5

LEMMA DigestKeeps ==
  ASSUME TreeInv, NEW r \in Run, Digest(r)
  PROVE  TreeInv'
<1>1. /\ stage[r] = "reading" /\ found[r] = {} /\ stage' = [stage EXCEPT ![r] = "storing"]
      /\ hash' = [hash EXCEPT ![r] = HashOf(got[r], from[r])]
      /\ UNCHANGED <<disk, locked, place, edits, from, dirs, found, got, stamped,
                     snippet, was, quiet>>
  BY DEF Digest, Goto, tree
<1>2. TreeTyped /\ RunInv(r)
  BY DEF TreeInv
<1>3. stage'[r] = "storing" /\ hash'[r] = HashOf(got[r], from[r]) /\ r \in Active
  BY <1>1, <1>2 DEF TreeTyped, Active
<1>4. Others(r)
  BY <1>1, <1>2 DEF TreeTyped, Others
<1>5. TreeTyped'
  BY <1>1, <1>2 DEF TreeTyped, Stages
<1>6. RunInv(r)'
  BY <1>1, <1>2, <1>3
     DEF RunInv, HistoryIsKept, WalkCovers, ReadsCover, Active, Now, Readable, Unreachable
<1>7. \A q \in Run \ {r} : RunInv(q)'
  BY <1>1, <1>4, OthersKeep DEF tree
<1>8. QuietIsAlone'
  <2>1. ASSUME NEW q \in quiet
        PROVE  /\ q = r /\ Active' \subseteq {r} /\ from'[r] = place'
               /\ hash'[r] = HashOf(got'[r], place') /\ stage'[r] = "storing"
               /\ \A f \in File : was'[r][f] = {Now(f, place)'}
    <3>1. /\ q = r /\ Active \subseteq {r} /\ from[r] = place
          /\ \A f \in File : was[r][f] = {Now(f, place)}
      BY <1>3 DEF TreeInv, QuietIsAlone
    <3>2. Active' \subseteq {r}
      BY <1>4, <3>1 DEF Active, Others
    <3> QED
      BY <1>1, <1>3, <3>1, <3>2 DEF Now, Readable
  <2> QED
    BY <1>1, <2>1 DEF QuietIsAlone, HashOf, Relative
<1>9. StampsAreTrue'
  BY <1>1, <1>4, StampsStay
<1> QED
  BY <1>5, <1>6, <1>7, <1>8, <1>9 DEF TreeInv

(* The lines of a declaration are an interval of its file.                 *)
LEMMA EvidenceMeans ==
  ASSUME NEW c \in Content, NEW n \in Declared(c)
  PROVE  \E a, b \in DOMAIN c :
           a <= b /\ LinesOf(c, n) = a..b /\ Evidence(c, n) = <<a, b>>
<1> DEFINE L == LinesOf(c, n)
           T == {k \in 0..Len(c) : Len(c) - k \in L}
<1>1. c \in Seq(Lines) /\ DOMAIN c = 1..Len(c) /\ Len(c) \in Nat
  BY ContentAssumption, LenProperties
<1>2. L \subseteq DOMAIN c /\ L \in SUBSET Nat /\ L # {}
  BY <1>1 DEF LinesOf, Declared, ToSet
<1>3. T \in SUBSET Nat /\ T # {}
  <2>1. PICK k \in L : TRUE
    BY <1>2
  <2>2. Len(c) - k \in T
    BY <1>1, <1>2, <2>1
  <2> QED
    BY <1>1, <2>2
<1>4. PICK a \in L : \A k \in L : a <= k
  <2> HIDE DEF L
  <2> QED
    BY <1>2, LeastNatural
<1>5. PICK t \in T : \A k \in T : t <= k
  <2> HIDE DEF T
  <2> QED
    BY <1>3, LeastNatural
<1> DEFINE b == Len(c) - t
<1>6. b \in L /\ \A k \in L : k <= b
  <2>1. \A k \in L : Len(c) - k \in T
    BY <1>1, <1>2
  <2>2. \A k \in L : t <= Len(c) - k
    BY <1>5, <2>1
  <2> QED
    BY <1>1, <1>2, <1>5, <2>2
<1>7. a \in DOMAIN c /\ b \in DOMAIN c /\ a <= b
  BY <1>2, <1>4, <1>6
<1>8. L = a..b
  <2>1. c[a][1] = n /\ c[b][1] = n
    BY <1>4, <1>6 DEF LinesOf
  <2>2. \A k \in a..b : c[k][1] = n /\ k \in DOMAIN c
    BY <1>1, <1>7, <2>1, ContentAssumption
  <2>3. a..b \subseteq L
    BY <2>2 DEF LinesOf
  <2>4. L \subseteq a..b
    <3> HIDE DEF L, b
    <3>1. a \in Nat /\ b \in Nat
      BY <1>2, <1>4, <1>6
    <3> QED
      BY <1>2, <1>4, <1>6, <3>1
  <2> QED
    BY <2>3, <2>4
<1>9. Min(L) = a /\ Max(L) = b
  <2> HIDE DEF L, b
  <2>1. a \in Nat /\ b \in Nat
    BY <1>2, <1>4, <1>6
  <2>2. Min(L) \in L /\ Min(L) <= a
    BY <1>4 DEF Min
  <2>3. Max(L) \in L /\ b <= Max(L)
    BY <1>2, <1>6, <2>1 DEF Max
  <2>4. Min(L) \in Nat /\ a <= Min(L) /\ Max(L) \in Nat /\ Max(L) <= b
    BY <1>2, <1>4, <1>6, <2>2, <2>3
  <2> QED
    BY <2>1, <2>2, <2>3, <2>4
<1> HIDE DEF b
<1> QED
  BY <1>7, <1>8, <1>9 DEF Evidence

LEMMA StampsAreTyped ==
  ASSUME NEW c \in Content, NEW n \in Declared(c), NEW r \in Run
  PROVE  /\ n \in Names
         /\ [batch |-> r, lines |-> Evidence(c, n)] \in Stamp
         /\ [batch |-> r, lines |-> Evidence(c, n)] # Null
<1>1. PICK a, b \in DOMAIN c : Evidence(c, n) = <<a, b>>
  BY EvidenceMeans
<1>2. a \in Nat /\ b \in Nat
  BY ContentAssumption, LenProperties
<1>3. [batch |-> r, lines |-> Evidence(c, n)] \in Stamp
  BY <1>1, <1>2 DEF Stamp
<1>4. n \in Names
  <2>1. PICK line \in ToSet(c) : line[1] = n
    BY DEF Declared
  <2>2. line \in Lines
    BY <2>1 DEF Lines
  <2> QED
    BY <2>1, <2>2 DEF Names
<1> QED
  BY <1>3, <1>4, ContentAssumption

LEMMA StoreKeeps ==
  ASSUME TreeInv, NEW r \in Run, Store(r)
  PROVE  TreeInv'
<1>1. /\ stage[r] = "storing" /\ stage' = [stage EXCEPT ![r] = "committed"]
      /\ stamped' = [n \in File \X Names |->
                       IF Stored(r, n[1], n[2])
                       THEN [batch |-> r, lines |-> Evidence(got[r][n[1]], n[2])]
                       ELSE stamped[n]]
      /\ UNCHANGED <<disk, locked, place, edits, from, dirs, found, got, hash,
                     snippet, was, quiet>>
  BY DEF Store, Stamps, Goto, tree
<1>2. TreeTyped /\ RunInv(r)
  BY DEF TreeInv
<1>3. stage'[r] = "committed" /\ r \in Active
  BY <1>1, <1>2 DEF TreeTyped, Active
<1>4. Others(r)
  BY <1>1, <1>2 DEF TreeTyped, Others
<1>5. ASSUME NEW f \in File, NEW n \in Names
      PROVE  stamped'[<<f, n>>] = IF Stored(r, f, n)
                                  THEN [batch |-> r, lines |-> Evidence(got[r][f], n)]
                                  ELSE stamped[<<f, n>>]
  <2>1. <<f, n>> \in File \X Names /\ <<f, n>>[1] = f /\ <<f, n>>[2] = n
    OBVIOUS
  <2> QED
    BY <1>1, <2>1
<1>6. ASSUME NEW f \in File, NEW n \in Names, Stored(r, f, n)
      PROVE  /\ [batch |-> r, lines |-> Evidence(got[r][f], n)] \in Stamp
             /\ [batch |-> r, lines |-> Evidence(got[r][f], n)] # Null
  <2>1. got[r][f] \in Content /\ n \in Declared(got[r][f])
    BY <1>2, <1>6 DEF TreeTyped, Stored
  <2> QED
    BY <2>1, StampsAreTyped
<1>7. TreeTyped'
  <2>1. ASSUME NEW m \in File \X Names
        PROVE  stamped'[m] \in Stamp \cup {Null}
    <3>1. m[1] \in File /\ m[2] \in Names
      OBVIOUS
    <3>2. stamped[m] \in Stamp \cup {Null}
      BY <1>2 DEF TreeTyped
    <3> QED
      BY <1>1, <1>6, <3>1, <3>2
  <2>2. stamped' \in [File \X Names -> Stamp \cup {Null}]
    BY <1>1, <2>1
  <2>3. stage' \in [Run -> Stages]
    BY <1>1, <1>2 DEF TreeTyped, Stages
  <2> QED
    BY <1>1, <1>2, <2>2, <2>3 DEF TreeTyped
<1>8. RunInv(r)'
  BY <1>1, <1>2, <1>3
     DEF RunInv, HistoryIsKept, WalkCovers, ReadsCover, Active, Unreachable
<1>9. \A q \in Run \ {r} : RunInv(q)'
  BY <1>1, <1>4, OthersKeep DEF tree
<1>10. QuietIsAlone'
  <2>1. ASSUME NEW q \in quiet
        PROVE  /\ q = r /\ Active' \subseteq {r} /\ from'[r] = place'
               /\ hash'[r] = HashOf(got'[r], place')
               /\ \A f \in File : was'[r][f] = {Now(f, place)'}
    <3>1. /\ q = r /\ Active \subseteq {r} /\ from[r] = place
          /\ hash[r] = HashOf(got[r], place)
          /\ \A f \in File : was[r][f] = {Now(f, place)}
      BY <1>1, <1>3 DEF TreeInv, QuietIsAlone
    <3>2. Active' \subseteq {r}
      BY <1>4, <3>1 DEF Active, Others
    <3> QED
      BY <1>1, <3>1, <3>2 DEF Now, Readable
  <2>2. \A f \in File, n \in Names : Stored(r, f, n)' =>
          /\ stamped'[<<f, n>>] # Null
          /\ stamped'[<<f, n>>].lines = Evidence(got'[r][f], n)
    BY <1>1, <1>5, <1>6 DEF Stored
  <2>3. HashOf(got[r], place)' = HashOf(got'[r], place')
    BY DEF HashOf, Relative
  <2>4. \A f \in File, n \in Names : Stored(r, f, n)' =>
          /\ stamped'[<<f, n>>] # Null
          /\ stamped'[<<f, n>>].lines = Evidence(got[r][f], n)'
    BY <2>2 DEF Evidence, LinesOf
  <2> QED
    BY <1>1, <1>3, <2>1, <2>3, <2>4 DEF QuietIsAlone
<1>11. StampsAreTrue'
  <2>1. ASSUME NEW s, NEW f, NEW n, IsTrue(s, f, n)
        PROVE  IsTrue(s, f, n)'
    <3>1. s.batch \in Run /\ s.batch # r
      BY <1>1, <2>1 DEF IsTrue, Stamp
    <3> QED
      BY <1>1, <1>4, <2>1, <3>1 DEF IsTrue, Others, Stored
  <2>2. ASSUME NEW f \in File, NEW n \in Names, stamped'[<<f, n>>] # Null
        PROVE  IsTrue(stamped[<<f, n>>], f, n)'
    <3>1. CASE Stored(r, f, n)
      <4>1. stamped'[<<f, n>>] = [batch |-> r, lines |-> Evidence(got[r][f], n)]
        BY <1>5, <3>1
      <4> QED
        BY <1>1, <1>3, <1>6, <3>1, <4>1 DEF IsTrue, Stored
    <3>2. CASE ~Stored(r, f, n)
      <4>1. stamped'[<<f, n>>] = stamped[<<f, n>>]
        BY <1>5, <3>2
      <4> QED
        BY <2>1, <2>2, <4>1 DEF TreeInv, StampsAreTrue
    <3> QED
      BY <3>1, <3>2
  <2> QED
    BY <1>1, <2>1, <2>2 DEF TreeInv, StampsAreTrue
<1> QED
  BY <1>7, <1>8, <1>9, <1>10, <1>11 DEF TreeInv

(* The query of a snippet.                                                 *)
LEMMA RunsStay ==
  ASSUME TreeInv, UNCHANGED <<disk, locked, place, runs, stamped, was, quiet>>
  PROVE  (\A r \in Run : RunInv(r)') /\ QuietIsAlone'
<1>1. UNCHANGED <<disk, locked, place, stage, from, dirs, found, got, hash, stamped, was, quiet>>
  BY DEF runs
<1>2. ASSUME NEW r \in Run
      PROVE  RunInv(r)'
  <2>1. RunInv(r)
    BY DEF TreeInv
  <2> QED
    BY <1>1, <2>1 DEF RunInv, HistoryIsKept, WalkCovers, ReadsCover, OnTheWay,
                      Unreachable, Active, Now, Readable
<1>3. QuietIsAlone'
  BY <1>1 DEF TreeInv, QuietIsAlone, Active, Now, Readable, HashOf, Relative, Stored
<1> QED
  BY <1>2, <1>3

LEMMA TruthStays ==
  ASSUME UNCHANGED runs, NEW s, NEW f, NEW n, IsTrue(s, f, n)
  PROVE  IsTrue(s, f, n)'
  BY DEF runs, IsTrue, Stored

LEMMA SlicedIsTyped ==
  ASSUME NEW c \in Content, NEW a \in Nat \ {0}, NEW b \in Nat
  PROVE  Sliced(c, <<a, b>>) \in Seq(Lines)
<1> DEFINE m == IF b < Len(c) THEN b ELSE Len(c)
<1>1. c \in Seq(Lines) /\ Len(c) \in Nat /\ m \in Nat /\ m <= Len(c)
  BY ContentAssumption, LenProperties
<1>2. Sliced(c, <<a, b>>) = SubSeq(c, a, m)
  BY DEF Sliced
<1> HIDE DEF m
<1>3. \A i \in a..m : c[i] \in Lines
  BY <1>1, ElementOfSeq
<1>4. a \in Int /\ m \in Int
  BY <1>1
<1>5. SubSeq(c, a, m) \in Seq(Lines)
  BY <1>3, <1>4, SubSeqProperties
<1> QED
  BY <1>2, <1>5

LEMMA TruthIsTyped ==
  ASSUME TreeTyped, NEW s, NEW f \in File, NEW n, IsTrue(s, f, n)
  PROVE  /\ got[s.batch][f] \in Content /\ n \in Declared(got[s.batch][f])
         /\ s.lines = Evidence(got[s.batch][f], n)
         /\ \E a, b \in Nat \ {0} : s.lines = <<a, b>>
<1>1. s.batch \in Run /\ f \in DOMAIN got[s.batch] /\ n \in Declared(got[s.batch][f])
  BY DEF IsTrue, Stored, Stamp
<1>2. got[s.batch][f] \in Content
  BY <1>1 DEF TreeTyped
<1>3. PICK a, b \in DOMAIN got[s.batch][f] : s.lines = <<a, b>>
  BY <1>1, <1>2, EvidenceMeans DEF IsTrue
<1>4. a \in Nat \ {0} /\ b \in Nat \ {0}
  BY <1>2, ContentAssumption, LenProperties
<1> QED
  BY <1>1, <1>2, <1>3, <1>4 DEF IsTrue

LEMMA LookupKeeps ==
  ASSUME TreeInv, NEW f \in File, NEW n \in Names, Lookup(f, n)
  PROVE  TreeInv'
<1>1. /\ stamped[<<f, n>>] # Null
      /\ snippet' = [pc |-> "ranking", file |-> f, name |-> n, row |-> stamped[<<f, n>>],
                     from |-> place, seen |-> Null, text |-> <<>>]
      /\ UNCHANGED <<disk, locked, place, edits, runs, stamped, was, quiet>>
  BY DEF Lookup, NoSnippet, tree
<1>2. UNCHANGED <<stage, from, dirs, found, got, hash>>
  BY <1>1 DEF runs
<1>3. TreeTyped'
  <2>1. stamped[<<f, n>>] \in Stamp \cup {Null} /\ place \in Place
    BY DEF TreeInv, TreeTyped
  <2>2. snippet' \in Snippet
    BY <1>1, <2>1 DEF Snippet
  <2> QED
    BY <1>1, <1>2, <2>2 DEF TreeInv, TreeTyped
<1>4. StampsAreTrue'
  <2>1. \A g \in File, m \in Names : stamped[<<g, m>>] # Null => IsTrue(stamped[<<g, m>>], g, m)'
    BY <1>1, TruthStays DEF TreeInv, StampsAreTrue
  <2> QED
    BY <1>1, <2>1 DEF StampsAreTrue, IsTrue, Stored
<1> QED
  BY <1>1, <1>3, <1>4, RunsStay DEF TreeInv

LEMMA ReadRangeKeeps ==
  ASSUME TreeInv, ReadRange
  PROVE  TreeInv'
<1> DEFINE content == Now(snippet.file, snippet.from)
           text == IF content = Null THEN <<>> ELSE Sliced(content, snippet.row.lines)
<1>1. /\ snippet.pc = "ranking"
      /\ snippet' = [snippet EXCEPT !.pc = "quoted", !.seen = content, !.text = text]
      /\ UNCHANGED <<disk, locked, place, edits, runs, stamped, was, quiet>>
  BY DEF ReadRange, tree
<1>2. UNCHANGED <<stage, from, dirs, found, got, hash>>
  BY <1>1 DEF runs
<1>3. TreeTyped /\ snippet \in Snippet
  BY DEF TreeInv, TreeTyped
<1>4. /\ snippet.file \in File /\ snippet.name \in Names
      /\ IsTrue(snippet.row, snippet.file, snippet.name)
  BY <1>1 DEF TreeInv, StampsAreTrue
<1>5. content \in Content \cup {Null}
  BY <1>3, <1>4, NowMeans
<1>6. text \in Seq(Lines)
  <2>1. PICK a, b \in Nat \ {0} : snippet.row.lines = <<a, b>>
    BY <1>3, <1>4, TruthIsTyped
  <2>2. <<>> \in Seq(Lines)
    OBVIOUS
  <2> HIDE DEF content
  <2> QED
    BY <1>5, <2>1, <2>2, SlicedIsTyped
<1> HIDE DEF content, text
<1>7. /\ snippet'.pc = "quoted" /\ snippet'.seen = content /\ snippet'.text = text
      /\ snippet'.file = snippet.file /\ snippet'.name = snippet.name
      /\ snippet'.row = snippet.row /\ snippet' \in Snippet
  BY <1>1, <1>3, <1>5, <1>6 DEF Snippet
<1>8. TreeTyped'
  BY <1>1, <1>2, <1>3, <1>7 DEF TreeTyped
<1>9. StampsAreTrue'
  <2>1. \A g \in File, m \in Names : stamped[<<g, m>>] # Null => IsTrue(stamped[<<g, m>>], g, m)'
    BY <1>1, TruthStays DEF TreeInv, StampsAreTrue
  <2>2. snippet'.text = IF snippet'.seen = Null THEN <<>>
                        ELSE Sliced(snippet'.seen, snippet'.row.lines)
    BY <1>7 DEF text, content
  <2> QED
    BY <1>1, <1>2, <1>4, <1>7, <2>1, <2>2 DEF StampsAreTrue, IsTrue, Stored, Sliced
<1> QED
  BY <1>1, <1>8, <1>9, RunsStay DEF TreeInv

LEMMA TreeInvNext == TreeInv /\ [TreeNext]_treeVars => TreeInv'
<1> SUFFICES ASSUME TreeInv, [TreeNext]_treeVars PROVE TreeInv'
  OBVIOUS
<1>0. TreeTyped
  BY DEF TreeInv
<1>1. ASSUME NEW f \in Touched \cap File, NEW c \in Content \cup {Null}, Edit(f, c)
      PROVE  TreeInv'
  <2>1. /\ [disk EXCEPT ![f] = c] \in [File -> Content \cup {Null}]
        /\ locked \in SUBSET Dir /\ place \in Place
    BY <1>0 DEF TreeTyped
  <2> QED
    BY <1>1, <2>1, ChangeKeeps DEF Edit
<1>2. ASSUME NEW d \in Touched \cap Dir, Chmod(d)
      PROVE  TreeInv'
  <2>1. SymDiff(locked, {d}) \in SUBSET Dir
    BY <1>0 DEF TreeTyped, SymDiff
  <2>2. disk \in [File -> Content \cup {Null}] /\ place \in Place
    BY <1>0 DEF TreeTyped
  <2> QED
    BY <1>2, <2>1, <2>2, ChangeKeeps DEF Chmod
<1>3. ASSUME NEW p \in Place, Move(p)
      PROVE  TreeInv'
  <2>1. disk \in [File -> Content \cup {Null}] /\ locked \in SUBSET Dir
    BY <1>0 DEF TreeTyped
  <2> QED
    BY <1>3, <2>1, ChangeKeeps DEF Move
<1>4. ASSUME NEW r \in Run,
             Start(r) \/ Walk(r) \/ Walked(r) \/ ReadFile(r) \/ Digest(r) \/ Store(r)
      PROVE  TreeInv'
  BY <1>4, StartKeeps, WalkKeeps, WalkedKeeps, ReadFileKeeps, DigestKeeps, StoreKeeps
<1>5. ASSUME NEW f \in File, NEW n \in Names, Lookup(f, n)
      PROVE  TreeInv'
  BY <1>5, LookupKeeps
<1>6. CASE ReadRange
  BY <1>6, ReadRangeKeeps
<1>7. CASE UNCHANGED treeVars
  <2>1. UNCHANGED <<disk, locked, place, edits, runs, stamped, snippet, was, quiet>>
    BY <1>7 DEF treeVars, tree
  <2>2. UNCHANGED <<stage, from, dirs, found, got, hash>>
    BY <2>1 DEF runs
  <2>3. TreeTyped'
    BY <1>0, <2>1, <2>2 DEF TreeTyped
  <2>4. StampsAreTrue'
    BY <2>1, <2>2 DEF TreeInv, StampsAreTrue, IsTrue, Stored
  <2> QED
    BY <2>1, <2>3, <2>4, RunsStay DEF TreeInv
<1> QED
  BY <1>1, <1>2, <1>3, <1>4, <1>5, <1>6, <1>7 DEF TreeNext

-----------------------------------------------------------------------------
(* Of a quiet run: it has exactly what can be read now.                    *)
LEMMA QuietIsNow ==
  ASSUME TreeInv, NEW r \in Committed \cap quiet
  PROVE  /\ DOMAIN got[r] = {f \in Indexable : Readable(f, place)}
         /\ \A f \in DOMAIN got[r] : f \in File /\ got[r][f] = disk[f]
<1>1. /\ TreeTyped /\ RunInv(r) /\ stage[r] = "committed" /\ r \in Run
      /\ \A f \in File : was[r][f] = {Now(f, place)}
  BY DEF TreeInv, Committed, QuietIsAlone
<1>2. ASSUME NEW f \in DOMAIN got[r]
      PROVE  f \in Indexable /\ f \in File /\ Readable(f, place) /\ got[r][f] = disk[f]
  <2>1. f \in Indexable /\ f \in File /\ got[r][f] = Now(f, place)
    BY <1>1, <1>2, WaysAreOpen DEF RunInv, HistoryIsKept
  <2>2. got[r][f] # Null
    BY <1>1, <1>2, TreeAssumption DEF TreeTyped
  <2> QED
    BY <1>1, <2>1, <2>2, NowMeans
<1>3. ASSUME NEW f \in Indexable, Readable(f, place)
      PROVE  f \in DOMAIN got[r]
  <2>1. f \in File
    BY WaysAreOpen
  <2>2. Now(f, place) # Null
    BY <1>1, <1>3, <2>1, NowMeans
  <2> QED
    BY <1>1, <2>1, <2>2 DEF RunInv, ReadsCover, Unreachable
<1> QED
  BY <1>2, <1>3

LEMMA AccountsForFiles == TreeInv => EveryFileIsAccountedFor
<1> SUFFICES ASSUME TreeInv, NEW r \in Committed
             PROVE  /\ DOMAIN got[r] \subseteq Indexable
                    /\ \A f \in Indexable :
                         IF f \in DOMAIN got[r] THEN got[r][f] \in was[r][f] \ {Null}
                                                ELSE Null \in was[r][f]
  BY DEF EveryFileIsAccountedFor
<1>1. TreeTyped /\ RunInv(r) /\ stage[r] = "committed" /\ r \in Run
  BY DEF TreeInv, Committed
<1>2. \A f \in DOMAIN got[r] : got[r][f] # Null
  BY <1>1, TreeAssumption DEF TreeTyped
<1> QED
  BY <1>1, <1>2 DEF RunInv, HistoryIsKept, ReadsCover, Unreachable

LEMMA CopiesFaithfully == TreeInv => QuietRunIsFresh
<1> SUFFICES ASSUME TreeInv, NEW r \in Committed \cap quiet
             PROVE  /\ \A f \in DOMAIN TreeNow : \A n \in Declared(disk[f]) :
                         /\ stamped[<<f, n>>] # Null
                         /\ stamped[<<f, n>>].lines = Evidence(disk[f], n)
                    /\ hash[r] = {<<<<f>>, disk[f]>> : f \in DOMAIN TreeNow}
  BY DEF QuietRunIsFresh
<1>1. DOMAIN TreeNow = DOMAIN got[r] /\ \A f \in DOMAIN got[r] : f \in File /\ got[r][f] = disk[f]
  BY QuietIsNow DEF TreeNow
<1>2. /\ TreeTyped /\ r \in Run /\ hash[r] = HashOf(got[r], place)
      /\ \A f \in File, n \in Names :
           Stored(r, f, n) => /\ stamped[<<f, n>>] # Null
                              /\ stamped[<<f, n>>].lines = Evidence(got[r][f], n)
  BY DEF TreeInv, Committed, QuietIsAlone
<1>3. ASSUME NEW f \in DOMAIN TreeNow, NEW n \in Declared(disk[f])
      PROVE  /\ stamped[<<f, n>>] # Null
             /\ stamped[<<f, n>>].lines = Evidence(disk[f], n)
  <2>1. got[r][f] = disk[f] /\ f \in DOMAIN got[r] /\ f \in File /\ got[r][f] \in Content
    BY <1>1, <1>2 DEF TreeTyped
  <2>2. n \in Names
    BY <2>1, <1>2, StampsAreTyped
  <2> QED
    BY <1>2, <2>1, <2>2 DEF Stored
<1>4. hash[r] = {<<<<f>>, disk[f]>> : f \in DOMAIN TreeNow}
  BY <1>1, <1>2 DEF HashOf, Relative
<1> QED
  BY <1>3, <1>4

LEMMA SliceIsQuoted ==
  ASSUME NEW c \in Content, NEW n \in Declared(c)
  PROVE  IsQuoted(Sliced(c, Evidence(c, n)), c, n)
<1>1. PICK a, b \in DOMAIN c : a <= b /\ LinesOf(c, n) = a..b /\ Evidence(c, n) = <<a, b>>
  BY EvidenceMeans
<1>2. c \in Seq(Lines) /\ DOMAIN c = 1..Len(c) /\ Len(c) \in Nat
  BY ContentAssumption, LenProperties
<1>3. a \in Int /\ b \in Int /\ b <= Len(c) /\ \A i \in a..b : c[i] \in Lines
  BY <1>1, <1>2, ElementOfSeq
<1>4. Sliced(c, Evidence(c, n)) = SubSeq(c, a, b)
  <2>1. <<a, b>>[1] = a /\ <<a, b>>[2] = b
    OBVIOUS
  <2>2. (IF b < Len(c) THEN b ELSE Len(c)) = b
    BY <1>2, <1>3
  <2> QED
    BY <1>1, <2>1, <2>2 DEF Sliced
<1>5. /\ Len(SubSeq(c, a, b)) = b - a + 1
      /\ \A i \in 1..(b - a + 1) : SubSeq(c, a, b)[i] = c[a + i - 1]
  BY <1>1, <1>3, SubSeqProperties
<1>6. Cardinality(a..b) = b - a + 1
  BY <1>1, <1>3, FS_Interval
<1>7. ASSUME NEW k \in a..b
      PROVE  SubSeq(c, a, b)[Cardinality({j \in a..b : j <= k})] = c[k]
  <2>1. {j \in a..b : j <= k} = a..k
    BY <1>3
  <2>2. k \in Int /\ a <= k /\ k <= b
    BY <1>3
  <2>3. Cardinality(a..k) = k - a + 1
    BY <1>3, <2>2, FS_Interval
  <2>4. k - a + 1 \in 1..(b - a + 1) /\ a + (k - a + 1) - 1 = k
    BY <1>3, <2>2
  <2> QED
    BY <1>5, <2>1, <2>3, <2>4
<1> QED
  BY <1>1, <1>4, <1>5, <1>6, <1>7 DEF IsQuoted

LEMMA QuotesDeclarations == TreeInv => SnippetsQuote
<1> SUFFICES ASSUME TreeInv, snippet.pc = "quoted"
             PROVE  IF snippet.seen = Null THEN snippet.text = <<>>
                    ELSE snippet.seen = got[snippet.row.batch][snippet.file]
                           => IsQuoted(snippet.text, snippet.seen, snippet.name)
  BY DEF SnippetsQuote
<1>1. /\ TreeTyped /\ snippet.file \in File
      /\ IsTrue(snippet.row, snippet.file, snippet.name)
      /\ snippet.text = IF snippet.seen = Null THEN <<>>
                        ELSE Sliced(snippet.seen, snippet.row.lines)
  BY DEF TreeInv, StampsAreTrue
<1>2. ASSUME NEW s, NEW f \in File, NEW n, NEW c, IsTrue(s, f, n), c = got[s.batch][f]
      PROVE  IsQuoted(Sliced(c, s.lines), c, n)
  <2>1. c \in Content /\ n \in Declared(c) /\ s.lines = Evidence(c, n)
    BY <1>1, <1>2, TruthIsTyped
  <2> QED
    BY <2>1, SliceIsQuoted
<1> QED
  BY <1>1, <1>2

THEOREM TreeInvHolds == TreeSpec => []TreeInv
<1> QED
  BY TreeInvInit, TreeInvNext, PTL DEF TreeSpec

(* However the tree is edited, locked or moved under the walk and the      *)
(* reads, a committed batch has something each source file held during the *)
(* run, unless it was missing or out of reach at some moment, and nothing  *)
(* else (mock-fixture.ts, walk and indexRepository).                       *)
THEOREM EveryFileIsAccountedForHolds == TreeSpec => []EveryFileIsAccountedFor
<1> QED
  BY TreeInvHolds, AccountsForFiles, PTL

(* A run that nothing disturbed is a faithful copy of the tree, and its    *)
(* hash that of the tree, wherever it lies.                                *)
THEOREM QuietRunIsFreshHolds == TreeSpec => []QuietRunIsFresh
<1> QED
  BY TreeInvHolds, CopiesFaithfully, PTL

(* A snippet of a file that holds what its batch had read is the           *)
(* declaration it cites, whole and nothing else.                           *)
THEOREM SnippetsQuoteHolds == TreeSpec => []SnippetsQuote
<1> QED
  BY TreeInvHolds, QuotesDeclarations, PTL
=============================================================================
