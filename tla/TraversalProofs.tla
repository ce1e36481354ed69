--------------------------- MODULE TraversalProofs ---------------------------
(***************************************************************************)
(* The traversal of both graph stores answers by paths what it computes by *)
(* layers, on every finite graph and for every query.                      *)
(***************************************************************************)
EXTENDS Traversal, FiniteSetTheorems, WellFoundedInduction, TLAPS

(***************************************************************************)
(* Induction over the naturals, of a set instead of a predicate.           *)
(***************************************************************************)
LEMMA LeastNatural ==
  ASSUME NEW S \in SUBSET Nat, S # {}
  PROVE  \E n \in S : \A m \in S : n <= m
<1> DEFINE R == OpToRel(<, Nat)
<1>1. IsWellFoundedOn(R, Nat)
  BY NatLessThanWellFounded
<1>2. \A x, y \in Nat : <<x, y>> \in R <=> x < y
  BY DEF OpToRel
<1> HIDE DEF R
<1>3. PICK n \in S : \A m \in S : ~(<<m, n>> \in R)
  BY <1>1, WFMin
<1>4. \A m \in S : ~(m < n)
  BY <1>2, <1>3, Zenon
<1> QED
  BY <1>4

LEMMA SetInduction ==
  ASSUME NEW S, 0 \in S, \A n \in Nat : n \in S => n + 1 \in S
  PROVE  Nat \subseteq S
<1> SUFFICES ASSUME Nat \ S # {} PROVE FALSE
  OBVIOUS
<1>1. PICK n \in Nat \ S : \A m \in Nat \ S : n <= m
  BY LeastNatural
<1>2. n # 0 /\ n - 1 \in Nat
  BY <1>1
<1>3. n - 1 \in S
  BY <1>1, <1>2
<1> QED
  BY <1>1, <1>2, <1>3

-----------------------------------------------------------------------------
(* The search is what its recursive definition says of each layer.         *)
LEMMA SearchUnfolds ==
  ASSUME NEW G, NEW id, NEW q, q.depth \in Nat
  PROVE  /\ Search(G, id, q)[0] = Seed(G, id)
         /\ \A d \in 1..q.depth :
              Search(G, id, q)[d] = Onward(G, Search(G, id, q)[d - 1], q)
<1> DEFINE Solves(f, n) ==
             f = [d \in 0..n |-> IF d = 0 THEN Seed(G, id) ELSE Onward(G, f[d - 1], q)]
           S == {n \in Nat : \E f : Solves(f, n)}
<1>1. 0 \in S
  <2>1. Solves([d \in 0..0 |-> Seed(G, id)], 0)
    OBVIOUS
  <2> QED
    BY <2>1
<1>2. ASSUME NEW n \in Nat, n \in S
      PROVE  n + 1 \in S
  <2>1. PICK f : Solves(f, n)
    BY <1>2
  <2> DEFINE g == [d \in 0..(n + 1) |-> IF d <= n THEN f[d] ELSE Onward(G, f[n], q)]
  <2>2. \A d \in 0..(n + 1) :
          g[d] = IF d = 0 THEN Seed(G, id) ELSE Onward(G, g[d - 1], q)
    BY <2>1
  <2>3. Solves(g, n + 1)
    BY <2>2
  <2> HIDE DEF g
  <2> QED
    BY <2>3
<1>3. PICK f : Solves(f, q.depth)
  BY <1>1, <1>2, SetInduction
<1>4. Solves(Search(G, id, q), q.depth)
  BY <1>3 DEF Search
<1> QED
  BY <1>4

-----------------------------------------------------------------------------
(* One step, by layers and by edges.                                       *)
LEMMA ReachedMeans ==
  ASSUME NEW G \in Graph, NEW L \in SUBSET NodeId, NEW q
  PROVE  /\ Reached(G, L, q) \subseteq NodeId
         /\ \A n : n \in Reached(G, L, q) <=> \E m \in L, e \in G.edges : Leads(e, m, n, q)
<1>1. \A e \in G.edges : e.src \in NodeId /\ e.dst \in NodeId
  BY DEF Graph, Edge
<1>2. ASSUME NEW n
      PROVE  n \in Reached(G, L, q) <=> \E m \in L, e \in G.edges : Leads(e, m, n, q)
  BY DEF Reached, Crossed, Leads, Forward, Backward
<1> QED
  BY <1>1, <1>2 DEF Leads

LEMMA CrossedMeans ==
  ASSUME NEW G \in Graph, NEW L \in SUBSET NodeId, NEW q
  PROVE  Crossed(G, L, q) =
           {e \in G.edges : \E m \in L, n \in NodeId : Leads(e, m, n, q)}
<1>1. \A e \in G.edges : e.src \in NodeId /\ e.dst \in NodeId
  BY DEF Graph, Edge
<1> QED
  BY <1>1 DEF Crossed, Leads, Forward, Backward

(* What is within k + 1 steps is within k, or one step from it.            *)
LEMMA WithinNone ==
  ASSUME NEW G \in Graph, NEW id \in NodeId, NEW q
  PROVE  Within(G, id, 0 - 1, q) = {} /\ Within(G, id, 0, q) = {id}
<1>1. 0..(0 - 1) = {} /\ 0..0 = {0}
  OBVIOUS
<1>2. id \in Within(G, id, 0, q)
  <2> DEFINE p == [i \in 0..0 |-> id]
  <2>1. p \in [0..0 -> NodeId] /\ p[0] = id /\ 1..0 = {}
    OBVIOUS
  <2> HIDE DEF p
  <2> QED
    BY <1>1, <2>1 DEF Within
<1> QED
  BY <1>1, <1>2 DEF Within

LEMMA WithinGrows ==
  ASSUME NEW G, NEW id, NEW q, NEW j \in Int, NEW k \in Int, j <= k
  PROVE  Within(G, id, j, q) \subseteq Within(G, id, k, q)
  BY DEF Within

LEMMA PathsStay ==
  ASSUME NEW G, NEW id, NEW q, NEW k \in Int, NEW j \in 0..k,
         NEW p \in [0..j -> NodeId], p[0] = id,
         \A i \in 1..j : \E e \in G.edges : Leads(e, p[i - 1], p[i], q)
  PROVE  p[j] \in Within(G, id, k, q)
<1>1. p[j] \in NodeId
  OBVIOUS
<1> QED
  BY <1>1 DEF Within

LEMMA WithinStep ==
  ASSUME NEW G \in Graph, NEW id \in NodeId, NEW q, NEW k \in Nat
  PROVE  Within(G, id, k + 1, q) =
           Within(G, id, k, q) \cup Reached(G, Within(G, id, k, q), q)
<1> DEFINE W == Within(G, id, k, q)
<1>1. W \in SUBSET NodeId
  BY DEF Within
<1>2. ASSUME NEW n \in Reached(G, W, q)
      PROVE  n \in Within(G, id, k + 1, q)
  <2>1. PICK m \in W, e \in G.edges : Leads(e, m, n, q)
    BY <1>1, ReachedMeans
  <2>0. PICK j \in 0..k : \E p \in [0..j -> NodeId] :
            /\ p[0] = id /\ p[j] = m
            /\ \A i \in 1..j : \E x \in G.edges : Leads(x, p[i - 1], p[i], q)
    BY DEF Within
  <2>2. PICK p \in [0..j -> NodeId] :
            /\ p[0] = id /\ p[j] = m
            /\ \A i \in 1..j : \E x \in G.edges : Leads(x, p[i - 1], p[i], q)
    BY <2>0
  <2>3. n \in NodeId
    BY <1>1, ReachedMeans
  <2> DEFINE r == [i \in 0..(j + 1) |-> IF i <= j THEN p[i] ELSE n]
  <2>4. r \in [0..(j + 1) -> NodeId] /\ r[0] = id /\ r[j + 1] = n
    BY <2>2, <2>3
  <2>5. ASSUME NEW i \in 1..(j + 1)
        PROVE  \E x \in G.edges : Leads(x, r[i - 1], r[i], q)
    <3>1. CASE i <= j
      BY <2>2, <3>1
    <3>2. CASE i = j + 1
      <4>1. r[i - 1] = m /\ r[i] = n
        BY <2>2, <3>2
      <4> HIDE DEF r
      <4> QED
        BY <2>1, <4>1
    <3> QED
      BY <3>1, <3>2
  <2>6. j + 1 \in 0..(k + 1)
    OBVIOUS
  <2> HIDE DEF r
  <2> QED
    BY <2>3, <2>4, <2>5, <2>6 DEF Within
<1>3. ASSUME NEW n \in Within(G, id, k + 1, q)
      PROVE  n \in W \cup Reached(G, W, q)
  <2>0. PICK j \in 0..(k + 1) : \E p \in [0..j -> NodeId] :
            /\ p[0] = id /\ p[j] = n
            /\ \A i \in 1..j : \E x \in G.edges : Leads(x, p[i - 1], p[i], q)
    BY DEF Within
  <2>1. PICK p \in [0..j -> NodeId] :
            /\ p[0] = id /\ p[j] = n
            /\ \A i \in 1..j : \E x \in G.edges : Leads(x, p[i - 1], p[i], q)
    BY <2>0
  <2>2. CASE j <= k
    <3>1. k \in Int /\ j \in 0..k
      BY <2>2
    <3> QED
      BY <2>1, <3>1, PathsStay
  <2>3. CASE j = k + 1
    <3> DEFINE r == [i \in 0..k |-> p[i]]
    <3>1. r \in [0..k -> NodeId] /\ r[0] = id /\ r[k] = p[k]
      BY <2>1, <2>3
    <3>2. \A i \in 1..k : \E x \in G.edges : Leads(x, r[i - 1], r[i], q)
      BY <2>1, <2>3
    <3> HIDE DEF r
    <3>3. p[k] \in W
      <4>1. k \in Int /\ k \in 0..k
        OBVIOUS
      <4> QED
        BY <3>1, <3>2, <4>1, PathsStay
    <3>4. \E x \in G.edges : Leads(x, p[k], n, q)
      <4>1. \E x \in G.edges : Leads(x, p[(k + 1) - 1], p[k + 1], q)
        BY <2>1, <2>3
      <4> QED
        BY <2>1, <2>3, <4>1
    <3> QED
      BY <1>1, <3>3, <3>4, ReachedMeans
  <2> QED
    BY <2>2, <2>3
<1> QED
  BY <1>2, <1>3, WithinGrows

-----------------------------------------------------------------------------
(* The search when it has expanded k layers.                               *)
State == [nodes: SUBSET NodeId, edges: SUBSET Edge, visited: SUBSET NodeId,
          layer: SUBSET NodeId, start: SUBSET NodeId]

Rim(G, id, k, q) == Within(G, id, k, q) \ Within(G, id, k - 1, q)

SearchedTo(G, id, k, q, s) ==
  /\ s \in State
  /\ s.visited = Within(G, id, k, q) /\ s.layer = Rim(G, id, k, q)
  /\ s.nodes = Ball(G, id, k, q).nodes /\ s.edges = Ball(G, id, k, q).edges
  /\ s.start = {id} \cap G.nodes

LEMMA SeedSearches ==
  ASSUME NEW G \in Graph, NEW id \in NodeId, NEW q
  PROVE  SearchedTo(G, id, 0, q, Seed(G, id))
<1>1. Seed(G, id) \in State
  BY DEF Seed, State, Graph
<1> QED
  BY <1>1, WithinNone DEF SearchedTo, Seed, Rim, Ball

LEMMA ExpandSearches ==
  ASSUME NEW G \in Graph, NEW id \in NodeId, NEW q, NEW k \in Nat, NEW s,
         SearchedTo(G, id, k, q, s)
  PROVE  SearchedTo(G, id, k + 1, q, Expand(G, s, q))
<1> DEFINE W == Within(G, id, k, q)
           V == Within(G, id, k - 1, q)
           R == Reached(G, s.layer, q)
           t == Expand(G, s, q)
<1>1. s \in State /\ s.visited = W /\ s.layer = W \ V
  BY DEF SearchedTo, Rim
<1>2. V \subseteq W /\ W \in SUBSET NodeId /\ V \in SUBSET NodeId
  BY WithinGrows DEF Within
<1>3. s.layer \in SUBSET NodeId
  BY <1>1, <1>2
<1>4. \A m \in V, n \in NodeId, e \in G.edges : Leads(e, m, n, q) => n \in W
  <2>1. CASE k = 0
    BY <2>1, WithinNone
  <2>2. CASE k # 0
    <3>1. k - 1 \in Nat /\ (k - 1) + 1 = k
      BY <2>2
    <3>2. W = V \cup Reached(G, V, q)
      BY <3>1, WithinStep
    <3> QED
      BY <1>2, <3>2, ReachedMeans
  <2> QED
    BY <2>1, <2>2
<1>5. Reached(G, W, q) \subseteq W \cup R /\ R \subseteq Reached(G, W, q)
  BY <1>1, <1>2, <1>3, <1>4, ReachedMeans
<1>6. Within(G, id, k + 1, q) = W \cup R
  BY <1>5, WithinStep
<1>7. R \subseteq NodeId
  BY <1>3, ReachedMeans
<1>8. Crossed(G, s.layer, q) =
        {e \in G.edges : \E m \in W \ V, n \in NodeId : Leads(e, m, n, q)}
  <2>1. Crossed(G, s.layer, q) =
          {e \in G.edges : \E m \in s.layer, n \in NodeId : Leads(e, m, n, q)}
    BY <1>3, CrossedMeans
  <2> QED
    BY <1>1, <2>1
<1>9. /\ t \in State
      /\ t.visited = W \cup R /\ t.layer = R \ W /\ t.start = s.start
      /\ t.nodes = s.nodes \cup (R \cap G.nodes)
      /\ t.edges = s.edges \cup Crossed(G, s.layer, q)
  <2>1. Crossed(G, s.layer, q) \subseteq Edge /\ G.nodes \subseteq NodeId
    BY DEF Crossed, Graph
  <2> HIDE DEF R
  <2> QED
    BY <1>1, <1>2, <1>7, <2>1 DEF Expand, State, R
<1>10. (k + 1) - 1 = k
  OBVIOUS
<1>11. t.layer = Rim(G, id, k + 1, q)
  BY <1>6, <1>9, <1>10 DEF Rim
<1>12. t.nodes = Ball(G, id, k + 1, q).nodes
  BY <1>6, <1>9 DEF SearchedTo, Ball
<1>13. t.edges = Ball(G, id, k + 1, q).edges
  <2>1. s.edges = {e \in G.edges : \E m \in V, n \in NodeId : Leads(e, m, n, q)}
    BY DEF SearchedTo, Ball
  <2>2. Ball(G, id, k + 1, q).edges =
          {e \in G.edges : \E m \in W, n \in NodeId : Leads(e, m, n, q)}
    BY <1>10 DEF Ball
  <2> QED
    BY <1>2, <1>8, <1>9, <2>1, <2>2
<1> QED
  BY <1>6, <1>9, <1>11, <1>12, <1>13 DEF SearchedTo

(* What the store counts is what the definition by paths counts.           *)
LEMMA FullMeans ==
  ASSUME NEW G \in Graph, IsFiniteSet(G.nodes), NEW id \in NodeId, NEW q,
         NEW k \in Nat, NEW s, SearchedTo(G, id, k, q, s)
  PROVE  Full(s, q) <=>
           q.limit > 0 /\ Cardinality(Ball(G, id, k, q).nodes \ {id}) >= q.limit
<1> DEFINE N == Within(G, id, k, q) \cap G.nodes
<1>1. id \in Within(G, id, k, q)
  BY WithinNone, WithinGrows
<1>2. IsFiniteSet(N)
  BY FS_Subset
<1>3. s.nodes = N /\ Ball(G, id, k, q).nodes = N /\ s.start = N \cap {id}
  BY <1>1 DEF SearchedTo, Ball
<1>4. Cardinality(N \ {id}) = Cardinality(N) - Cardinality(N \cap {id})
  BY <1>2, FS_Difference
<1> QED
  BY <1>3, <1>4 DEF Full

(* After d layers the search has expanded d of them, or has stopped at the *)
(* first that was enough or led nowhere.                                   *)
Stopped(G, id, q, d) ==
  \E k \in 0..d :
    /\ SearchedTo(G, id, k, q, Search(G, id, q)[d])
    /\ k = d \/ Exhausted(Search(G, id, q)[d], q)
    /\ \A j \in 0..(k - 1) : ~EnoughAt(G, id, j, q)

LEMMA SearchStops ==
  ASSUME NEW G \in Graph, IsFiniteSet(G.nodes), NEW id \in NodeId, NEW q \in Query
  PROVE  \A d \in 0..q.depth : Stopped(G, id, q, d)
<1>0. q.depth \in Nat
  BY DEF Query
<1> DEFINE s(d) == Search(G, id, q)[d]
           S == {d \in Nat : d <= q.depth => Stopped(G, id, q, d)}
<1>1. 0 \in S
  <2>1. SearchedTo(G, id, 0, q, s(0))
    BY <1>0, SeedSearches, SearchUnfolds
  <2> QED
    BY <2>1 DEF Stopped
<1>2. ASSUME NEW d \in Nat, d \in S
      PROVE  d + 1 \in S
  <2> SUFFICES ASSUME d + 1 <= q.depth
               PROVE  Stopped(G, id, q, d + 1)
    OBVIOUS
  <2>1. s(d + 1) = Onward(G, s(d), q)
    <3>1. d + 1 \in 1..q.depth /\ (d + 1) - 1 = d
      BY <1>0
    <3> QED
      BY <1>0, <3>1, SearchUnfolds
  <2>2. PICK k \in 0..d :
          /\ SearchedTo(G, id, k, q, s(d))
          /\ k = d \/ Exhausted(s(d), q)
          /\ \A j \in 0..(k - 1) : ~EnoughAt(G, id, j, q)
    BY <1>0, <1>2 DEF Stopped
  <2> HIDE DEF s
  <2>3. CASE Exhausted(s(d), q)
    <3>1. s(d + 1) = s(d)
      BY <2>1, <2>3 DEF Onward
    <3> QED
      BY <2>2, <2>3, <3>1 DEF Stopped, s
  <2>4. CASE ~Exhausted(s(d), q)
    <3>1. k = d
      BY <2>2, <2>4
    <3>2. SearchedTo(G, id, d + 1, q, s(d + 1))
      BY <2>1, <2>2, <2>4, <3>1, ExpandSearches DEF Onward
    <3>3. ~EnoughAt(G, id, d, q)
      BY <1>0, <2>2, <2>4, <3>1, FullMeans DEF Exhausted, EnoughAt
    <3>4. \A j \in 0..((d + 1) - 1) : ~EnoughAt(G, id, j, q)
      BY <2>2, <3>1, <3>3
    <3> QED
      BY <3>2, <3>4 DEF Stopped, s
  <2> QED
    BY <2>3, <2>4
<1> HIDE DEF S
<1>3. Nat \subseteq S
  BY <1>1, <1>2, SetInduction
<1> QED
  BY <1>0, <1>3 DEF S

(* Nothing lies beyond an empty layer.                                     *)
LEMMA NothingBeyond ==
  ASSUME NEW G \in Graph, NEW id \in NodeId, NEW q, NEW k \in Nat,
         Rim(G, id, k, q) = {}
  PROVE  \A j \in Nat : j >= k => Ball(G, id, j, q) = Ball(G, id, k, q)
<1> DEFINE W(j) == Within(G, id, j, q)
<1>1. W(k - 1) = W(k)
  <2>1. k - 1 \in Int /\ k \in Int /\ k - 1 <= k
    OBVIOUS
  <2>2. W(k - 1) \subseteq W(k)
    BY <2>1, WithinGrows
  <2> QED
    BY <2>2 DEF Rim
<1>2. \A j \in Nat : W(k + j) = W(k)
  <2> DEFINE S == {j \in Nat : W(k + j) = W(k)}
  <2>1. 0 \in S
    OBVIOUS
  <2>2. Reached(G, W(k), q) \subseteq W(k)
    <3>1. k # 0
      BY <1>1, WithinNone
    <3>2. k - 1 \in Nat /\ (k - 1) + 1 = k
      BY <3>1
    <3> QED
      BY <1>1, <3>2, WithinStep
  <2>3. ASSUME NEW j \in Nat, j \in S
        PROVE  j + 1 \in S
    <3>1. k + j \in Nat /\ k + (j + 1) = (k + j) + 1
      OBVIOUS
    <3>2. W((k + j) + 1) = W(k + j) \cup Reached(G, W(k + j), q)
      BY <3>1, WithinStep
    <3>3. W(k + j) = W(k)
      BY <2>3
    <3>4. W(k + (j + 1)) = W(k)
      BY <2>2, <3>1, <3>2, <3>3
    <3> QED
      BY <3>4
  <2> HIDE DEF S
  <2>4. Nat \subseteq S
    BY <2>1, <2>3, SetInduction
  <2> QED
    BY <2>4 DEF S
<1>3. ASSUME NEW j \in Nat, j >= k
      PROVE  W(j) = W(k) /\ W(j - 1) = W(k)
  <2>1. j - k \in Nat /\ k + (j - k) = j
    BY <1>3
  <2>2. W(j) = W(k)
    BY <1>2, <2>1
  <2>3. CASE j = k
    BY <1>1, <2>2, <2>3
  <2>4. CASE j # k
    <3>1. j - 1 - k \in Nat /\ k + (j - 1 - k) = j - 1
      BY <1>3, <2>4
    <3> QED
      BY <1>2, <2>2, <3>1
  <2> QED
    BY <2>3, <2>4
<1> QED
  BY <1>1, <1>3 DEF Ball

(* mock.ts:36 and neo4j-store.ts:79, "layer-complete BFS": on any finite   *)
(* graph, with cycles, self-loops and edges to ids without a node, and for *)
(* any depth, direction, edge types and limit, the search by layers gives  *)
(* the smallest ball around the seed that satisfies the query.             *)
THEOREM TraversalIsComplete ==
  ASSUME NEW G \in Graph, IsFiniteSet(G.nodes), NEW id \in NodeId, NEW q \in Query
  PROVE  LayerComplete(G, id, q)
<1> DEFINE s == Search(G, id, q)[q.depth]
           B(k) == Ball(G, id, k, q)
<1>1. q.depth \in Nat /\ q.depth \in 0..q.depth
  BY DEF Query
<1>2. PICK k \in 0..q.depth :
        /\ SearchedTo(G, id, k, q, s)
        /\ k = q.depth \/ Exhausted(s, q)
        /\ \A j \in 0..(k - 1) : ~EnoughAt(G, id, j, q)
  BY <1>1, SearchStops DEF Stopped
<1>3. Neighbors(G, id, q) = B(k)
  BY <1>2 DEF Neighbors, Answer, SearchedTo, Ball
<1>4. CASE EnoughAt(G, id, k, q)
  BY <1>2, <1>3, <1>4 DEF LayerComplete
<1>5. CASE ~EnoughAt(G, id, k, q)
  <2>1. k # q.depth /\ ~Full(s, q)
    BY <1>1, <1>2, <1>5, FullMeans DEF EnoughAt
  <2>2. Rim(G, id, k, q) = {}
    BY <1>2, <2>1 DEF Exhausted, SearchedTo
  <2>3. \A j \in Nat : j >= k => B(j) = B(k)
    BY <1>1, <2>2, NothingBeyond
  <2>4. \A j \in 0..(q.depth - 1) : ~EnoughAt(G, id, j, q)
    <3> SUFFICES ASSUME NEW j \in 0..(q.depth - 1), j >= k
                 PROVE  ~EnoughAt(G, id, j, q)
      BY <1>1, <1>2
    <3> QED
      BY <1>1, <1>5, <2>3 DEF EnoughAt
  <2>5. EnoughAt(G, id, q.depth, q)
    BY DEF EnoughAt
  <2>6. Neighbors(G, id, q) = B(q.depth)
    BY <1>1, <1>3, <2>3
  <2> QED
    BY <1>1, <2>4, <2>5, <2>6 DEF LayerComplete
<1> QED
  BY <1>4, <1>5

(* Without a limit it is everything within the depth.                      *)
LEMMA UnlimitedIsBall ==
  ASSUME NEW G \in Graph, IsFiniteSet(G.nodes), NEW id \in NodeId, NEW q \in Query,
         q.limit = 0
  PROVE  Neighbors(G, id, q) = Ball(G, id, q.depth, q)
<1>1. LayerComplete(G, id, q)
  BY TraversalIsComplete
<1>2. \A k \in 0..q.depth : EnoughAt(G, id, k, q) => k = q.depth
  BY DEF EnoughAt
<1> QED
  BY <1>1, <1>2 DEF LayerComplete

-----------------------------------------------------------------------------
(***************************************************************************)
(* A search of a graph that grows between its layers: B is the graph when  *)
(* it was asked for, D the graph now.                                      *)
(***************************************************************************)
Extends(B, D) == B.nodes \subseteq D.nodes /\ B.edges \subseteq D.edges

(* What was expanded has given all it led to from the beginning.           *)
Expanded(s) == s.visited \ s.layer

Sandwiched(B, D, id, k, q, s) ==
  /\ s \in State /\ s.layer \subseteq s.visited
  /\ s.visited \subseteq Within(D, id, k, q)
  /\ s.nodes \subseteq Ball(D, id, k, q).nodes
  /\ s.edges \subseteq Ball(D, id, k, q).edges
  /\ Within(B, id, k, q) \subseteq s.visited
  /\ Within(B, id, k - 1, q) \subseteq Expanded(s)
  /\ s.visited \cap B.nodes \subseteq s.nodes
  /\ \A m \in Expanded(s), e \in B.edges, n \in NodeId :
       Leads(e, m, n, q) => n \in s.visited /\ e \in s.edges
  /\ {id} \cap B.nodes \subseteq s.start /\ s.start \subseteq {id} \cap s.nodes

LEMMA WithinMonotone ==
  ASSUME NEW B, NEW D, B.edges \subseteq D.edges, NEW id, NEW q, NEW k
  PROVE  Within(B, id, k, q) \subseteq Within(D, id, k, q)
  BY DEF Within

LEMMA BallMonotone ==
  ASSUME NEW B, NEW D, Extends(B, D), NEW id, NEW q, NEW k
  PROVE  /\ Ball(B, id, k, q).nodes \subseteq Ball(D, id, k, q).nodes
         /\ Ball(B, id, k, q).edges \subseteq Ball(D, id, k, q).edges
<1>1. /\ Within(B, id, k, q) \subseteq Within(D, id, k, q)
      /\ Within(B, id, k - 1, q) \subseteq Within(D, id, k - 1, q)
  BY WithinMonotone DEF Extends
<1> QED
  BY <1>1 DEF Ball, Extends

LEMMA SeedIsSandwiched ==
  ASSUME NEW B \in Graph, NEW D \in Graph, Extends(B, D), NEW id \in NodeId, NEW q
  PROVE  Sandwiched(B, D, id, 0, q, Seed(D, id))
<1>1. Seed(D, id) \in State
  BY DEF Seed, State, Graph
<1> QED
  BY <1>1, WithinNone DEF Sandwiched, Expanded, Seed, Ball, Extends

LEMMA GrowthKeepsSandwich ==
  ASSUME NEW B, NEW D, NEW E, Extends(D, E), NEW id, NEW q, NEW k, NEW s,
         Sandwiched(B, D, id, k, q, s)
  PROVE  Sandwiched(B, E, id, k, q, s)
<1>1. Within(D, id, k, q) \subseteq Within(E, id, k, q)
  BY WithinMonotone DEF Extends
<1>2. /\ Ball(D, id, k, q).nodes \subseteq Ball(E, id, k, q).nodes
      /\ Ball(D, id, k, q).edges \subseteq Ball(E, id, k, q).edges
  BY BallMonotone
<1> QED
  BY <1>1, <1>2 DEF Sandwiched

LEMMA ExpandKeepsSandwich ==
  ASSUME NEW B \in Graph, NEW D \in Graph, Extends(B, D), NEW id \in NodeId, NEW q,
         NEW k \in Nat, NEW s, Sandwiched(B, D, id, k, q, s)
  PROVE  Sandwiched(B, D, id, k + 1, q, Expand(D, s, q))
<1> DEFINE R == Reached(D, s.layer, q)
           C == Crossed(D, s.layer, q)
           t == Expand(D, s, q)
<1>1. /\ s \in State /\ s.layer \subseteq s.visited
      /\ s.layer \in SUBSET NodeId /\ s.visited \in SUBSET NodeId
  BY DEF Sandwiched, State
<1>2. R \subseteq NodeId /\ (\A n : n \in R <=> \E m \in s.layer, e \in D.edges : Leads(e, m, n, q))
  BY <1>1, ReachedMeans
<1>3. C = {e \in D.edges : \E m \in s.layer, n \in NodeId : Leads(e, m, n, q)}
  BY <1>1, CrossedMeans
<1>4. /\ t \in State
      /\ t.visited = s.visited \cup R /\ t.layer = R \ s.visited /\ t.start = s.start
      /\ t.nodes = s.nodes \cup (R \cap D.nodes) /\ t.edges = s.edges \cup C
  <2>1. C \subseteq Edge /\ D.nodes \subseteq NodeId
    BY DEF Crossed, Graph
  <2> HIDE DEF R, C
  <2> QED
    BY <1>1, <1>2, <2>1 DEF Expand, State, R, C
<1>5. Expanded(t) = s.visited
  BY <1>4 DEF Expanded
<1>6. (k + 1) - 1 = k
  OBVIOUS
<1> HIDE DEF R, C, t
<1>7. Within(D, id, k + 1, q) =
        Within(D, id, k, q) \cup Reached(D, Within(D, id, k, q), q)
  BY WithinStep
<1>8. /\ s.visited \subseteq Within(D, id, k, q)
      /\ Within(D, id, k, q) \in SUBSET NodeId
      /\ Within(B, id, k, q) \in SUBSET NodeId
  BY DEF Sandwiched, Within
<1>9. t.visited \subseteq Within(D, id, k + 1, q)
  <2>1. R \subseteq Reached(D, Within(D, id, k, q), q)
    BY <1>1, <1>2, <1>8, ReachedMeans
  <2> QED
    BY <1>4, <1>7, <1>8, <2>1
<1>10. t.nodes \subseteq Ball(D, id, k + 1, q).nodes
  <2>1. s.nodes \subseteq Within(D, id, k, q) \cap D.nodes
    BY DEF Sandwiched, Ball
  <2> QED
    BY <1>4, <1>7, <1>9, <2>1 DEF Ball
<1>11. t.edges \subseteq Ball(D, id, k + 1, q).edges
  <2>1. /\ s.edges \subseteq Ball(D, id, k, q).edges
        /\ Within(D, id, k - 1, q) \subseteq Within(D, id, k, q)
    BY WithinGrows DEF Sandwiched
  <2>2. Ball(D, id, k + 1, q).edges =
          {e \in D.edges : \E m \in Within(D, id, k, q), n \in NodeId : Leads(e, m, n, q)}
    BY <1>6 DEF Ball
  <2>3. Ball(D, id, k, q).edges =
          {e \in D.edges : \E m \in Within(D, id, k - 1, q), n \in NodeId : Leads(e, m, n, q)}
    BY DEF Ball
  <2> QED
    BY <1>1, <1>3, <1>4, <1>8, <2>1, <2>2, <2>3
<1>12. \A m \in s.visited, e \in B.edges, n \in NodeId :
         Leads(e, m, n, q) => n \in t.visited /\ e \in t.edges
  BY <1>2, <1>3, <1>4 DEF Sandwiched, Expanded, Extends
<1>13. Within(B, id, k + 1, q) \subseteq t.visited
  <2>1. Within(B, id, k, q) \subseteq s.visited
    BY DEF Sandwiched
  <2>2. Within(B, id, k + 1, q) =
          Within(B, id, k, q) \cup Reached(B, Within(B, id, k, q), q)
    BY WithinStep
  <2>3. Reached(B, Within(B, id, k, q), q) \subseteq t.visited
    BY <1>8, <1>12, <2>1, ReachedMeans
  <2> QED
    BY <1>4, <2>1, <2>2, <2>3
<1>14. Within(B, id, (k + 1) - 1, q) \subseteq Expanded(t)
  BY <1>5, <1>6 DEF Sandwiched
<1>15. /\ t.visited \cap B.nodes \subseteq t.nodes /\ t.layer \subseteq t.visited
       /\ {id} \cap B.nodes \subseteq t.start /\ t.start \subseteq {id} \cap t.nodes
  BY <1>4 DEF Sandwiched, Extends
<1>16. Sandwiched(B, D, id, k + 1, q, t)
  BY <1>4, <1>5, <1>9, <1>10, <1>11, <1>12, <1>13, <1>14, <1>15 DEF Sandwiched
<1> QED
  BY <1>16 DEF t

(* A set of ids that no edge leaves holds everything within any distance.  *)
LEMMA ClosedHoldsAll ==
  ASSUME NEW G \in Graph, NEW id \in NodeId, NEW q, NEW V \in SUBSET NodeId, id \in V,
         \A m \in V, e \in G.edges, n \in NodeId : Leads(e, m, n, q) => n \in V
  PROVE  \A k \in Nat : Within(G, id, k, q) \subseteq V
<1> DEFINE S == {k \in Nat : Within(G, id, k, q) \subseteq V}
<1>1. 0 \in S
  BY WithinNone
<1>2. ASSUME NEW k \in Nat, k \in S
      PROVE  k + 1 \in S
  <2>1. Within(G, id, k, q) \in SUBSET NodeId /\ Within(G, id, k, q) \subseteq V
    BY <1>2 DEF Within
  <2>2. Reached(G, Within(G, id, k, q), q) \subseteq V
    BY <2>1, ReachedMeans
  <2>3. Within(G, id, k + 1, q) \subseteq V
    BY <2>1, <2>2, WithinStep
  <2> QED
    BY <2>3
<1> HIDE DEF S
<1>3. Nat \subseteq S
  BY <1>1, <1>2, SetInduction
<1> QED
  BY <1>3 DEF S

(* A search that is over, on a graph whose edges had both their ends.      *)
LEMMA OverIsSandwiched ==
  ASSUME NEW B \in Graph, \A e \in B.edges : {e.src, e.dst} \subseteq B.nodes,
         NEW D \in Graph, IsFiniteSet(D.nodes), NEW id \in NodeId, NEW q \in Query,
         NEW k \in 0..q.depth, NEW s, Sandwiched(B, D, id, k, q, s),
         k = q.depth \/ Exhausted(s, q)
  PROVE  /\ s.nodes \subseteq Ball(D, id, q.depth, q).nodes
         /\ s.edges \subseteq Ball(D, id, q.depth, q).edges
         /\ \/ /\ Ball(B, id, q.depth, q).nodes \subseteq s.nodes
               /\ Ball(B, id, q.depth, q).edges \subseteq s.edges
            \/ /\ q.limit > 0
               /\ \/ Ball(B, id, q.depth, q).nodes = {}
                  \/ Cardinality(s.nodes \ {id}) >= q.limit
<1>1. q.depth \in Nat /\ q.limit \in Nat /\ k <= q.depth /\ k \in Int
  BY DEF Query
<1>2. /\ Within(D, id, k, q) \subseteq Within(D, id, q.depth, q)
      /\ Within(D, id, k - 1, q) \subseteq Within(D, id, q.depth - 1, q)
  BY <1>1, WithinGrows
<1>3. /\ s.nodes \subseteq Ball(D, id, q.depth, q).nodes
      /\ s.edges \subseteq Ball(D, id, q.depth, q).edges
  BY <1>2 DEF Sandwiched, Ball
<1>4. ASSUME Within(B, id, q.depth, q) \subseteq s.visited,
             Within(B, id, q.depth - 1, q) \subseteq Expanded(s)
      PROVE  /\ Ball(B, id, q.depth, q).nodes \subseteq s.nodes
             /\ Ball(B, id, q.depth, q).edges \subseteq s.edges
  BY <1>4 DEF Sandwiched, Ball
<1>5. CASE k = q.depth
  BY <1>3, <1>4, <1>5 DEF Sandwiched
<1>6. CASE s.layer = {}
  <2>1. Expanded(s) = s.visited /\ s.visited \in SUBSET NodeId
    BY <1>6 DEF Expanded, Sandwiched, State
  <2>2. id \in s.visited
    <3>1. Within(B, id, 0, q) \subseteq Within(B, id, k, q)
      BY <1>1, WithinGrows
    <3> QED
      BY <3>1, WithinNone DEF Sandwiched
  <2>3. \A j \in Nat : Within(B, id, j, q) \subseteq s.visited
    BY <2>1, <2>2, ClosedHoldsAll DEF Sandwiched
  <2>4. Within(B, id, q.depth - 1, q) \subseteq Within(B, id, q.depth, q)
    BY <1>1, WithinGrows
  <2> QED
    BY <1>1, <1>3, <1>4, <2>1, <2>3, <2>4
<1>7. CASE Full(s, q)
  <2>1. q.limit > 0 /\ Cardinality(s.nodes) - Cardinality(s.start) >= q.limit
    BY <1>7 DEF Full
  <2>2. IsFiniteSet(s.nodes)
    <3>1. s.nodes \subseteq D.nodes
      BY DEF Sandwiched, Ball
    <3> QED
      BY <3>1, FS_Subset
  <2>3. CASE id \in B.nodes
    <3>1. s.start = {id} /\ id \in s.nodes
      BY <2>3 DEF Sandwiched
    <3>2. Cardinality(s.nodes \ {id}) = Cardinality(s.nodes) - 1
      BY <2>2, <3>1, FS_RemoveElement
    <3> QED
      BY <1>3, <2>1, <3>1, <3>2, FS_Singleton
  <2>4. CASE id \notin B.nodes
    <3>1. \A m \in {id}, e \in B.edges, n \in NodeId : Leads(e, m, n, q) => n \in {id}
      BY <2>4 DEF Leads, Forward, Backward
    <3>2. Within(B, id, q.depth, q) \subseteq {id}
      BY <1>1, <3>1, ClosedHoldsAll
    <3> QED
      BY <1>3, <2>1, <2>4, <3>2 DEF Ball
  <2> QED
    BY <2>3, <2>4
<1> QED
  BY <1>5, <1>6, <1>7 DEF Exhausted

(* The limit plays no part in what is within a distance.                   *)
LEMMA BallWithoutLimit ==
  ASSUME NEW G, NEW id, NEW k, NEW q, NEW r, r.types = q.types, r.direction = q.direction
  PROVE  Ball(G, id, k, r) = Ball(G, id, k, q)
<1>1. \A e, m, n : Leads(e, m, n, r) <=> Leads(e, m, n, q)
  BY DEF Leads, Allowed, Forward, Backward
<1>2. \A j : Within(G, id, j, r) = Within(G, id, j, q)
  BY <1>1 DEF Within
<1>3. {e \in G.edges : \E m \in Within(G, id, k - 1, r), n \in NodeId : Leads(e, m, n, r)}
        = {e \in G.edges : \E m \in Within(G, id, k - 1, q), n \in NodeId : Leads(e, m, n, q)}
  BY <1>1, <1>2
<1> QED
  BY <1>2, <1>3 DEF Ball
=============================================================================
