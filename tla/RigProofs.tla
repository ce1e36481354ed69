------------------------------ MODULE RigProofs ------------------------------
(***************************************************************************)
(* What is proved of the dispatcher for any order of extractors, any       *)
(* contents of their files and any edits between its awaits.               *)
(***************************************************************************)
EXTENDS Rig, FiniteSetTheorems, SequenceTheorems, WellFoundedInduction, TLAPS

(***************************************************************************)
(* Induction over the naturals, of a set instead of a predicate.           *)
(***************************************************************************)
LEMMA LeastOf ==
  ASSUME NEW S \in SUBSET Nat, S # {}
  PROVE  \E n \in S : \A m \in S : n <= m
<1> DEFINE R == OpToRel(<, Nat)
<1>1. IsWellFoundedOn(R, Nat)
  BY NatLessThanWellFounded
<1>2. \A x, y \in Nat : <<x, y>> \in R <=> x < y
  BY DEF OpToRel
<1> HIDE DEF R
<1>3. PICK n \in S : \A m \in S : ~(<<m, n>> \in R)
  BY <1>1, WFMin
<1>4. \A m \in S : ~(m < n)
  BY <1>2, <1>3, Zenon
<1> QED
  BY <1>4

LEMMA InductionTo ==
  ASSUME NEW S, NEW n \in Nat, 1 \in S, \A i \in 1..(n - 1) : i \in S => i + 1 \in S
  PROVE  1..n \subseteq S
<1> SUFFICES ASSUME 1..n \ S # {} PROVE FALSE
  OBVIOUS
<1>1. PICK i \in 1..n \ S : \A j \in 1..n \ S : i <= j
  <2> DEFINE T == 1..n \ S
  <2>1. T \in SUBSET Nat /\ T # {}
    OBVIOUS
  <2> HIDE DEF T
  <2>2. \E i \in T : \A j \in T : i <= j
    BY <2>1, LeastOf
  <2> QED
    BY <2>2 DEF T
<1>2. i # 1 /\ i - 1 \in 1..(n - 1)
  BY <1>1
<1>3. i - 1 \in S
  BY <1>1, <1>2
<1> QED
  BY <1>1, <1>2, <1>3

-----------------------------------------------------------------------------
(* A finite set as a sequence has its elements and no others.              *)
LEMMA ListIsFinite ==
  ASSUME NEW X, NEW s \in Seq(X)
  PROVE  IsFiniteSet(ToSet(s)) /\ ToSet(s) \subseteq X
<1> DEFINE f == [i \in 1..Len(s) |-> s[i]]
<1>1. IsFiniteSet(1..Len(s))
  BY FS_Interval
<1>2. f \in Surjection(1..Len(s), ToSet(s))
  BY DEF Surjection, ToSet
<1> QED
  BY <1>1, <1>2, FS_Surjection DEF ToSet

LEMMA ListedOnce ==
  ASSUME NEW S, IsFiniteSet(S)
  PROVE  SetToSeq(S) \in Seq(S) /\ ToSet(SetToSeq(S)) = S
<1> DEFINE n == Cardinality(S)
           f == SetToSeq(S)
<1>1. n \in Nat
  BY FS_CardinalityType
<1>2. PICK g : g \in Bijection(1..n, S)
  BY FS_CardinalityType DEF ExistsBijection
<1>3. g \in [1..n -> S] /\ IsInjective(g)
  BY <1>2 DEF Bijection, Injection, IsInjective
<1>4. f \in [1..n -> S] /\ IsInjective(f)
  BY <1>3 DEF SetToSeq
<1> HIDE DEF f
<1>5. f \in Injection(1..n, S)
  BY <1>4 DEF Injection, IsInjective
<1>6. f \in Surjection(1..n, S)
  <2>1. IsFiniteSet(1..n) /\ Cardinality(1..n) = n
    BY <1>1, FS_Interval
  <2> QED
    BY <1>5, <2>1, FS_Injection
<1> QED
  BY <1>1, <1>4, <1>6 DEF f, Surjection, ToSet

(* The first entry with an id is an entry with that id.                    *)
LEMMA FirstIsOne ==
  ASSUME NEW X, NEW list \in Seq(X), NEW id \in Ids(list)
  PROVE  FirstWith(list, id) \in ToSet(list) /\ FirstWith(list, id).id = id
<1> DEFINE I == {i \in 1..Len(list) : list[i].id = id}
<1>1. I \in SUBSET Nat /\ I # {}
  BY DEF Ids, ToSet
<1>2. PICK m \in I : \A i \in I : m <= i
  <2> HIDE DEF I
  <2> QED
    BY <1>1, LeastOf
<1>3. Min(I) \in I
  <2> HIDE DEF I
  <2> QED
    BY <1>2 DEF Min
<1>4. SelectInSeq(list, LAMBDA x : x.id = id) = Min(I)
  BY <1>1 DEF SelectInSeq
<1>5. FirstWith(list, id) = list[Min(I)]
  BY <1>4 DEF FirstWith
<1>6. Min(I) \in DOMAIN list /\ list[Min(I)].id = id
  BY <1>3
<1> QED
  BY <1>5, <1>6 DEF ToSet

(* Concatenation keeps the entries of every list, and adds none.           *)
LEMMA FlattenUnfolds ==
  ASSUME NEW X, NEW ss \in Seq(Seq(X)), ss # <<>>
  PROVE  \E f : /\ FlattenSeq(ss) = f[Len(ss)]
                /\ f = [i \in 1..Len(ss) |-> IF i = 1 THEN ss[i] ELSE f[i - 1] \o ss[i]]
<1> DEFINE n == Len(ss)
           Solves(f, k) ==
             f = [i \in 1..k |-> IF i = 1 THEN ss[i] ELSE f[i - 1] \o ss[i]]
           S == {k \in Nat : \E f : Solves(f, k)}
           F == CHOOSE f : Solves(f, n)
<1>1. n \in Nat /\ n # 0 /\ n \in 1..n
  OBVIOUS
<1>2. 1 \in S
  <2>1. Solves([i \in 1..1 |-> ss[1]], 1)
    OBVIOUS
  <2> QED
    BY <2>1
<1>3. ASSUME NEW k \in 1..(n - 1), k \in S
      PROVE  k + 1 \in S
  <2>1. PICK f : Solves(f, k)
    BY <1>3
  <2> DEFINE g == [i \in 1..(k + 1) |-> IF i <= k THEN f[i] ELSE f[k] \o ss[k + 1]]
  <2>2. ASSUME NEW i \in 1..(k + 1)
        PROVE  g[i] = IF i = 1 THEN ss[i] ELSE g[i - 1] \o ss[i]
    <3>1. k \in 1..k /\ k \in Nat /\ k + 1 # 1 /\ (k + 1) - 1 = k
      BY <1>1
    <3>2. CASE i = k + 1
      <4>1. k \in 1..(k + 1) /\ k <= k /\ k + 1 \in 1..(k + 1) /\ ~(k + 1 <= k)
        BY <3>1
      <4>2. g[k] = f[k] /\ g[k + 1] = f[k] \o ss[k + 1]
        BY <4>1
      <4> HIDE DEF g
      <4> QED
        BY <3>1, <3>2, <4>2
    <3>3. CASE i <= k
      <4>1. i \in 1..k /\ (i # 1 => i - 1 \in 1..k /\ i - 1 \in 1..(k + 1) /\ i - 1 <= k)
        BY <3>1, <3>3
      <4>2. g[i] = f[i] /\ (i # 1 => g[i - 1] = f[i - 1])
        BY <3>3, <4>1
      <4>3. f[i] = IF i = 1 THEN ss[i] ELSE f[i - 1] \o ss[i]
        BY <2>1, <4>1
      <4> QED
        BY <4>2, <4>3
    <3> QED
      BY <3>1, <3>2, <3>3
  <2>3. Solves(g, k + 1)
    BY <2>2
  <2> HIDE DEF g, Solves
  <2>4. k + 1 \in Nat
    BY <1>1
  <2> QED
    BY <2>3, <2>4
<1>4. n \in S
  <2> HIDE DEF S
  <2> QED
    BY <1>1, <1>2, <1>3, InductionTo
<1>5. Solves(F, n)
  BY <1>4
<1>6. FlattenSeq(ss) = F[n]
  BY <1>1 DEF FlattenSeq
<1> QED
  BY <1>5, <1>6

LEMMA ConcatKeeps ==
  ASSUME NEW X, NEW s \in Seq(X), NEW t \in Seq(X)
  PROVE  s \o t \in Seq(X) /\ ToSet(s \o t) = ToSet(s) \cup ToSet(t)
<1>1. s \o t \in Seq(X)
  OBVIOUS
<1>2. Range(s \o t) = Range(s) \cup Range(t)
  BY RangeConcatenation
<1>3. \A u : ToSet(u) = Range(u)
  BY DEF ToSet, Range
<1> QED
  BY <1>1, <1>2, <1>3

LEMMA FlattenKeeps ==
  ASSUME NEW X, NEW ss \in Seq(Seq(X))
  PROVE  /\ FlattenSeq(ss) \in Seq(X)
         /\ ToSet(FlattenSeq(ss)) = UNION {ToSet(ss[k]) : k \in DOMAIN ss}
<1>1. CASE ss = <<>>
  BY <1>1 DEF FlattenSeq, ToSet
<1>2. CASE ss # <<>>
  <2> DEFINE n == Len(ss)
             Before(i) == UNION {ToSet(ss[k]) : k \in 1..i}
  <2>1. n \in Nat /\ n # 0 /\ n \in 1..n /\ DOMAIN ss = 1..n
    BY <1>2
  <2>2. PICK f : /\ FlattenSeq(ss) = f[n]
                 /\ f = [i \in 1..n |-> IF i = 1 THEN ss[i] ELSE f[i - 1] \o ss[i]]
    BY <1>2, FlattenUnfolds
  <2> DEFINE S == {i \in 1..n : f[i] \in Seq(X) /\ ToSet(f[i]) = Before(i)}
  <2>3. 1 \in S
    <3>1. f[1] = ss[1] /\ ss[1] \in Seq(X)
      BY <2>1, <2>2
    <3>2. Before(1) = ToSet(ss[1])
      OBVIOUS
    <3> QED
      BY <2>1, <3>1, <3>2
  <2>4. ASSUME NEW i \in 1..(n - 1), i \in S
        PROVE  i + 1 \in S
    <3>1. i + 1 \in 1..n /\ i + 1 # 1 /\ (i + 1) - 1 = i
      BY <2>1
    <3>2. f[i + 1] = f[i] \o ss[i + 1]
      <4> HIDE DEF S
      <4> QED
        BY <2>2, <3>1
    <3>3. ss[i + 1] \in Seq(X) /\ f[i] \in Seq(X)
      BY <2>1, <2>4, <3>1
    <3>4. ToSet(f[i + 1]) = ToSet(f[i]) \cup ToSet(ss[i + 1])
      BY <3>2, <3>3, ConcatKeeps
    <3>5. Before(i + 1) = Before(i) \cup ToSet(ss[i + 1])
      <4>1. 1..(i + 1) = 1..i \cup {i + 1}
        OBVIOUS
      <4> QED
        BY <4>1
    <3>6. f[i + 1] \in Seq(X)
      BY <3>2, <3>3, ConcatKeeps
    <3>7. ToSet(f[i]) = Before(i)
      BY <2>4
    <3> HIDE DEF Before
    <3> QED
      BY <3>1, <3>4, <3>5, <3>6, <3>7
  <2>5. n \in S
    <3> HIDE DEF S
    <3> QED
      BY <2>1, <2>3, <2>4, InductionTo
  <2> QED
    BY <2>1, <2>2, <2>5
<1> QED
  BY <1>1, <1>2


-----------------------------------------------------------------------------
-----------------------------------------------------------------------------
(* What the extractors return, and what becomes of it in the merged graph. *)
LEMMA ScriptTargetsAreParts ==
  ASSUME NEW id \in Id, NEW p, p.scripts \in Scripts
  PROVE  ScriptTargets(id, p) \in Seq(Part)
<1> DEFINE T == {[id |-> <<id, s>>, owner |-> id] : s \in p.scripts}
<1>1. IsFiniteSet(p.scripts) /\ p.scripts \subseteq Script
  BY DEF Scripts
<1>2. IsFiniteSet(T)
  <2> DEFINE f == [s \in p.scripts |-> [id |-> <<id, s>>, owner |-> id]]
  <2>1. f \in Surjection(p.scripts, T)
    BY DEF Surjection
  <2> HIDE DEF f, T
  <2> QED
    BY <1>1, <2>1, FS_Surjection
<1>3. T \subseteq Part
  BY <1>1 DEF Part
<1>4. SetToSeq(T) \in Seq(T)
  BY <1>2, ListedOnce
<1> HIDE DEF T
<1>5. SetToSeq(T) \in Seq(Part)
  BY <1>3, <1>4, SeqMonotonic
<1> QED
  BY <1>5 DEF ScriptTargets, T

LEMMA EmptyIsTyped == Empty \in RigGraphs
  BY EmptySeq DEF Empty, RigGraphs

LEMMA PackageJsonIsTyped ==
  ASSUME NEW f \in [root : Package, members : Seq(Package)]
  PROVE  PackageJsonGraph(f) \in RigGraphs
<1> DEFINE names == {m.name : m \in ToSet(f.members)}
           CF(p, deps) == [id |-> PkgId(p.name), path |-> p.path,
                           dependsOn |-> {PkgId(d) : d \in deps \cap names}]
           packages == <<f.root>> \o f.members
           of == [k \in DOMAIN f.members |-> CF(f.members[k], f.members[k].deps)]
           ts == [k \in DOMAIN packages |->
                    ScriptTargets(PkgId(packages[k].name), packages[k])]
<1>1. \A n \in Name : PkgId(n) \in Id
  BY RigAssumption DEF PkgId, Id
<1>2. f.root \in Package /\ f.members \in Seq(Package) /\ packages \in Seq(Package)
  OBVIOUS
<1>3. ASSUME NEW p \in Package, NEW deps, deps \subseteq Name
      PROVE  CF(p, deps) \in Component
  <2>1. p.name \in Name /\ p.path \in Path
    BY DEF Package
  <2>2. {PkgId(d) : d \in deps \cap names} \subseteq Id
    BY <1>1, <1>3
  <2> QED
    BY <1>1, <2>1, <2>2 DEF Component
<1> HIDE DEF CF
<1>4. <<CF(f.root, {})>> \in Seq(Component)
  BY <1>2, <1>3
<1>5. of \in Seq(Component)
  <2>1. \A k \in DOMAIN f.members : f.members[k] \in Package
    BY <1>2
  <2>2. \A p \in Package : p.deps \subseteq Name
    BY DEF Package
  <2>3. \A k \in DOMAIN f.members : CF(f.members[k], f.members[k].deps) \in Component
    BY <1>3, <2>1, <2>2
  <2>4. DOMAIN f.members = 1..Len(f.members) /\ Len(f.members) \in Nat
    BY <1>2
  <2>5. of \in [1..Len(f.members) -> Component]
    BY <2>3, <2>4
  <2> HIDE DEF of
  <2> QED
    BY <2>4, <2>5
<1>6. FlattenSeq(ts) \in Seq(Part)
  <2>1. \A k \in DOMAIN packages : packages[k] \in Package
    BY <1>2
  <2>2. \A k \in DOMAIN packages : ts[k] \in Seq(Part)
    BY <1>1, <2>1, ScriptTargetsAreParts DEF Package
  <2>3. DOMAIN packages = 1..Len(packages) /\ Len(packages) \in Nat
    BY <1>2
  <2> HIDE DEF packages
  <2>4. ts \in [1..Len(packages) -> Seq(Part)]
    BY <2>2, <2>3
  <2> HIDE DEF ts
  <2>5. ts \in Seq(Seq(Part))
    BY <2>3, <2>4
  <2> QED
    BY <2>5, FlattenKeeps
<1>7. <<CF(f.root, {})>> \o of \in Seq(Component)
  BY <1>4, <1>5, ConcatKeeps
<1>8. PackageJsonGraph(f) =
        [components |-> <<CF(f.root, {})>> \o of, targets |-> FlattenSeq(ts), tests |-> <<>>]
  BY DEF PackageJsonGraph, CF
<1> HIDE DEF of, ts
<1> QED
  BY <1>6, <1>7, <1>8, EmptySeq DEF RigGraphs

LEMMA PyProjectIsTyped ==
  ASSUME NEW f \in [name : Name, deps : SUBSET Name, scripts : Scripts]
  PROVE  PyProjectGraph(f) \in RigGraphs
<1>1. \A n \in Name : PyId(n) \in Id
  BY RigAssumption DEF PyId, Id
<1>2. {PyId(d) : d \in f.deps} \subseteq Id
  BY <1>1
<1>3. [id |-> PyId(f.name), path |-> "root", dependsOn |-> {PyId(d) : d \in f.deps}]
        \in Component
  BY <1>1, <1>2, RigAssumption DEF Component
<1>4. ScriptTargets(PyId(f.name), f) \in Seq(Part)
  BY <1>1, ScriptTargetsAreParts
<1> QED
  BY <1>3, <1>4, EmptySeq DEF PyProjectGraph, RigGraphs

LEMMA GraphOfIsTyped ==
  ASSUME NEW e \in Extractor, NEW f \in Bad(e) \cup Held(e)
  PROVE  GraphOf(e, f) \in RigGraphs
<1>1. CASE f \in Bad(e)
  BY <1>1, EmptyIsTyped DEF GraphOf
<1>2. CASE f \notin Bad(e) /\ e = "package-json"
  BY <1>2, PackageJsonIsTyped DEF GraphOf, Held
<1>3. CASE f \notin Bad(e) /\ e = "pyproject"
  BY <1>3, PyProjectIsTyped DEF GraphOf, Held
<1>4. CASE f \notin Bad(e) /\ e \notin {"package-json", "pyproject"}
  BY <1>4 DEF GraphOf, Held
<1> QED
  BY <1>1, <1>2, <1>3, <1>4

LEMMA ListedKeeps ==
  ASSUME NEW X, NEW field, NEW gs \in Seq(RigGraphs),
         \A g \in RigGraphs : g[field] \in Seq(X)
  PROVE  /\ Listed(field, gs) \in Seq(X)
         /\ ToSet(Listed(field, gs)) = UNION {ToSet(g[field]) : g \in ToSet(gs)}
<1> DEFINE ss == [k \in DOMAIN gs |-> gs[k][field]]
<1>1. DOMAIN ss = DOMAIN gs /\ DOMAIN gs = 1..Len(gs) /\ Len(gs) \in Nat
  OBVIOUS
<1>2. \A k \in DOMAIN ss : ss[k] = gs[k][field] /\ ss[k] \in Seq(X)
  OBVIOUS
<1>3. Listed(field, gs) = FlattenSeq(ss)
  BY DEF Listed
<1>4. ss \in [1..Len(gs) -> Seq(X)]
  BY <1>1
<1> HIDE DEF ss
<1>5. ss \in Seq(Seq(X))
  BY <1>1, <1>4
<1>6. UNION {ToSet(ss[k]) : k \in DOMAIN ss} = UNION {ToSet(g[field]) : g \in ToSet(gs)}
  BY <1>1, <1>2 DEF ToSet
<1> QED
  BY <1>3, <1>5, <1>6, FlattenKeeps

(* The merge leaves one entry for each id of the lists: the first, and for *)
(* a component the dependencies of all of them.                            *)
LEMMA IdsAreFinite ==
  ASSUME NEW X, NEW list \in Seq(X)
  PROVE  IsFiniteSet(Ids(list))
<1> DEFINE f == [x \in ToSet(list) |-> x.id]
<1>1. f \in Surjection(ToSet(list), Ids(list))
  BY DEF Surjection, Ids
<1> HIDE DEF f
<1> QED
  BY <1>1, ListIsFinite, FS_Surjection

LEMMA MergedIs ==
  ASSUME NEW list \in Seq(Component)
  PROVE  /\ Merged(list) \in Seq(Component)
         /\ ToSet(Merged(list)) = {MergedComponent(list, id) : id \in Ids(list)}
<1> DEFINE S == {MergedComponent(list, id) : id \in Ids(list)}
<1>1. IsFiniteSet(S)
  <2> DEFINE f == [id \in Ids(list) |-> MergedComponent(list, id)]
  <2>1. f \in Surjection(Ids(list), S)
    BY DEF Surjection
  <2> HIDE DEF f, S
  <2> QED
    BY <2>1, IdsAreFinite, FS_Surjection
<1>2. ASSUME NEW id \in Ids(list)
      PROVE  MergedComponent(list, id) \in Component
  <2>1. FirstWith(list, id) \in Component /\ FirstWith(list, id).id = id
    BY FirstIsOne, ListIsFinite
  <2>2. \A c \in ToSet(list) : c.dependsOn \subseteq Id
    <3>1. \A c \in Component : c.dependsOn \subseteq Id
      BY DEF Component
    <3> QED
      BY <3>1, ListIsFinite
  <2>3. DependsOn(list, id) \subseteq Id
    BY <2>2 DEF DependsOn
  <2> QED
    BY <2>1, <2>3 DEF MergedComponent, Component
<1>3. S \subseteq Component
  BY <1>2
<1> HIDE DEF S
<1>5. SetToSeq(S) \in Seq(Component) /\ ToSet(SetToSeq(S)) = S
  BY <1>1, <1>3, ListedOnce, SeqMonotonic
<1> QED
  BY <1>5 DEF Merged, S

LEMMA FirstOfIs ==
  ASSUME NEW list \in Seq(Part)
  PROVE  /\ FirstOf(list) \in Seq(Part)
         /\ ToSet(FirstOf(list)) = {FirstWith(list, id) : id \in Ids(list)}
<1> DEFINE S == {FirstWith(list, id) : id \in Ids(list)}
<1>1. IsFiniteSet(S)
  <2> DEFINE f == [id \in Ids(list) |-> FirstWith(list, id)]
  <2>1. f \in Surjection(Ids(list), S)
    BY DEF Surjection
  <2> HIDE DEF f, S
  <2> QED
    BY <2>1, IdsAreFinite, FS_Surjection
<1>2. S \subseteq Part
  BY FirstIsOne, ListIsFinite
<1> HIDE DEF S
<1>3. SetToSeq(S) \in Seq(Part) /\ ToSet(SetToSeq(S)) = S
  BY <1>1, <1>2, ListedOnce, SeqMonotonic
<1> QED
  BY <1>3 DEF FirstOf, S

(* Ids of a merged list are those of its parts, and each stands for one    *)
(* entry.                                                                  *)
LEMMA MergeKeepsIds ==
  ASSUME NEW cs \in Seq(Component), NEW ps \in Seq(Part)
  PROVE  /\ Ids(Merged(cs)) = Ids(cs) /\ Ids(FirstOf(ps)) = Ids(ps)
         /\ \A c, d \in ToSet(Merged(cs)) : c.id = d.id => c = d
         /\ \A p, q \in ToSet(FirstOf(ps)) : p.id = q.id => p = q
<1>1. \A id : MergedComponent(cs, id).id = id
  BY DEF MergedComponent
<1>2. \A id \in Ids(ps) : FirstWith(ps, id).id = id
  BY FirstIsOne
<1>3. ToSet(Merged(cs)) = {MergedComponent(cs, id) : id \in Ids(cs)}
  BY MergedIs
<1>5. ToSet(FirstOf(ps)) = {FirstWith(ps, id) : id \in Ids(ps)}
  BY FirstOfIs
<1>6. Ids(Merged(cs)) = Ids(cs)
  <2>1. {x.id : x \in {MergedComponent(cs, id) : id \in Ids(cs)}} = Ids(cs)
    BY <1>1
  <2>2. Ids(Merged(cs)) = {x.id : x \in ToSet(Merged(cs))}
    BY DEF Ids
  <2> QED
    BY <1>3, <2>1, <2>2
<1>4. Ids(FirstOf(ps)) = Ids(ps)
  <2>1. {x.id : x \in {FirstWith(ps, id) : id \in Ids(ps)}} = Ids(ps)
    BY <1>2
  <2>2. Ids(FirstOf(ps)) = {x.id : x \in ToSet(FirstOf(ps))}
    BY DEF Ids
  <2> QED
    BY <1>5, <2>1, <2>2
<1>7. \A c, d \in ToSet(Merged(cs)) : c.id = d.id => c = d
  BY <1>1, <1>3
<1>8. \A p, q \in ToSet(FirstOf(ps)) : p.id = q.id => p = q
  BY <1>2, <1>5
<1> QED
  BY <1>6, <1>4, <1>7, <1>8

LEMMA MergeIsTyped ==
  ASSUME NEW gs \in Seq(RigGraphs)
  PROVE  /\ Listed("components", gs) \in Seq(Component)
         /\ Listed("targets", gs) \in Seq(Part)
         /\ Listed("tests", gs) \in Seq(Part)
         /\ mergeRigGraphs(gs) \in RigGraphs
<1>1. \A g \in RigGraphs : /\ g["components"] \in Seq(Component)
                            /\ g["targets"] \in Seq(Part) /\ g["tests"] \in Seq(Part)
  BY DEF RigGraphs
<1>2. /\ Listed("components", gs) \in Seq(Component)
      /\ Listed("targets", gs) \in Seq(Part)
      /\ Listed("tests", gs) \in Seq(Part)
  BY <1>1, ListedKeeps
<1> QED
  BY <1>2, MergedIs, FirstOfIs DEF mergeRigGraphs, RigGraphs

-----------------------------------------------------------------------------
(* The inductive invariant: where the dispatcher is, and what the files it *)
(* has passed left behind.                                                 *)
Turns ==
  /\ pc = "extracting" => turn <= Len(Order)
  /\ pc = "extracting" /\ Order[turn] = "spade" /\ "spade" \notin edited
       => file["spade"] # Absent
  /\ pc = "done" => turn = Len(Order) + 1

(* When the dispatcher has passed SPADE, nobody has edited its file since  *)
(* the start, and the file is bad, then SPADE has thrown.                  *)
SpadeWasGood ==
  \A k \in 1..(turn - 1) :
    Order[k] = "spade" /\ "spade" \notin edited => file["spade"] # Broken

(* What an untouched file holds has been collected, once it is passed.     *)
IsCollected(e) == GraphOf(e, file[e]) \in ToSet(graphs) \cup {Empty}

Collected == \A k \in 1..(turn - 1) : Order[k] \notin edited => IsCollected(Order[k])

Result == rig = IF pc = "done" THEN mergeRigGraphs(graphs) ELSE Empty

Inv == TypeOK /\ Turns /\ SpadeWasGood /\ Collected /\ Result

LEMMA OrderIsFinite ==
  /\ Len(Order) \in Nat /\ DOMAIN Order = 1..Len(Order)
  /\ \A k \in 1..Len(Order) : Order[k] \in Extractor
  BY RigAssumption

LEMMA InitHolds == Init => Inv
<1> SUFFICES ASSUME Init PROVE Inv
  OBVIOUS
<1>1. TypeOK
  BY OrderIsFinite, EmptyIsTyped, EmptySeq DEF Init, TypeOK
<1> QED
  BY <1>1, OrderIsFinite DEF Init, Inv, Turns, SpadeWasGood, Collected, Result

LEMMA EditKeeps ==
  ASSUME Inv, NEW e \in Extractor, NEW content \in Contents[e], Edit(e, content)
  PROVE  Inv'
<1>0. Order \in Seq(Extractor) /\ turn \in 1..(Len(Order) + 1) /\ Len(Order) \in Nat
  BY OrderIsFinite, RigAssumption DEF Inv, TypeOK
<1>1. TypeOK'
  BY DEF Inv, TypeOK, Edit
<1>2. \A x \in Extractor : x \notin edited' => x \notin edited /\ file'[x] = file[x]
  BY DEF Inv, TypeOK, Edit
<1>3. Turns' /\ SpadeWasGood'
  BY <1>0, <1>2 DEF Inv, Turns, SpadeWasGood, Edit, Extractor
<1>4. Collected'
  <2>1. \A k \in 1..(turn - 1) : Order[k] \in Extractor
    BY <1>0, OrderIsFinite
  <2> QED
    BY <1>2, <2>1 DEF Inv, Collected, IsCollected, Edit
<1>5. Result'
  BY DEF Inv, Result, Edit
<1> QED
  BY <1>1, <1>3, <1>4, <1>5 DEF Inv

LEMMA BeginKeeps ==
  ASSUME Inv, Begin
  PROVE  Inv'
<1>1. TypeOK'
  BY OrderIsFinite, EmptyIsTyped, EmptySeq DEF Inv, TypeOK, Begin
<1> QED
  BY <1>1 DEF Inv, Begin, Turns, SpadeWasGood, Collected, Result

(* A file the dispatcher passes over yields nothing, and is no bad SPADE   *)
(* file.                                                                   *)
LEMMA AskKeeps ==
  ASSUME Inv, Ask
  PROVE  Inv'
<1>0. turn \in 1..Len(Order) /\ Len(Order) \in Nat /\ Current \in Extractor
  BY OrderIsFinite DEF Inv, TypeOK, Ask, Current
<1>1. TypeOK'
  BY <1>0 DEF Inv, TypeOK, Ask
<1>2. Result'
  BY DEF Inv, Result, Ask
<1>3. CASE canExtract(Current)
  <2>1. Turns'
    BY <1>0, <1>3 DEF Inv, Turns, Ask, canExtract, Current
  <2> QED
    BY <1>1, <1>2, <1>3, <2>1 DEF Inv, SpadeWasGood, Collected, IsCollected, Ask
<1>4. CASE ~canExtract(Current)
  <2>1. file[Current] \in {Absent, Broken}
    BY <1>4 DEF canExtract
  <2>2. Current = "spade" => file[Current] # Broken
    BY <1>4, RigAssumption DEF canExtract
  <2>3. turn' = turn + 1 /\ pc' = pc /\ UNCHANGED <<file, graphs, rig, edited>>
    BY <1>4 DEF Ask
  <2>4. Turns' /\ SpadeWasGood'
    BY <1>0, <2>2, <2>3 DEF Inv, Turns, SpadeWasGood, Ask, Current
  <2>5. IsCollected(Current)
    BY <2>1 DEF IsCollected, GraphOf, Bad
  <2>6. Collected'
    BY <1>0, <2>3, <2>5 DEF Inv, Collected, IsCollected, Current
  <2> QED
    BY <1>1, <1>2, <2>4, <2>6 DEF Inv
<1> QED
  BY <1>3, <1>4

LEMMA ExtractKeeps ==
  ASSUME Inv, Extract
  PROVE  Inv'
<1> DEFINE g == GraphOf(Current, file[Current])
<1>0. turn \in 1..Len(Order) /\ Len(Order) \in Nat /\ Current \in Extractor
  BY OrderIsFinite DEF Inv, TypeOK, Turns, Extract, Current
<1>1. /\ turn' = turn + 1 /\ pc' = "asking" /\ graphs' = Append(graphs, g)
      /\ UNCHANGED <<file, rig, edited>>
  BY DEF Extract, NextTurn
<1>2. g \in RigGraphs
  <2>1. Contents[Current] \subseteq Bad(Current) \cup Held(Current)
    BY <1>0, RigAssumption
  <2>2. Absent \in Bad(Current)
    BY DEF Bad
  <2>3. file[Current] \in Bad(Current) \cup Held(Current)
    BY <1>0, <2>1, <2>2 DEF Inv, TypeOK
  <2> QED
    BY <1>0, <2>3, GraphOfIsTyped
<1>3. graphs' \in Seq(RigGraphs) /\ Len(graphs') = Len(graphs) + 1
      /\ ToSet(graphs') = ToSet(graphs) \cup {g}
  <2> HIDE DEF g
  <2>1. graphs \in Seq(RigGraphs)
    BY DEF Inv, TypeOK
  <2> QED
    BY <1>1, <1>2, <2>1 DEF ToSet
<1>4. TypeOK'
  BY <1>0, <1>1, <1>3 DEF Inv, TypeOK
<1>5. Result'
  BY <1>1 DEF Inv, Result, Extract
<1>6. Current = "spade" => file["spade"] # Broken
  BY DEF Extract, Throws
<1>7. Turns' /\ SpadeWasGood'
  BY <1>0, <1>1, <1>6 DEF Inv, Turns, SpadeWasGood, Current
<1>8. Collected'
  BY <1>0, <1>1, <1>3 DEF Inv, Collected, IsCollected, Current
<1> QED
  BY <1>4, <1>5, <1>7, <1>8 DEF Inv

LEMMA MergeKeeps ==
  ASSUME Inv, Merge
  PROVE  Inv'
<1>1. turn = Len(Order) + 1
  BY OrderIsFinite DEF Inv, TypeOK, Merge
<1>2. TypeOK'
  BY MergeIsTyped DEF Inv, TypeOK, Merge
<1> QED
  BY <1>1, <1>2 DEF Inv, Merge, Turns, SpadeWasGood, Collected, IsCollected, Result

LEMMA NextKeeps ==
  ASSUME Inv, [Next]_vars
  PROVE  Inv'
<1>1. CASE \E e \in Extractor : \E content \in Contents[e] : Edit(e, content)
  BY <1>1, EditKeeps
<1>2. CASE Begin
  BY <1>2, BeginKeeps
<1>3. CASE Ask
  BY <1>3, AskKeeps
<1>4. CASE Extract
  BY <1>4, ExtractKeeps
<1>5. CASE ExtractThrows
  BY <1>5 DEF ExtractThrows, Inv, TypeOK, Turns, SpadeWasGood, Collected, IsCollected, Result
<1>6. CASE Merge
  BY <1>6, MergeKeeps
<1>7. CASE UNCHANGED vars
  BY <1>7 DEF vars, Inv, TypeOK, Turns, SpadeWasGood, Collected, IsCollected, Result
<1> QED
  BY <1>1, <1>2, <1>3, <1>4, <1>5, <1>6, <1>7 DEF Next

(* A run that ends with a graph has not swallowed an invalid SPADE file:   *)
(* wherever SPADE stands in the order, and whatever is edited beside it    *)
(* (spade-cmake.ts throws where the other extractors return nothing).      *)
THEOREM FailsClosedHolds == Spec => []FailsClosed
<1>1. Inv => FailsClosed
  BY OrderIsFinite DEF Inv, Turns, SpadeWasGood, FailsClosed, Read, ToSet
<1>2. Init => Inv
  BY InitHolds
<1>3. Inv /\ [Next]_vars => Inv'
  BY NextKeeps
<1> QED
  BY <1>1, <1>2, <1>3, PTL DEF Spec

(* Materialization drops or adds nothing an edge needs: a dependency on a  *)
(* component no extractor knows is no edge, and a target or test without a *)
(* component is left out with its edge (rig-materialize.ts).               *)
THEOREM EdgesAreClosedHolds == Spec => []EdgesAreClosed
<1>1. \A id \in Ids(rig.components) :
        \E n \in Nodes(rig) : n.id = ComponentNode(rig, id)
  <2> SUFFICES ASSUME NEW id \in Ids(rig.components)
               PROVE  \E n \in Nodes(rig) : n.id = ComponentNode(rig, id)
    OBVIOUS
  <2> DEFINE c == ComponentOf(rig, id)
             n == [id |-> NodeId("RigComponent", c.path, c.id), body |-> c.dependsOn]
  <2>1. c \in ToSet(rig.components) /\ c.id = id
    BY DEF Ids, ComponentOf
  <2>2. n \in Nodes(rig) /\ n.id = ComponentNode(rig, id)
    BY <2>1 DEF Nodes, ComponentNode
  <2> QED
    BY <2>2
<1>2. \A p \in Parts(rig) :
        /\ \E n \in Nodes(rig) : n.id = PartNode(rig, p[1], p[2])
        /\ p[2].owner \in Ids(rig.components)
  <2> SUFFICES ASSUME NEW p \in Parts(rig)
               PROVE  /\ \E n \in Nodes(rig) : n.id = PartNode(rig, p[1], p[2])
                      /\ p[2].owner \in Ids(rig.components)
    OBVIOUS
  <2> DEFINE n == [id |-> PartNode(rig, p[1], p[2]), body |-> {p[2].owner}]
  <2>1. n \in Nodes(rig) /\ n.id = PartNode(rig, p[1], p[2])
    BY DEF Nodes
  <2>2. p[2].owner \in Ids(rig.components)
    BY DEF Parts, Owned
  <2> QED
    BY <2>1, <2>2
<1>3. ASSUME NEW e \in Edges(rig)
      PROVE  \E m, n \in Nodes(rig) : e[1] = m.id /\ e[3] = n.id
  <2>1. CASE \E p \in {q \in ToSet(rig.components) \X Ids(rig.components) :
                       q[2] \in q[1].dependsOn} :
               e = <<ComponentNode(rig, p[1].id), "DEPENDS_ON", ComponentNode(rig, p[2])>>
    <3>1. PICK p \in ToSet(rig.components) \X Ids(rig.components) :
               e = <<ComponentNode(rig, p[1].id), "DEPENDS_ON", ComponentNode(rig, p[2])>>
      BY <2>1
    <3>2. p[1].id \in Ids(rig.components) /\ p[2] \in Ids(rig.components)
      BY DEF Ids
    <3>3. e[1] = ComponentNode(rig, p[1].id) /\ e[3] = ComponentNode(rig, p[2])
      BY <3>1
    <3> QED
      BY <1>1, <3>2, <3>3
  <2>2. CASE \E p \in Parts(rig) :
               e = <<PartNode(rig, p[1], p[2]), "DECLARED_BY", OwnerNode(rig, p[2].owner)>>
    <3>1. PICK p \in Parts(rig) :
               e = <<PartNode(rig, p[1], p[2]), "DECLARED_BY", OwnerNode(rig, p[2].owner)>>
      BY <2>2
    <3>2. OwnerNode(rig, p[2].owner) = ComponentNode(rig, p[2].owner)
      BY <1>2 DEF OwnerNode
    <3>3. e[1] = PartNode(rig, p[1], p[2]) /\ e[3] = ComponentNode(rig, p[2].owner)
      BY <3>1, <3>2
    <3> QED
      BY <1>1, <1>2, <3>3
  <2> QED
    BY <2>1, <2>2 DEF Edges
<1>4. EdgesAreClosed
  BY <1>3 DEF EdgesAreClosed
<1> QED
  BY <1>4, PTL

(* The state of a run is what its types say.                               *)
THEOREM RigTypeCorrect == Spec => []TypeOK
<1>1. Inv => TypeOK
  BY DEF Inv
<1>2. Init => Inv
  BY InitHolds
<1>3. Inv /\ [Next]_vars => Inv'
  BY NextKeeps
<1> QED
  BY <1>1, <1>2, <1>3, PTL DEF Spec

(* The lists of the merged graph.                                          *)
LEMMA RigIs ==
  ASSUME Inv
  PROVE  \/ rig = Empty
         \/ /\ pc = "done" /\ graphs \in Seq(RigGraphs)
            /\ rig.components = Merged(Listed("components", graphs))
            /\ rig.targets = FirstOf(Listed("targets", graphs))
            /\ rig.tests = FirstOf(Listed("tests", graphs))
  BY DEF Inv, TypeOK, Result, mergeRigGraphs

LEMMA EntriesAreUnique ==
  ASSUME Inv
  PROVE  /\ \A c, d \in ToSet(rig.components) : c.id = d.id => c = d
         /\ \A s, t \in ToSet(rig.targets) : s.id = t.id => s = t
         /\ \A s, t \in ToSet(rig.tests) : s.id = t.id => s = t
<1>1. CASE rig = Empty
  BY <1>1 DEF Empty, ToSet
<1>2. CASE rig # Empty
  BY <1>2, RigIs, MergeIsTyped, MergeKeepsIds
<1> QED
  BY <1>1, <1>2

(* Whatever ids the extractors hand in twice, and whatever a hand-written  *)
(* file calls its targets and tests, no two entities of the batch share a  *)
(* node id: the merge leaves one entry per id, and a node id tells a       *)
(* component from a target from a test (rig-materialize.ts, stableId).     *)
THEOREM IdsAreUniqueHolds == Spec => []IdsAreUnique
<1>1. ASSUME Inv
      PROVE  IdsAreUnique
  <2> SUFFICES ASSUME NEW m \in Nodes(rig), NEW n \in Nodes(rig), m.id = n.id
               PROVE  m = n
    BY DEF IdsAreUnique
  <2> DEFINE CNode(c) == [id |-> NodeId("RigComponent", c.path, c.id), body |-> c.dependsOn]
             PNode(p) == [id |-> PartNode(rig, p[1], p[2]), body |-> {p[2].owner}]
  <2>1. /\ (\E c \in ToSet(rig.components) : m = CNode(c)) \/ (\E p \in Parts(rig) : m = PNode(p))
        /\ (\E c \in ToSet(rig.components) : n = CNode(c)) \/ (\E p \in Parts(rig) : n = PNode(p))
    BY DEF Nodes
  <2>2. \A c : CNode(c).id[1] = "RigComponent" /\ CNode(c).id[3] = c.id
    BY DEF NodeId
  <2>3. \A p : PNode(p).id[1] = p[1] /\ PNode(p).id[3] = p[2].id
    BY DEF PartNode, NodeId
  <2>4. ASSUME NEW p \in Parts(rig)
        PROVE  /\ p = <<p[1], p[2]>> /\ p[1] # "RigComponent"
               /\ \/ p[1] = "RigTarget" /\ p[2] \in ToSet(rig.targets)
                  \/ p[1] = "RigTest" /\ p[2] \in ToSet(rig.tests)
    BY DEF Parts
  <2>5. ASSUME NEW p \in Parts(rig), NEW q \in Parts(rig), p[1] = q[1], p[2].id = q[2].id
        PROVE  p = q
    <3>1. p[2] = q[2]
      BY <1>1, <2>4, <2>5, EntriesAreUnique
    <3> QED
      BY <2>4, <2>5, <3>1
  <2> HIDE DEF CNode, PNode
  <2>6. CASE \E c, d \in ToSet(rig.components) : m = CNode(c) /\ n = CNode(d)
    <3>1. PICK c, d \in ToSet(rig.components) : m = CNode(c) /\ n = CNode(d)
      BY <2>6
    <3>2. c.id = d.id
      BY <2>2, <3>1
    <3> QED
      BY <1>1, <3>1, <3>2, EntriesAreUnique
  <2>7. CASE \E p, q \in Parts(rig) : m = PNode(p) /\ n = PNode(q)
    <3>1. PICK p, q \in Parts(rig) : m = PNode(p) /\ n = PNode(q)
      BY <2>7
    <3>2. p[1] = q[1] /\ p[2].id = q[2].id
      BY <2>3, <3>1
    <3> QED
      BY <2>5, <3>1, <3>2
  <2>8. \A c : \A p \in Parts(rig) : CNode(c).id # PNode(p).id
    <3>1. ASSUME NEW c, NEW p \in Parts(rig)
          PROVE  CNode(c).id[1] # PNode(p).id[1]
      BY <2>2, <2>3, <2>4
    <3> QED
      BY <3>1
  <2> QED
    BY <2>1, <2>6, <2>7, <2>8
<1>2. Init => Inv
  BY InitHolds
<1>3. Inv /\ [Next]_vars => Inv'
  BY NextKeeps
<1> QED
  BY <1>1, <1>2, <1>3, PTL DEF Spec

(* The batch can be stored and read back: typed, unique ids, closed edges. *)
THEOREM WellFormedHolds == Spec => []WellFormed
<1>1. TypeOK /\ IdsAreUnique /\ EdgesAreClosed => WellFormed
  BY DEF WellFormed
<1> QED
  BY <1>1, RigTypeCorrect, IdsAreUniqueHolds, EdgesAreClosedHolds, PTL

(* A dependency any extractor saw is an edge, whichever of them wrote the  *)
(* component first, if anybody wrote the component it is on                *)
(* (dispatcher.ts:21, mergeRigGraphs).                                     *)
THEOREM NeverShadowedHolds == Spec => []NeverShadowed
<1>1. ASSUME Inv
      PROVE  NeverShadowed
  <2> SUFFICES ASSUME pc = "done", NEW g \in ToSet(graphs), NEW c \in ToSet(g.components),
                      NEW d \in c.dependsOn \cap Ids(rig.components)
               PROVE  <<ComponentNode(rig, c.id), "DEPENDS_ON", ComponentNode(rig, d)>>
                        \in Edges(rig)
    BY DEF NeverShadowed
  <2> DEFINE list == Listed("components", graphs)
             m == MergedComponent(list, c.id)
  <2>1. graphs \in Seq(RigGraphs) /\ rig.components = Merged(list)
    BY <1>1 DEF Inv, TypeOK, Result, mergeRigGraphs
  <2>2. list \in Seq(Component)
    BY <2>1, MergeIsTyped
  <2>3. c \in ToSet(list)
    <3>1. \A x \in RigGraphs : x["components"] \in Seq(Component)
      BY DEF RigGraphs
    <3>2. ToSet(list) = UNION {ToSet(x["components"]) : x \in ToSet(graphs)}
      BY <2>1, <3>1, ListedKeeps
    <3> QED
      BY <3>2
  <2>4. m \in ToSet(rig.components) /\ m.id = c.id
    BY <2>1, <2>2, <2>3, MergedIs DEF Ids, MergedComponent
  <2>5. d \in m.dependsOn
    BY <2>3 DEF MergedComponent, DependsOn
  <2> HIDE DEF m
  <2> DEFINE p == <<m, d>>
  <2>6. p \in {q \in ToSet(rig.components) \X Ids(rig.components) : q[2] \in q[1].dependsOn}
    BY <2>4, <2>5
  <2>7. <<ComponentNode(rig, p[1].id), "DEPENDS_ON", ComponentNode(rig, p[2])>>
          = <<ComponentNode(rig, c.id), "DEPENDS_ON", ComponentNode(rig, d)>>
    BY <2>4
  <2> HIDE DEF p
  <2> QED
    BY <2>6, <2>7 DEF Edges
<1>2. Init => Inv
  BY InitHolds
<1>3. Inv /\ [Next]_vars => Inv'
  BY NextKeeps
<1> QED
  BY <1>1, <1>2, <1>3, PTL DEF Spec

(* What a file nobody touched describes is in the result, whatever was     *)
(* edited beside it between the dispatcher's awaits (dispatcher.ts).       *)
THEOREM NothingIsSkippedHolds == Spec => []NothingIsSkipped
<1>1. ASSUME Inv
      PROVE  NothingIsSkipped
  <2> SUFFICES ASSUME pc = "done", NEW e \in Extractor, Read(e)
               PROVE  /\ Ids(GraphOf(e, file[e]).components) \subseteq Ids(rig.components)
                      /\ Ids(GraphOf(e, file[e]).targets) \subseteq Ids(rig.targets)
    BY DEF NothingIsSkipped
  <2> DEFINE g == GraphOf(e, file[e])
             cs == Listed("components", graphs)
             ts == Listed("targets", graphs)
  <2>1. PICK k \in 1..(turn - 1) : Order[k] = e /\ e \notin edited
    BY <1>1, OrderIsFinite DEF Inv, Turns, Read, ToSet
  <2>2. g \in ToSet(graphs) \cup {Empty}
    BY <1>1, <2>1 DEF Inv, Collected, IsCollected
  <2>3. CASE g = Empty
    BY <2>3 DEF Empty, Ids, ToSet
  <2>4. CASE g \in ToSet(graphs)
    <3> HIDE DEF g
    <3>1. /\ graphs \in Seq(RigGraphs)
          /\ rig.components = Merged(cs) /\ rig.targets = FirstOf(ts)
      BY <1>1 DEF Inv, TypeOK, Result, mergeRigGraphs
    <3>2. Ids(rig.components) = Ids(cs) /\ Ids(rig.targets) = Ids(ts)
      BY <3>1, MergeIsTyped, MergeKeepsIds
    <3>3. \A x \in RigGraphs : x["components"] \in Seq(Component) /\ x["targets"] \in Seq(Part)
      BY DEF RigGraphs
    <3>4. /\ ToSet(cs) = UNION {ToSet(x["components"]) : x \in ToSet(graphs)}
          /\ ToSet(ts) = UNION {ToSet(x["targets"]) : x \in ToSet(graphs)}
      BY <3>1, <3>3, ListedKeeps
    <3>5. ToSet(g.components) \subseteq ToSet(cs) /\ ToSet(g.targets) \subseteq ToSet(ts)
      BY <2>4, <3>4
    <3>6. Ids(g.components) \subseteq Ids(cs) /\ Ids(g.targets) \subseteq Ids(ts)
      BY <3>5 DEF Ids
    <3> QED
      BY <3>2, <3>6 DEF g
  <2> QED
    BY <2>2, <2>3, <2>4
<1>2. Init => Inv
  BY InitHolds
<1>3. Inv /\ [Next]_vars => Inv'
  BY NextKeeps
<1> QED
  BY <1>1, <1>2, <1>3, PTL DEF Spec
================================================================================
