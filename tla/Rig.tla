--------------------------------- MODULE Rig ---------------------------------
(***************************************************************************)
(* The architecture graph of a repository (RIG): the four extractors, the  *)
(* dispatcher that runs the configured ones in order and merges what they  *)
(* found, and its materialization as graph nodes and edges.                *)
(*                                                                         *)
(* A developer edits the files the extractors read while they run: each    *)
(* extractor reads its file twice, once to say whether it applies.  SPADE  *)
(* is an external program.  The reads of a workspace's files, members and  *)
(* all, are one step.  A list sorted by id is a sequence, of which only    *)
(* the order of entries with one id matters.                               *)
(***************************************************************************)
EXTENDS Naturals, Sequences, SequencesExt, FiniteSets

CONSTANTS Name,       \* names of packages
          Safe,       \* what safeId makes of a name
          Path, Script,
          HandId,     \* ids of targets and tests that are written by hand
          Order,      \* the configured extractors, in order
          Contents,   \* for each extractor, what its file may hold
          Absent, Broken, IllTyped

Extractor == {"package-json", "pyproject", "manual", "spade"}

Id == {"pkg", "py", "lib"} \X Name

Component == [id : Id, path : Path, dependsOn : SUBSET Id]

Part == [id : (Id \X Script) \cup HandId, owner : Id]

RigGraphs == [components : Seq(Component), targets : Seq(Part), tests : Seq(Part)]

Scripts == {s \in SUBSET Script : IsFiniteSet(s)}

Package == [path : Path, name : Name, deps : SUBSET Name, scripts : Scripts]

(* What a file holds that its extractor's schema accepts.                  *)
Held(e) ==
  CASE e = "package-json" -> [root : Package, members : Seq(Package)]
    [] e = "pyproject"    -> [name : Name, deps : SUBSET Name, scripts : Scripts]
    [] OTHER              -> RigGraphs

(* What else it may be: not there; something that does not parse; or, where *)
(* no schema is checked, something that parses and is of another shape.    *)
Bad(e) ==
  {Absent, Broken} \cup IF e \in {"package-json", "pyproject"} THEN {IllTyped} ELSE {}

ASSUME RigAssumption ==
  /\ Safe \in [Name -> Name]
  /\ "root" \in Path
  /\ Order \in Seq(Extractor)
  /\ DOMAIN Contents = Extractor
  /\ \A e \in Extractor : Contents[e] \subseteq Bad(e) \cup Held(e)
  /\ Absent # Broken /\ IllTyped \notin {Absent, Broken}

VARIABLES file,    \* what each extractor's file holds
          pc,      \* where the dispatcher is
          turn,    \* the extractor in Order it has come to
          graphs,  \* what the earlier ones returned
          rig,     \* the merged graph, once done
          edited   \* the files edited since the dispatcher began

vars == <<file, pc, turn, graphs, rig, edited>>

Empty == [components |-> <<>>, targets |-> <<>>, tests |-> <<>>]

-----------------------------------------------------------------------------
(* package-json: the root and, in a workspace, its members; a dependency   *)
(* is kept if it is a member's name.  The root has none: in a workspace by *)
(* rule, and else because it has no members.                               *)
PkgId(name) == <<"pkg", Safe[name]>>

ScriptTargets(id, p) ==
  SetToSeq({[id |-> <<id, s>>, owner |-> id] : s \in p.scripts})

PackageJsonGraph(f) ==
  LET names == {m.name : m \in ToSet(f.members)}
      ComponentFor(p, deps) == [id |-> PkgId(p.name), path |-> p.path,
                                dependsOn |-> {PkgId(d) : d \in deps \cap names}]
      packages == <<f.root>> \o f.members
  IN [components |-> <<ComponentFor(f.root, {})>> \o
                      [k \in DOMAIN f.members |->
                         ComponentFor(f.members[k], f.members[k].deps)],
      targets |-> FlattenSeq([k \in DOMAIN packages |->
                                ScriptTargets(PkgId(packages[k].name), packages[k])]),
      tests |-> <<>>]

(* pyproject: one component, with every dependency it declares.            *)
PyId(name) == <<"py", Safe[name]>>

PyProjectGraph(f) ==
  [components |-> <<[id |-> PyId(f.name), path |-> "root",
                     dependsOn |-> {PyId(d) : d \in f.deps}]>>,
   targets |-> ScriptTargets(PyId(f.name), f),
   tests |-> <<>>]

(* manual and spade list a graph as it is.                                 *)
GraphOf(e, f) ==
  IF f \in Bad(e) THEN Empty
  ELSE CASE e = "package-json" -> PackageJsonGraph(f)
         [] e = "pyproject"    -> PyProjectGraph(f)
         [] OTHER              -> f

-----------------------------------------------------------------------------
(* mergeRigGraphs: the first writer of an id wins, except that a           *)
(* component has the dependencies of all of them.                          *)
Listed(field, gs) == FlattenSeq([k \in DOMAIN gs |-> gs[k][field]])

Ids(list) == {x.id : x \in ToSet(list)}

FirstWith(list, id) == list[SelectInSeq(list, LAMBDA x : x.id = id)]

FirstDependsOn(list, id) == FirstWith(list, id).dependsOn

DependsOn(list, id) == UNION {c.dependsOn : c \in {x \in ToSet(list) : x.id = id}}

FirstOf(list) == SetToSeq({FirstWith(list, id) : id \in Ids(list)})

MergedComponent(list, id) ==
  [id |-> id, path |-> FirstWith(list, id).path, dependsOn |-> DependsOn(list, id)]

Merged(list) == SetToSeq({MergedComponent(list, id) : id \in Ids(list)})

Concatenated(gs) == [components |-> Listed("components", gs),
                     targets |-> Listed("targets", gs),
                     tests |-> Listed("tests", gs)]

mergeRigGraphs(gs) == [components |-> Merged(Listed("components", gs)),
                       targets |-> FirstOf(Listed("targets", gs)),
                       tests |-> FirstOf(Listed("tests", gs))]

-----------------------------------------------------------------------------
(* materializeRigGraph: a node per component; an edge per dependency on a  *)
(* component of the graph; a node and an edge per target and test of one.  *)
ComponentOf(g, id) == CHOOSE c \in ToSet(g.components) : c.id = id

NodeId(kind, path, id) == <<kind, path, id>>

ComponentNode(g, id) == NodeId("RigComponent", ComponentOf(g, id).path, id)

Owned(g, t) == t.owner \in Ids(g.components)

PartNode(g, kind, t) ==
  NodeId(kind, IF t.owner \in Ids(g.components) THEN ComponentOf(g, t.owner).path
                                                ELSE "root", t.id)

Parts(g) ==
  {<<"RigTarget", t>> : t \in {x \in ToSet(g.targets) : Owned(g, x)}}
    \cup {<<"RigTest", t>> : t \in {x \in ToSet(g.tests) : Owned(g, x)}}

Nodes(g) ==
  {[id |-> NodeId("RigComponent", c.path, c.id), body |-> c.dependsOn] :
     c \in ToSet(g.components)}
    \cup {[id |-> PartNode(g, p[1], p[2]), body |-> {p[2].owner}] : p \in Parts(g)}

OwnerNode(g, owner) ==
  IF owner \in Ids(g.components) THEN ComponentNode(g, owner)
                                 ELSE NodeId("RigComponent", "root", owner)

Edges(g) ==
  {<<ComponentNode(g, p[1].id), "DEPENDS_ON", ComponentNode(g, p[2])>> : p \in
     {q \in ToSet(g.components) \X Ids(g.components) : q[2] \in q[1].dependsOn}}
    \cup {<<PartNode(g, p[1], p[2]), "DECLARED_BY", OwnerNode(g, p[2].owner)>> :
            p \in Parts(g)}

-----------------------------------------------------------------------------
Init ==
  /\ file = [e \in Extractor |-> Absent]
  /\ pc = "idle" /\ turn = 1 /\ graphs = <<>> /\ rig = Empty /\ edited = {}

Edit(e, content) ==
  /\ file' = [file EXCEPT ![e] = content]
  /\ edited' = edited \cup {e}
  /\ UNCHANGED <<pc, turn, graphs, rig>>

(* RigDispatcher.extract.                                                  *)
Begin ==
  /\ pc \in {"idle", "done", "threw"}
  /\ pc' = "asking" /\ turn' = 1
  /\ graphs' = <<>> /\ rig' = Empty /\ edited' = {}
  /\ UNCHANGED file

Current == Order[turn]

(* A CMakeLists.txt is only looked for; the other files must parse.        *)
canExtract(e) ==
  IF e = "spade" THEN file[e] # Absent ELSE file[e] \notin {Absent, Broken}

Ask ==
  /\ pc = "asking" /\ turn <= Len(Order)
  /\ IF canExtract(Current) THEN pc' = "extracting" /\ UNCHANGED turn
                            ELSE turn' = turn + 1 /\ UNCHANGED pc
  /\ UNCHANGED <<file, graphs, rig, edited>>

(* The other extractors return nothing for a file that is gone or no       *)
(* longer parses; for SPADE that, or a program that fails, is a            *)
(* RigExtractionError.  A file of another shape is a TypeError.            *)
NeverThrows(e) == FALSE

Throws(e) == \/ e = "spade" /\ file[e] \in {Absent, Broken}
             \/ e # "spade" /\ file[e] = IllTyped

FirstOnly == Len(Order) + 1

NextTurn == turn + 1

Extract ==
  /\ pc = "extracting" /\ ~Throws(Current)
  /\ graphs' = Append(graphs, GraphOf(Current, file[Current]))
  /\ pc' = "asking" /\ turn' = NextTurn
  /\ UNCHANGED <<file, rig, edited>>

ExtractThrows ==
  /\ pc = "extracting" /\ (Current = "spade" \/ Throws(Current))
  /\ pc' = "threw"
  /\ UNCHANGED <<file, turn, graphs, rig, edited>>

Merge ==
  /\ pc = "asking" /\ turn > Len(Order)
  /\ rig' = mergeRigGraphs(graphs)
  /\ pc' = "done"
  /\ UNCHANGED <<file, turn, graphs, edited>>

Next ==
  \/ \E e \in Extractor : \E content \in Contents[e] : Edit(e, content)
  \/ Begin \/ Ask \/ Extract \/ ExtractThrows \/ Merge

Spec == Init /\ [][Next]_vars

-----------------------------------------------------------------------------
TypeOK ==
  /\ \A e \in Extractor : file[e] \in Contents[e] \cup {Absent}
  /\ pc \in {"idle", "asking", "extracting", "done", "threw"}
  /\ turn \in 1..(Len(Order) + 1) /\ edited \subseteq Extractor
  /\ Len(graphs) < turn
  /\ graphs \in Seq(RigGraphs) /\ rig \in RigGraphs

IdsAreUnique == \A m, n \in Nodes(rig) : m.id = n.id => m = n

EdgesAreClosed ==
  LET ids == {n.id : n \in Nodes(rig)} IN
  \A e \in Edges(rig) : e[1] \in ids /\ e[3] \in ids

(* Two entities of a batch never share a node id (one would overwrite the  *)
(* other in the graph store), and every edge joins two nodes of the batch, *)
(* whatever the hand-written file names that no extractor found.           *)
WellFormed == TypeOK /\ IdsAreUnique /\ EdgesAreClosed

(* dispatcher.ts:21: a dependency one extractor surfaces is an edge, no    *)
(* matter which extractor wrote the component first.                       *)
NeverShadowed ==
  pc = "done" =>
    \A g \in ToSet(graphs) : \A c \in ToSet(g.components) :
      \A d \in c.dependsOn \cap Ids(rig.components) :
        <<ComponentNode(rig, c.id), "DEPENDS_ON", ComponentNode(rig, d)>> \in Edges(rig)

Read(e) == e \in ToSet(Order) /\ e \notin edited

(* A file that was there and valid all along is in the result, whatever    *)
(* happened to the others.                                                 *)
NothingIsSkipped ==
  pc = "done" =>
    \A e \in Extractor : Read(e) =>
      /\ Ids(GraphOf(e, file[e]).components) \subseteq Ids(rig.components)
      /\ Ids(GraphOf(e, file[e]).targets) \subseteq Ids(rig.targets)

(* plans/CodeSoul RIG.md:323: invalid SPADE output fails closed.           *)
FailsClosed == pc = "done" /\ Read("spade") => file["spade"] # Broken
=============================================================================
