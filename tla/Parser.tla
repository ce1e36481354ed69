------------------------------- MODULE Parser -------------------------------
(***************************************************************************)
(* TreeSitterParser.parseFile, and the regex MockParser it replaces, on    *)
(* one file that a developer edits between two index runs.                 *)
(*                                                                         *)
(* The source is its syntax tree, in preorder: source[i] has a type, a     *)
(* name and the index of its parent (0 is the root).  A type stands for    *)
(* the grammar's node types that the walks treat alike: "if" for every     *)
(* statement block, "object" for any other construct that can hold a       *)
(* method_definition (an object literal, a field initialiser), "call" for  *)
(* f() and "this" for this.f() or self.f().  A node's position stands for  *)
(* its lines.  Hashes are the tuples hashed.                               *)
(***************************************************************************)
EXTENDS ImportPaths

CONSTANTS Name,        \* names of declarations
          Top,         \* the class name of what has no class
          MaxSize,     \* bound: nodes of the tree
          MaxImports,  \* bound: imports of the file
          LongSize     \* a body of this many nodes is over the threshold

ASSUME ParserAssumption ==
  /\ Top \notin Name
  /\ MaxSize \in Nat /\ MaxImports \in Nat /\ LongSize \in Nat \ {0}

VARIABLES language, \* of the file; fixed by ParserInit
          source,   \* its tree, as it is on disk
          imports,  \* its specifiers, as they are on disk
          result,   \* nodes and edges of the last parse
          fresh     \* that parse was of this source

parserVars == <<language, source, imports, result, fresh>>

Python == language = "python"

Callables == IF Python THEN {"function"} ELSE {"function", "method"}
Leaves == {"call", "this"}
Nameless == {"if", "object"}
Types == {"class"} \cup Nameless \cup Leaves \cup Callables

(* What the grammars let stand directly inside what.                       *)
Holds(parent, type) ==
  IF Python
  THEN parent \notin Leaves /\ type \in Types \ {"object"}
  ELSE CASE parent = "class"  -> type \in {"method", "object"}
         [] parent = "object" -> type = "method"
         [] parent \in Leaves -> FALSE
         [] OTHER             -> type # "method"

Node == [type: Types, name: Name \cup {Top}, parent: 0..MaxSize]
Index == DOMAIN source

-----------------------------------------------------------------------------
(* The proper ancestors of i: no node between a and i left a's subtree.    *)
Above(i) == {a \in 1..(i - 1) : \A b \in (a + 1)..i : source[b].parent >= a}

Inside(i) == {j \in Index : i \in Above(j)}

Is(i, type) == source[i].type = type

(* The name of the class whose body the walk is in.                        *)
Classes(i) == {a \in Above(i) : Is(a, "class")}
Innermost(S) == CHOOSE a \in S : \A b \in S : b <= a
ClassOf(i) == IF Classes(i) = {} THEN Top ELSE source[Innermost(Classes(i))].name

(* collectTypescript and collectPython stop at a function and at a method  *)
(* of a class; a method of a bare object literal is walked through.        *)
MethodsOnly(i) == Is(i, "method") /\ ClassOf(i) # Top

Callable(i) == Is(i, "function") \/ (Is(i, "method") /\ ClassOf(i) # Top)
Visited(i) == \A a \in Above(i) : ~Callable(a)
Decls == {i \in Index : Visited(i) /\ (Callable(i) \/ Is(i, "class"))}
Callers == {i \in Decls : Callable(i)}

-----------------------------------------------------------------------------
(* Identities.                                                             *)

KindOf(i) ==
  CASE Is(i, "class") -> "Class"
    [] Callable(i) /\ (IF Python THEN ClassOf(i) # Top ELSE Is(i, "method")) -> "Method"
    [] OTHER -> "Function"

Id(kind, class, name) == [kind |-> kind, class |-> class, name |-> name]

PositionId(i) == Id(KindOf(i), i, source[i].name)

DeclId(i) ==
  Id(KindOf(i), IF KindOf(i) = "Method" THEN ClassOf(i) ELSE Top, source[i].name)

FileId == Id("File", Top, Top)

ImportId(s) == [kind |-> "Import", specifier |-> s]

OtherFileId(path) == [kind |-> "File", path |-> path]

(* Blocks of a long body.  The walk starts from the root of the file, and  *)
(* the ordinal counts from there.                                          *)
BlockTypes == {"if", "class"} \cup (IF Python THEN {"function"} ELSE {})

BlocksOf(d) == {b \in Index : source[b].type \in BlockTypes}

Long(d) == Cardinality(Inside(d)) >= LongSize

Ordinal(d, b) == Cardinality({x \in BlocksOf(d) : x < b})

BlockId(d, b) ==
  [kind |-> "Block", owner |-> DeclId(d), ordinal |-> Ordinal(d, b),
   type |-> source[b].type]

-----------------------------------------------------------------------------
(* What a parse returns.                                                   *)

Found(id, i) == [id |-> id, at |-> i]

DeclNodes == {Found(DeclId(d), d) : d \in Decls}

BlockNodes ==
  UNION {{Found(BlockId(d, b), b) : b \in BlocksOf(d)} : d \in {x \in Callers : Long(x)}}

Contains ==
  {[src |-> FileId, type |-> "CONTAINS", dst |-> n.id] : n \in DeclNodes}
    \cup {[src |-> n.id.owner, type |-> "CONTAINS", dst |-> n.id] : n \in BlockNodes}

(* Calls are resolved by name in the tables of the file's functions and of *)
(* each class's methods.                                                   *)
AnyName(id) == TRUE

InTable(id) == \E n \in DeclNodes : n.id = id

DirectOnly(d) == {c \in Index : source[c].parent = d /\ source[c].type \in Leaves}

CallSites(d) == {c \in Inside(d) : source[c].type \in Leaves}

Callee(d, c) ==
  IF Is(c, "call") THEN Id("Function", Top, source[c].name)
                   ELSE Id("Method", DeclId(d).class, source[c].name)

Tabled(d) ==
  {c \in CallSites(d) : /\ Is(c, "call") \/ KindOf(d) = "Method"
                        /\ InTable(Callee(d, c))
                        /\ Callee(d, c) # DeclId(d)}

Calls ==
  UNION {{[src |-> DeclId(d), type |-> "CALLS", dst |-> Callee(d, c)] : c \in Tabled(d)} :
         d \in Callers}

(* Imports: a node each, and in TypeScript the file it resolves to, which  *)
(* another parse must provide.                                             *)
ImportNodes == {Found(ImportId(s), 0) : s \in imports}

FileImports == IF Python THEN {} ELSE {Resolve(s) : s \in imports} \ {Nowhere}

Imports ==
  [src: {FileId}, type: {"CONTAINS", "IMPORTS"}, dst: {n.id : n \in ImportNodes}]
    \cup [src: {FileId}, type: {"IMPORTS"}, dst: {OtherFileId(f) : f \in FileImports}]

Parsed ==
  [nodes |-> {Found(FileId, 0)} \cup DeclNodes \cup BlockNodes \cup ImportNodes,
   edges |-> Contains \cup Calls \cup Imports]

(* The regex parser sees a declaration at the start of a line only.  Text  *)
(* that looks like one, in a docstring, a comment or a template string, is *)
(* left out: it declares nothing.                                          *)
RegexDecls == {i \in Index : /\ source[i].parent = 0
                             /\ source[i].type \in {"function", "class"}}

RegexId(i) == Id(IF Is(i, "class") THEN "Class" ELSE "Function", Top, source[i].name)

-----------------------------------------------------------------------------
Nothing == [nodes |-> {}, edges |-> {}]

ParserInit ==
  /\ language \in {"python", "typescript"}
  /\ source = <<>> /\ imports = {}
  /\ result = Nothing /\ fresh = FALSE

(* The developer adds one more leaf, anywhere: as the next child, in       *)
(* preorder, of a node on the path to position i.                          *)
Chain(i) == IF i = 0 THEN {0} ELSE {0, i} \cup Above(i)
ParentType(node) == IF node.parent = 0 THEN "if" ELSE source[node.parent].type

Shifted(s, i) ==
  [k \in DOMAIN s |-> IF s[k].parent < i THEN s[k]
                       ELSE [s[k] EXCEPT !.parent = s[k].parent + 1]]

(* Bounds: one edit between two parses; declarations or imports, which     *)
(* parseFile takes up one after the other, not both.                       *)
Insert(i, node) ==
  /\ Len(source) < MaxSize /\ fresh /\ imports = {}
  /\ node.parent \in Chain(i - 1) /\ Holds(ParentType(node), node.type)
  /\ i <= Len(source) => source[i].parent \in Chain(node.parent)
  /\ source' = SubSeq(source, 1, i - 1) \o <<node>>
                 \o Shifted(SubSeq(source, i, Len(source)), i)
  /\ fresh' = FALSE
  /\ UNCHANGED <<imports, result>>

Import ==
  /\ Cardinality(imports) < MaxImports /\ fresh /\ source = <<>>
  /\ \E s \in Specifier : imports' = imports \cup {s}
  /\ fresh' = FALSE
  /\ UNCHANGED <<source, result>>

parseFile ==
  /\ result' = Parsed
  /\ fresh' = TRUE
  /\ UNCHANGED <<source, imports>>

ParserNext ==
  /\ \/ \E i \in 1..(Len(source) + 1), t \in Types, n \in Name \cup {Top} :
          \E p \in Chain(i - 1) :
            /\ t \in Nameless <=> n = Top
            /\ Insert(i, [type |-> t, name |-> n, parent |-> p])
     \/ Import
     \/ parseFile
  /\ UNCHANGED language

ParserSpec == ParserInit /\ [][ParserNext]_parserVars

-----------------------------------------------------------------------------
Ids(r) == {n.id : n \in r.nodes}

ParserTypeOK ==
  /\ language \in {"python", "typescript"} /\ fresh \in BOOLEAN
  /\ source \in Seq(Node) /\ Len(source) <= MaxSize
  /\ \A i \in Index : source[i].parent < i
  /\ imports \subseteq Specifier
  /\ \A n \in result.nodes :
       n.id.kind \in {"File", "Class", "Function", "Method", "Block", "Import"}

ToOtherFiles == {e \in result.edges : e.dst.kind = "File"}

EdgesAreClosed ==
  \A e \in result.edges \ ToOtherFiles : e.src \in Ids(result) /\ e.dst \in Ids(result)

(* Every edge of a parse joins two nodes of that parse, but for the        *)
(* imports of other files.                                                 *)
WellFormed == ParserTypeOK /\ EdgesAreClosed

(* Lexical scope, the reference for calls: the declaration a bare name     *)
(* means is the innermost one in scope, and this means the class whose     *)
(* method is the nearest enclosing function that binds it.  A block binds  *)
(* names in TypeScript only; a class body's names are not in scope of the  *)
(* functions in it; self is a method's parameter, closed over by others.   *)
BoundIn(t) == Innermost({0} \cup {a \in Above(t) : Is(a, "if") => ~Python})

Scopes(c) ==
  {0, BoundIn(c)} \cup {a \in Above(c) : ~Is(a, "class") /\ ~Is(a, "object")}

Meant(c) ==
  LET InScope == {t \in Index : /\ Is(t, "function") /\ source[t].name = source[c].name
                                /\ BoundIn(t) \in Scopes(c)}
  IN {t \in InScope : \A u \in InScope : BoundIn(u) <= BoundIn(t)}

MethodOf(class, m) ==
  source[m].type \in Callables /\ BoundIn(m) = class /\ class # 0 /\ Is(class, "class")

BindsThis(m) == source[m].type \in Callables /\ (Python => MethodOf(BoundIn(m), m))

MeantByThis(c) ==
  LET m == Innermost({a \in Above(c) : BindsThis(a)})
  IN {t \in Index : /\ source[t].name = source[c].name
                    /\ \E a \in Above(c) : BindsThis(a)
                    /\ MethodOf(BoundIn(m), m) /\ MethodOf(BoundIn(m), t)}

Targets(c) == IF Is(c, "call") THEN Meant(c) ELSE MeantByThis(c)

(* No call between two declarations of the graph is lost: wherever a call  *)
(* site is nested, if the declaration it means in its lexical scope is in  *)
(* the graph, so is the CALLS edge to it (naive resolution by name may add *)
(* edges that shadowing rules out, never drop one).                        *)
CallsAreFound ==
  fresh =>
    \A d \in Callers, c \in Index : d \in Above(c) /\ source[c].type \in Leaves =>
      \A t \in Targets(c) \cap Decls :
        \/ DeclId(t) = DeclId(d)
        \/ [src |-> DeclId(d), type |-> "CALLS", dst |-> DeclId(t)] \in result.edges

(* A file indexed with the regex parser and again with tree-sitter keeps   *)
(* the stable ids of its top-level declarations, so the second run's nodes *)
(* overwrite the first's and do not stand beside them.                     *)
ParsersAgree ==
  fresh => \A i \in RegexDecls : RegexId(i) \in Ids(result)

(* Code added anywhere in a file changes no identity that was already      *)
(* given out to a declaration (ids.ts:41, "line numbers MUST NOT           *)
(* participate in IDs"): the next run updates the node.  Blocks are        *)
(* numbered, and may be renumbered.                                        *)
Stable(r) == {id \in Ids(r) : id.kind # "Block"}

IdsAreStable == [][Stable(result) \subseteq Stable(result')]_parserVars

(* A relative import of a script is an edge to exactly the file its        *)
(* specifier leads to, however it climbs and descends, and an import that  *)
(* leaves the repository is an edge to no file.                            *)
ReachesItsFile ==
  fresh =>
    {e.dst.path : e \in ToOtherFiles}
      = IF Python THEN {} ELSE {Named(s) : s \in {i \in imports : Names(i)}}
=============================================================================
