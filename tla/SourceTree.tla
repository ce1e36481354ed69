------------------------------ MODULE SourceTree ------------------------------
(***************************************************************************)
(* The working tree that index runs read and queries quote, while a        *)
(* developer works on it: walk, the reading and hashing of the files       *)
(* (mock-fixture.ts), and FileSystemSourceProvider (source-provider.ts).   *)
(*                                                                         *)
(* Each readdir and readFile is a step.  What becomes of a run once it has *)
(* read its files, and how that fails, is in Indexer; here its nodes are   *)
(* stored in one step.  A file's content is the sequence of its lines; a   *)
(* line is a pair <<name, text>> of the declaration it belongs to, and the *)
(* lines of a declaration are consecutive.                                 *)
(***************************************************************************)
EXTENDS Naturals, Sequences, SequencesExt, FiniteSets, FiniteSetsExt

CONSTANTS Dir, File, Root,
          In,        \* the directory of every file and directory but Root
          Dotted,    \* entries whose name starts with a dot
          Skipped,   \* directories with a name of SKIP_DIRS
          Supported, \* files in a language the parser has
          Order,     \* all files, sorted by path
          Given,     \* the trees to begin with
          Touched,   \* the files and directories a developer works on
          Content,   \* what they may hold
          Place,     \* where the repository may lie
          Run, Null,
          MaxEdits   \* bound: changes of the tree

ASSUME TreeAssumption ==
  /\ Root \in Dir /\ In \in [File \cup (Dir \ {Root}) -> Dir]
  /\ IsFiniteSet(Dir) /\ File \cap Dir = {}
  /\ Dotted \subseteq DOMAIN In /\ Skipped \subseteq Dir \ {Root}
  /\ Supported \subseteq File /\ Touched \subseteq File \cup Dir
  /\ Order \in Seq(File) /\ ToSet(Order) = File
  /\ Given \subseteq [File -> Content \cup {Null}]
  /\ Null \notin Content /\ MaxEdits \in Nat

VARIABLES disk,     \* the content of each file, or Null
          locked,   \* directories that cannot be read
          place,    \* where the repository lies
          edits,    \* changes so far
          stage, from, \* each run, and the path it was given
          dirs,     \* the directories it has still to read
          found,    \* the files it has found and not read
          got,      \* what it has read, by file
          hash,     \* its sourceContentHash, as what is hashed
          stamped,  \* by file and name: the stamp and evidence, or Null
          snippet,  \* the snippet of the one query under way
          was,      \* history: what each file held while a run was active
          quiet     \* history: runs since whose start nothing else happened

tree == <<disk, locked, place>>
runs == <<stage, from, dirs, found, got, hash>>
treeVars == <<tree, edits, runs, stamped, snippet, was, quiet>>

Lines == UNION {ToSet(c) : c \in Content}

Names == {line[1] : line \in Lines}

(* What is stored of a declaration: the batch that stamped it, and its     *)
(* first and last line.                                                    *)
Stamp == [batch : Run, lines : Nat \X Nat]

ASSUME ContentAssumption ==
  /\ Content \subseteq Seq(Lines) /\ Null \notin Stamp
  /\ \A c \in Content : \A i, j \in DOMAIN c :
       c[i][1] = c[j][1] => \A k \in i..j : c[k][1] = c[i][1]

Active == {r \in Run : stage[r] \in {"walking", "reading", "storing"}}

Children(d) == {e \in DOMAIN In : In[e] = d}

(* The directories on the way to an entry: the smallest set that has the   *)
(* directory of the entry and of each directory in it.                     *)
Upward(e, S) == \A x \in ({e} \cup S) \ {Root} : In[x] \in S

Above == [e \in File \cup Dir |-> {d \in Dir : \A S \in SUBSET Dir : Upward(e, S) => d \in S}]

ASSUME IsTree == \A e \in DOMAIN In : Root \in Above[e]

(* A file as somebody who was given this path reads it.                    *)
Readable(f, at) == at = place /\ Above[f] \cap locked = {} /\ disk[f] # Null
Now(f, at) == IF Readable(f, at) THEN disk[f] ELSE Null

NoSnippet == [pc |-> "none", file |-> Null, name |-> Null, row |-> Null,
            from |-> Null, seen |-> Null, text |-> <<>>]

TreeInit ==
  /\ disk \in Given
  /\ locked = {} /\ place \in Place /\ edits = 0
  /\ stage = [r \in Run |-> "idle"] /\ from = [r \in Run |-> Null]
  /\ dirs = [r \in Run |-> <<>>] /\ found = [r \in Run |-> {}]
  /\ got = [r \in Run |-> <<>>] /\ hash = [r \in Run |-> Null]
  /\ stamped = [n \in File \X Names |-> Null]
  /\ snippet = NoSnippet
  /\ was = [r \in Run |-> [f \in File |-> {}]]
  /\ quiet = {}

(***************************************************************************)
(* The developer.                                                          *)
(***************************************************************************)
Change(newDisk, newLocked, newPlace) ==
  /\ edits < MaxEdits /\ edits' = edits + 1
  /\ <<newDisk, newLocked, newPlace>> # tree
  /\ disk' = newDisk /\ locked' = newLocked /\ place' = newPlace
  /\ UNCHANGED <<runs, stamped, snippet>>
  /\ was' = [r \in Run |-> [f \in File |->
               IF r \in Active THEN was[r][f] \cup {Now(f, from[r])'} ELSE was[r][f]]]
  /\ quiet' = {}

Edit(f, c) == Change([disk EXCEPT ![f] = c], locked, place)
Chmod(d) == Change(disk, SymDiff(locked, {d}), place)
Move(p) == Change(disk, locked, p)

(***************************************************************************)
(* indexRepository: stat, walk, read.                                      *)
(***************************************************************************)
Goto(r, l) == stage' = [stage EXCEPT ![r] = l]

Start(r) ==
  /\ stage[r] = "idle"
  /\ Goto(r, "walking")
  /\ from' = [from EXCEPT ![r] = place]
  /\ dirs' = [dirs EXCEPT ![r] = <<Root>>]
  /\ was' = [was EXCEPT ![r] = [f \in File |-> {Now(f, place)}]]
  /\ quiet' = IF Active = {} THEN {r} ELSE {}
  /\ UNCHANGED <<tree, edits, found, got, hash, stamped, snippet>>

CanList(d, at) == at = place /\ ({d} \cup Above[d]) \cap locked = {}

Entered(d) == {e \in Children(d) \cap Dir : e \notin Dotted /\ e \notin Skipped}

Listed(d) == {f \in Children(d) \cap File : disk[f] # Null /\ f \notin Dotted}

(* A directory that cannot be read is passed over.                         *)
GivesUp(r) == <<>>

PassOver(r) == Tail(dirs[r])

(* readdir: the subdirectories come next, in any order.                    *)
Walk(r) ==
  /\ stage[r] = "walking" /\ dirs[r] # <<>>
  /\ LET d == Head(dirs[r]) IN
       IF CanList(d, from[r])
       THEN /\ \E order \in SetToSeqs(Entered(d)) :
                 dirs' = [dirs EXCEPT ![r] = order \o Tail(@)]
            /\ found' = [found EXCEPT ![r] = @ \cup Listed(d)]
       ELSE dirs' = [dirs EXCEPT ![r] = PassOver(r)] /\ UNCHANGED found
  /\ UNCHANGED <<tree, edits, stage, from, got, hash, stamped, snippet, was, quiet>>

(* The walk is over: the files are sorted, and those of other languages    *)
(* are not read.                                                           *)
Walked(r) ==
  /\ stage[r] = "walking" /\ dirs[r] = <<>>
  /\ found' = [found EXCEPT ![r] = @ \cap Supported]
  /\ Goto(r, "reading")
  /\ UNCHANGED <<tree, edits, from, dirs, got, hash, stamped, snippet, was, quiet>>

(* readFile, in the order of the paths: an error of one rejects the run.   *)
FirstOf(S) == Order[Min({k \in DOMAIN Order : Order[k] \in S})]

ReadFile(r) ==
  /\ stage[r] = "reading" /\ found[r] # {}
  /\ LET f == FirstOf(found[r]) IN
       IF Readable(f, from[r])
       THEN /\ got' = [got EXCEPT ![r] = [g \in DOMAIN @ \cup {f} |->
                         IF g = f THEN disk[f] ELSE got[r][g]]]
            /\ found' = [found EXCEPT ![r] = @ \ {f}]
            /\ UNCHANGED stage
       ELSE Goto(r, "threw") /\ UNCHANGED <<got, found>>
  /\ UNCHANGED <<tree, edits, from, dirs, hash, stamped, snippet, was, quiet>>

(* sourceTreeContentHash: the digests with their relative paths.  They are *)
(* sorted, so that what is hashed depends on their set only.               *)
AbsolutePath(f, at) == <<at, f>>

Relative(f, at) == <<f>>

HashOf(contents, at) ==
  {<<Relative(f, at), contents[f]>> : f \in DOMAIN contents}

Digest(r) ==
  /\ stage[r] = "reading" /\ found[r] = {}
  /\ hash' = [hash EXCEPT ![r] = HashOf(got[r], from[r])]
  /\ Goto(r, "storing")
  /\ UNCHANGED <<tree, edits, from, dirs, found, got, stamped, snippet, was, quiet>>

(* Its declarations are stored, each with its first and last line.  What   *)
(* is no longer declared stays.                                            *)
Declared(content) == {line[1] : line \in ToSet(content)}

LinesOf(content, name) == {k \in DOMAIN content : content[k][1] = name}

Evidence(content, name) == <<Min(LinesOf(content, name)), Max(LinesOf(content, name))>>

Stored(r, f, n) == f \in DOMAIN got[r] /\ n \in Declared(got[r][f])

InsertOnly(r, f, n) == Stored(r, f, n) /\ stamped[<<f, n>>] = Null

Stamps(r, f, n) == Stored(r, f, n)

Store(r) ==
  /\ stage[r] = "storing"
  /\ stamped' = [n \in File \X Names |->
                 IF Stamps(r, n[1], n[2])
                 THEN [batch |-> r, lines |-> Evidence(got[r][n[1]], n[2])]
                 ELSE stamped[n]]
  /\ Goto(r, "committed")
  /\ UNCHANGED <<tree, edits, from, dirs, found, got, hash, snippet, was, quiet>>

(***************************************************************************)
(* A query: a candidate takes its lines from the node, and its text is     *)
(* read when all candidates have been ranked.                              *)
(***************************************************************************)
Lookup(f, n) ==
  /\ snippet.pc = "none" /\ stamped[<<f, n>>] # Null
  /\ snippet' = [NoSnippet EXCEPT !.pc = "ranking", !.file = f, !.name = n,
                              !.row = stamped[<<f, n>>], !.from = place]
  /\ UNCHANGED <<tree, edits, runs, stamped, was, quiet>>

ExclusiveEnd(content, lines) == SubSeq(content, lines[1], lines[2] - 1)

(* A missing file, or one that ends before the range begins, gives "".     *)
Sliced(content, lines) ==
  SubSeq(content, lines[1], IF lines[2] < Len(content) THEN lines[2] ELSE Len(content))

ReadRange ==
  /\ snippet.pc = "ranking"
  /\ LET content == Now(snippet.file, snippet.from) IN
       snippet' = [snippet EXCEPT !.pc = "quoted", !.seen = content,
                   !.text = IF content = Null THEN <<>> ELSE Sliced(content, snippet.row.lines)]
  /\ UNCHANGED <<tree, edits, runs, stamped, was, quiet>>

TreeNext ==
  \/ \E f \in Touched \cap File, c \in Content \cup {Null} : Edit(f, c)
  \/ \E d \in Touched \cap Dir : Chmod(d)
  \/ \E p \in Place : Move(p)
  \/ \E r \in Run : Start(r) \/ Walk(r) \/ Walked(r) \/ ReadFile(r) \/ Digest(r) \/ Store(r)
  \/ \E f \in File, n \in Names : Lookup(f, n)
  \/ ReadRange

TreeSpec == TreeInit /\ [][TreeNext]_treeVars

-----------------------------------------------------------------------------
TreeTypeOK ==
  /\ disk \in [File -> Content \cup {Null}] /\ locked \subseteq Dir
  /\ place \in Place /\ edits \in 0..MaxEdits
  /\ stage \in [Run -> {"idle", "walking", "reading", "storing", "committed", "threw"}]
  /\ \A r \in Run : found[r] \subseteq File /\ DOMAIN got[r] \subseteq File
  /\ snippet.pc \in {"none", "ranking", "quoted"}

(* The files an index run is about.                                        *)
Indexable ==
  {f \in Supported : f \notin Dotted /\ Above[f] \cap (Dotted \cup Skipped) = {}}

Committed == {r \in Run : stage[r] = "committed"}

(* A committed batch accounts for every source file, though the tree was   *)
(* changed under the walk and the reads: it holds something that the file  *)
(* held during the run, or else the file was missing or out of reach at    *)
(* some moment of the run; and it holds nothing else.                      *)
EveryFileIsAccountedFor ==
  \A r \in Committed :
    /\ DOMAIN got[r] \subseteq Indexable
    /\ \A f \in Indexable :
         IF f \in DOMAIN got[r] THEN got[r][f] \in was[r][f] \ {Null}
                                ELSE Null \in was[r][f]

(* A run that nothing disturbed, and nothing has followed, is a faithful   *)
(* copy: each declaration in the tree has its node, with the lines it is   *)
(* at, whatever earlier runs stored under its id; and the batch's hash is  *)
(* that of the tree, wherever the repository lies (mock-fixture.ts:84-86). *)
TreeNow == [f \in {g \in Indexable : Readable(g, place)} |-> disk[f]]

QuietRunIsFresh ==
  \A r \in Committed \cap quiet :
    /\ \A f \in DOMAIN TreeNow : \A n \in Declared(disk[f]) :
         /\ stamped[<<f, n>>] # Null
         /\ stamped[<<f, n>>].lines = Evidence(disk[f], n)
    /\ hash[r] = {<<<<f>>, disk[f]>> : f \in DOMAIN TreeNow}

(* The text is the lines of the declaration, in their order.               *)
IsQuoted(text, content, name) ==
  LET own == LinesOf(content, name) IN
  /\ Len(text) = Cardinality(own)
  /\ \A k \in own : text[Cardinality({j \in own : j <= k})] = content[k]

(* A snippet quotes the declaration it cites, whole and nothing else, if   *)
(* the file then held what the batch that stamped the node had read,       *)
(* whatever happened in between; and of a missing file it quotes nothing   *)
(* (source-provider.ts:52).                                                *)
SnippetsQuote ==
  snippet.pc = "quoted" =>
    IF snippet.seen = Null THEN snippet.text = <<>>
    ELSE snippet.seen = got[snippet.row.batch][snippet.file]
           => IsQuoted(snippet.text, snippet.seen, snippet.name)
=============================================================================
