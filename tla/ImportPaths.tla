----------------------------- MODULE ImportPaths -----------------------------
(***************************************************************************)
(* How TreeSitterParser.parseFile finds the file a relative specifier of a *)
(* TypeScript or JavaScript file names, without looking at the disk.       *)
(*                                                                         *)
(* A path is a sequence of directory names, a base name last, and an       *)
(* extension; a specifier is such a path that may also hold "." and "..".  *)
(***************************************************************************)
EXTENDS Integers, Sequences, FiniteSets

Seqs == INSTANCE SequencesExt

CONSTANTS Segment,     \* names of directories and files
          Dir,         \* the importing file's directory
          MaxSegments, \* bound: segments of a specifier
          Nowhere

Dots == {".", ".."}
Ext == {"js", "ts", "jsx", "tsx", "mjs", "mts", "cjs", "cts", "none", "css"}

ASSUME ImportPathsAssumption ==
  /\ Segment \cap Dots = {} /\ Dir \in Seq(Segment)
  /\ MaxSegments \in Nat
  /\ Nowhere \notin Ext \cup Seq(Segment) \cup [segs: Seq(Segment), ext: Ext]

(* A dot segment has no extension.                                         *)
Specifier ==
  {s \in [segs: UNION {[1..n -> Segment \cup Dots] : n \in 1..MaxSegments}, ext: Ext] :
     Seqs!Last(s.segs) \in Dots => s.ext = "none"}

(***************************************************************************)
(* resolveLocalTsImport.                                                   *)
(***************************************************************************)
Relative(s) == Head(s.segs) \in Dots /\ Len(s.segs) > 1

(* TS_RESOLVE_EXT.  A script stands for the TypeScript it is compiled      *)
(* from, also where the script is all there is: what a specifier means is  *)
(* this table here and below, and no check of it.                          *)
ToTypeScript(ext) ==
  CASE ext \in {"js", "ts"}   -> "ts"
    [] ext \in {"jsx", "tsx"} -> "tsx"
    [] ext \in {"mjs", "mts"} -> "mts"
    [] ext \in {"cjs", "cts"} -> "cts"
    [] OTHER                  -> Nowhere

StopAtRoot(parts, segment) ==
  CASE segment = "."  -> parts
    [] segment = ".." -> IF parts = <<>> THEN <<>> ELSE Seqs!Front(parts)
    [] OTHER          -> Append(parts, segment)

Walk(parts, segment) ==
  IF parts = Nowhere THEN Nowhere
  ELSE CASE segment = "."  -> parts
         [] segment = ".." -> IF parts = <<>> THEN Nowhere ELSE Seqs!Front(parts)
         [] OTHER          -> Append(parts, segment)

Whole(s) == Dir \o s.segs

Walked(s) ==
  LET parts[k \in 0..Len(Whole(s))] ==
        IF k = 0 THEN <<>> ELSE Walk(parts[k - 1], Whole(s)[k])
  IN parts

Parts(s) == Walked(s)[Len(Whole(s))]

Resolve(s) ==
  IF ~Relative(s) \/ Parts(s) \in {Nowhere, <<>>} \/ ToTypeScript(s.ext) = Nowhere
  THEN Nowhere
  ELSE [segs |-> Parts(s), ext |-> ToTypeScript(s.ext)]

-----------------------------------------------------------------------------
(* Where a specifier leads, counted and not walked: the depth after each   *)
(* segment; a name stands if no later segment climbs above it.             *)
Up(s, k) == Cardinality({j \in 1..k : Whole(s)[j] = ".."})
Down(s, k) == Cardinality({j \in 1..k : Whole(s)[j] \notin Dots})

Escapes(s) == \E k \in DOMAIN Whole(s) : Up(s, k) > Down(s, k)

Stands(s, i) ==
  /\ Whole(s)[i] \notin Dots
  /\ \A k \in i..Len(Whole(s)) : Down(s, k) - Up(s, k) >= Down(s, i) - Up(s, i)

Destination(s) ==
  LET n == Cardinality({i \in DOMAIN Whole(s) : Stands(s, i)})
      Nth(k) == CHOOSE i \in DOMAIN Whole(s) :
                  Stands(s, i) /\ Cardinality({j \in 1..i : Stands(s, j)}) = k
  IN [k \in 1..n |-> Whole(s)[Nth(k)]]

(* What a specifier names: a script it can reach inside the repository.    *)
Names(s) == Relative(s) /\ ~Escapes(s) /\ ToTypeScript(s.ext) # Nowhere

Named(s) == [segs |-> Destination(s), ext |-> ToTypeScript(s.ext)]
=============================================================================
