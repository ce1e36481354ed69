----------------------------- MODULE MCLanceStore -----------------------------
(* Upserts by two processes, of two rows of one node, by two               *)
(* embedders, and a lookup in the first process.                           *)
EXTENDS LanceStore, TLC, Folds

CONSTANTS c1, c2, c3, find, p1, p2, qwen, mock

MCCalls == {c1, c2, c3}
MCOwner == (c1 :> p1) @@ (c2 :> p2) @@ (c3 :> p2) @@ (find :> p1)
Summary == <<"f", "FunctionSummary">>
Block == <<"f", "Block">>
MCKeys == {Summary, Block}
MCBatches == {<<>>, <<Summary>>, <<Block, Summary>>}
MCDims == (qwen :> 1024) @@ (mock :> 32)

(* Two models of the configured dimension.                                 *)
SameDims == (qwen :> 1024) @@ (mock :> 1024)

MCAsks ==
  LET Ask(op, limit, run, kind) ==
        {[op |-> op, asker |-> id, limit |-> limit, run |-> run, kind |-> kind] :
          id \in IF op = "list" THEN {Null} ELSE Ident}
  IN Ask("search", 1, Null, Null) \cup Ask("search", 3, Null, "FunctionSummary")
       \cup Ask("list", 0, c1, Null)

Begun == {c \in Call : pc[c] # "idle"}

(* Three rows are upserted in all, and at most two upserts are beside a    *)
(* lookup.                                                                 *)
Bounded ==
  /\ FoldSet(LAMBDA c, n : n + Len(arg[c].keys), 0, Begun) <= 3
  /\ pc[find] # "idle" => Cardinality(Begun) < 3

Symmetric == Permutations({c2, c3}) \cup Permutations(Ident)
===============================================================================
