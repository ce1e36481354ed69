---------------------------- MODULE MCModelClient ----------------------------
(* An embedding with the mock to fall back on and a reranking without     *)
(* it, beside a server that runs the right models or others.               *)
EXTENDS ModelClient

CONSTANTS embed, rerank, qwen, bge

MCKind == [c \in Call |-> IF c = embed THEN "embedder" ELSE "reranker"]

MCPinned == [k \in {"embedder", "reranker"} |->
               IF k = "embedder" THEN qwen ELSE bge]

MCHasFallback == [c \in Call |-> c = embed]
==============================================================================
