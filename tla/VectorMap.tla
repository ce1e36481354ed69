------------------------------ MODULE VectorMap ------------------------------
(***************************************************************************)
(* What a vector store promises of upserts made one at a time: a map from  *)
(* (nodeId, payloadKind) to the last row written under that key            *)
(* (MockVectorStore, vector-store mock.ts, whose upsert runs in one turn), *)
(* holding the rows of one embedder identity, fixed before the first row   *)
(* (lancedb-store.ts:170).  An upsert that fails may lose the rows of its  *)
(* own keys, and no others.  Once the pin has been misread, the identity   *)
(* is no longer kept; everything else still is.                            *)
(***************************************************************************)
CONSTANTS Call,    \* upsert calls
          Key,     \* (nodeId, payloadKind) pairs
          Ident,   \* embedder identities
          Null

VARIABLES rows,    \* the row of each key (writing call, identity), or Null
          pin,     \* the identity of the table, or Null
          busy,    \* the upsert under way with its keys: one record, or none
          done,    \* the upserts that returned
          misread  \* whether an upsert has missed a pin that was there

vars == <<rows, pin, busy, done, misread>>

Init ==
  /\ rows = [k \in Key |-> Null] /\ pin = Null
  /\ busy = {} /\ done = {} /\ misread = FALSE

Begin(c, keys) ==
  /\ busy = {} /\ c \notin done
  /\ busy' = {[call |-> c, keys |-> keys]}
  /\ UNCHANGED <<rows, pin, done, misread>>

Misread ==
  /\ busy # {} /\ pin # Null
  /\ misread' = TRUE
  /\ UNCHANGED <<rows, pin, busy, done>>

Unpin ==
  /\ busy # {} /\ misread
  /\ pin' = Null
  /\ UNCHANGED <<rows, busy, done, misread>>

Pin(id) ==
  /\ busy # {} /\ pin = Null
  /\ misread \/ \A k \in Key : rows[k] = Null
  /\ pin' = id
  /\ UNCHANGED <<rows, busy, done, misread>>

With(keys, row) == [k \in Key |-> IF k \in keys THEN row ELSE rows[k]]

(* The rows are there when the upsert returns; they may be before.         *)
Write(b, id) ==
  /\ misread \/ pin = id
  /\ rows' = With(b.keys, [call |-> b.call, ident |-> id])
  /\ \/ UNCHANGED <<busy, done>>
     \/ busy' = {} /\ done' = done \cup {b.call}
  /\ UNCHANGED <<pin, misread>>

Fail(b) ==
  /\ busy' = {}
  /\ rows' \in {rows, With(b.keys, Null)}
  /\ UNCHANGED <<pin, done, misread>>

Next ==
  \/ \E c \in Call, keys \in SUBSET Key : Begin(c, keys)
  \/ Misread \/ Unpin \/ \E id \in Ident : Pin(id)
  \/ \E b \in busy : Fail(b) \/ \E id \in Ident : Write(b, id)

Spec == Init /\ [][Next]_vars
=============================================================================
