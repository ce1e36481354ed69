------------------------------ MODULE LanceStore ------------------------------
(***************************************************************************)
(* LanceDBVectorStore (lancedb-store.ts): upsert, search and listByRun     *)
(* calls of several store instances, one per process, over one LanceDB     *)
(* directory and the JSON sidecar that pins the embedder identity.  Every  *)
(* await is a step, a call can fail at each, and a process can die between *)
(* two.  The read of the sidecar never rejects: loadManifest catches every *)
(* error and calls it "no manifest", so a good sidecar that cannot be read *)
(* just then (EACCES, EMFILE, EIO) is overwritten by the next upsert.      *)
(*                                                                         *)
(* LanceDB is external: createTable fails when the table exists, delete    *)
(* and add are one commit each, a query reads the newest commit.  A row is *)
(* kept as its key, its identity, the call that wrote it (its indexRunId)  *)
(* and its place in that call's batch; the table has no key of its own,    *)
(* and takes rows of any dimension.                                        *)
(***************************************************************************)
EXTENDS Naturals, Sequences, FiniteSets, FiniteSetsExt

CONSTANTS Call,        \* upserts
          Lookup,      \* searches and listings
          Key,         \* pairs <<nodeId, payloadKind>>
          Ident, Null,
          DimOf,       \* the dimension of each identity
          Instance,    \* store objects, one per process
          OwnerOf,     \* the instance each call or lookup is made on
          Batches,     \* the key sequences a caller may pass
          Asks,        \* the arguments a lookup may be given
          Concurrent   \* FALSE: one upsert at a time

Torn == "torn"
Unread == "unread"

ASSUME InstanceAssumption ==
  /\ OwnerOf \in [Call \cup Lookup -> Instance]
  /\ Call \cap Lookup = {}
  /\ DimOf \in [Ident -> Nat]
  /\ Batches \subseteq Seq(Key)
  /\ Asks \subseteq [op: {"search", "list"}, asker: Ident \cup {Null}, limit: Nat,
                    run: Call \cup {Null}, kind: {k[2] : k \in Key} \cup {Null}]
  /\ Concurrent \in BOOLEAN
  /\ Null \notin Ident /\ Torn \notin Ident /\ Unread \notin Ident
  /\ Null # Torn /\ Null # Unread

VARIABLES sidecar,  \* codesoul-manifest.json: an identity, Torn, or Null
          created,  \* whether the table exists
          table,    \* its rows
          cached,   \* this.manifest of each instance
          handle,   \* whether this.table of each instance is set
          pc, arg,  \* each call and lookup: where it is, and its arguments
          seen,     \* the identity it read, Null (none there), or Unread (it failed)
          answer,   \* the rows a lookup returned
          replaced, \* history: the rows a call has deleted
          kept      \* history: the rows in the table ever since a lookup began

store == <<sidecar, created, table, cached, handle>>
vars == <<store, pc, arg, seen, answer, replaced, kept>>

Row == [key: Key, ident: Ident, call: Call, pos: Nat]

Rows(c) == {[key |-> arg[c].keys[p], ident |-> arg[c].idents[p],
             call |-> c, pos |-> p] : p \in DOMAIN arg[c].keys}

KeysOf(c) == {arg[c].keys[p] : p \in DOMAIN arg[c].keys}

Loaded(text) == IF text \in Ident THEN text ELSE Null

Awaiting == {"loading", "checking", "writing", "flushing", "listing",
             "creating", "deleting", "adding", "querying"}

Init ==
  /\ sidecar = Null /\ created = FALSE /\ table = {}
  /\ cached = [i \in Instance |-> Null]
  /\ handle = [i \in Instance |-> FALSE]
  /\ pc = [c \in Call \cup Lookup |-> "idle"]
  /\ arg = [c \in Call \cup Lookup |-> Null]
  /\ seen = [c \in Call \cup Lookup |-> Null]
  /\ answer = [l \in Lookup |-> {}]
  /\ replaced = [c \in Call |-> {}]
  /\ kept = [l \in Lookup |-> {}]

Goto(c, l) == pc' = [pc EXCEPT ![c] = l]

Quiet == \A c \in Call : pc[c] \notin Awaiting

Begin(c, a) ==
  /\ pc[c] = "idle"
  /\ Concurrent \/ Quiet
  /\ arg' = [arg EXCEPT ![c] = a]
  /\ Goto(c, IF a.keys = <<>> THEN "returned" ELSE "loading")
  /\ UNCHANGED <<store, seen, answer, replaced, kept>>

(***************************************************************************)
(* loadManifest, the identity check of every row against the manifest, or  *)
(* the batch's first row if there is none, and the decision to pin.        *)
(***************************************************************************)
Unchecked(a, b) == TRUE

Compatible(a, b) == a = b

NeverPin(manifest) == "listing"

AfterCheck(manifest) == IF manifest = Null THEN "writing" ELSE "listing"

AllRows(c) == DOMAIN arg[c].idents

FirstRow(c) == {1}

CheckedRows(c) == AllRows(c)

CheckIdentity(c, pin, manifest) ==
  LET expected == IF pin = Null THEN arg[c].idents[1] ELSE pin IN
    Goto(c, IF \A p \in CheckedRows(c) : Compatible(arg[c].idents[p], expected)
            THEN AfterCheck(manifest) ELSE "failed")

(* A search knows its vector's dimension only; without a manifest there is *)
(* nothing to find.                                                        *)
AnyLength(l, pin) == TRUE

LengthFits(l, pin) == DimOf[arg[l].asker] = DimOf[pin]

CheckLength(l, pin) ==
  Goto(l, CASE pin = Null -> "returned"
            [] pin # Null /\ LengthFits(l, pin) -> "listing"
            [] OTHER -> "refused")

AfterLoad(c, pin, manifest) ==
  IF c \in Call THEN CheckIdentity(c, pin, manifest) ELSE CheckLength(c, pin)

LoadCached(c) ==
  /\ pc[c] = "loading" /\ cached[OwnerOf[c]] # Null
  /\ AfterLoad(c, cached[OwnerOf[c]], cached[OwnerOf[c]])
  /\ UNCHANGED <<store, arg, seen, answer, replaced, kept>>

(* readFile: a missing or torn sidecar, and any error, count as none.      *)
ReadSidecar(c) ==
  /\ pc[c] = "loading" /\ cached[OwnerOf[c]] = Null
  /\ \E text \in {Loaded(sidecar)} \cup (IF sidecar \in Ident THEN {Unread} ELSE {}) :
       seen' = [seen EXCEPT ![c] = text]
  /\ Goto(c, "checking")
  /\ UNCHANGED <<store, arg, answer, replaced, kept>>

Check(c) ==
  LET i == OwnerOf[c]
      pin == Loaded(seen[c]) IN
  /\ pc[c] = "checking"
  /\ cached' = [cached EXCEPT ![i] = IF pin = Null THEN @ ELSE pin]
  /\ AfterLoad(c, pin, cached'[i])
  /\ UNCHANGED <<sidecar, created, table, handle, arg, seen, answer, replaced, kept>>

(* writeFile truncates, then writes; only then is the manifest cached.     *)
Truncate(c) ==
  /\ pc[c] = "writing"
  /\ sidecar' = Torn
  /\ Goto(c, "flushing")
  /\ UNCHANGED <<created, table, cached, handle, arg, seen, answer, replaced, kept>>

Flush(c) ==
  /\ pc[c] = "flushing"
  /\ sidecar' = arg[c].idents[1]
  /\ cached' = [cached EXCEPT ![OwnerOf[c]] = arg[c].idents[1]]
  /\ Goto(c, "listing")
  /\ UNCHANGED <<created, table, handle, arg, seen, answer, replaced, kept>>

(***************************************************************************)
(* ensureTable, then delete and add; a lookup only opens the table.        *)
(***************************************************************************)
FindTable(c) ==
  LET found == handle[OwnerOf[c]] \/ created IN
  /\ pc[c] = "listing"
  /\ handle' = [handle EXCEPT ![OwnerOf[c]] = found]
  /\ Goto(c, IF c \in Lookup THEN IF found THEN "querying" ELSE "returned"
                            ELSE IF found THEN "deleting" ELSE "creating")
  /\ UNCHANGED <<sidecar, created, table, cached, arg, seen, answer, replaced, kept>>

CreateTable(c) ==
  /\ pc[c] = "creating"
  /\ IF ~created
     THEN /\ created' = TRUE
          /\ table' = Rows(c)
          /\ handle' = [handle EXCEPT ![OwnerOf[c]] = TRUE]
          /\ Goto(c, "deleting")
     ELSE Goto(c, "failed") /\ UNCHANGED <<created, table, handle>>
  /\ UNCHANGED <<sidecar, cached, arg, seen, answer, replaced, kept>>

Matches(c, row) == row.key \in KeysOf(c)

AppendOnly(c) ==
  /\ pc[c] = "deleting"
  /\ Goto(c, "adding")
  /\ UNCHANGED <<store, arg, seen, answer, replaced, kept>>

Delete(c) ==
  /\ pc[c] = "deleting"
  /\ table' = {row \in table : ~Matches(c, row)}
  /\ replaced' = [replaced EXCEPT ![c] = table \ table']
  /\ kept' = [l \in Lookup |-> kept[l] \cap table']
  /\ Goto(c, "adding")
  /\ UNCHANGED <<sidecar, created, cached, handle, arg, seen, answer>>

Add(c) ==
  /\ pc[c] = "adding"
  /\ table' = table \cup Rows(c)
  /\ Goto(c, "returned")
  /\ UNCHANGED <<sidecar, created, cached, handle, arg, seen, answer, replaced, kept>>

(***************************************************************************)
(* search and listByRun.  The limit of a listing is optional, 0 if absent. *)
(***************************************************************************)
BeginLookup(l, a) ==
  /\ pc[l] = "idle"
  /\ arg' = [arg EXCEPT ![l] = a]
  /\ kept' = [kept EXCEPT ![l] = table]
  /\ Goto(l, IF a.op = "search" THEN "loading" ELSE "listing")
  /\ UNCHANGED <<store, seen, answer, replaced>>

Wanted(l) == {row \in table :
                /\ arg[l].run \in {Null, row.call}
                /\ arg[l].kind \in {Null, row.key[2]}}

(* The nearest rows, whichever they are; a listing is in no order.         *)
Query(l) ==
  /\ pc[l] = "querying"
  /\ \E size \in {IF arg[l].limit = 0 THEN Cardinality(Wanted(l))
                  ELSE Min({arg[l].limit, Cardinality(Wanted(l))})} :
       \E nearest \in kSubset(size, Wanted(l)) :
         answer' = [answer EXCEPT ![l] = nearest]
  /\ Goto(l, "returned")
  /\ UNCHANGED <<store, arg, seen, replaced, kept>>

(* An awaited call rejects: so does the caller's, loadManifest's apart,    *)
(* whose rejected read is ReadSidecar's.                                   *)
Throws(c) ==
  /\ pc[c] \in Awaiting \ {"loading", "checking"}
  /\ Goto(c, "failed")
  /\ UNCHANGED <<store, arg, seen, answer, replaced, kept>>

(* The process dies and a new one takes over the instance.                 *)
Crash(i) ==
  LET dying == {c \in DOMAIN pc : OwnerOf[c] = i /\ pc[c] \in Awaiting} IN
  /\ pc' = [c \in DOMAIN pc |-> IF c \in dying THEN "failed" ELSE pc[c]]
  /\ cached' = [cached EXCEPT ![i] = Null]
  /\ handle' = [handle EXCEPT ![i] = FALSE]
  /\ UNCHANGED <<sidecar, created, table, arg, seen, answer, replaced, kept>>

(* close() drops the handles and keeps the cached manifest.                *)
Close(i) ==
  /\ handle[i]
  /\ handle' = [handle EXCEPT ![i] = FALSE]
  /\ UNCHANGED <<sidecar, created, table, cached, pc, arg, seen, answer, replaced, kept>>

Step(c) ==
  \/ LoadCached(c) \/ ReadSidecar(c) \/ Check(c) \/ Truncate(c) \/ Flush(c)
  \/ FindTable(c) \/ CreateTable(c) \/ Delete(c) \/ Add(c) \/ Query(c) \/ Throws(c)

Args == UNION {[keys: {k}, idents: [DOMAIN k -> Ident]] : k \in Batches}

Next ==
  \/ \E c \in Call \cup Lookup : Step(c)
  \/ \E c \in Call, a \in Args : Begin(c, a)
  \/ \E l \in Lookup, a \in Asks : BeginLookup(l, a)
  \/ \E i \in Instance : Crash(i) \/ Close(i)

Spec == Init /\ [][Next]_vars

-----------------------------------------------------------------------------
TypeOK ==
  /\ sidecar \in Ident \cup {Null, Torn}
  /\ created \in BOOLEAN /\ table \subseteq Row
  /\ cached \in [Instance -> Ident \cup {Null}]
  /\ handle \in [Instance -> BOOLEAN]
  /\ pc \in [Call \cup Lookup ->
             Awaiting \cup {"idle", "returned", "refused", "failed"}]
  /\ arg \in [Call \cup Lookup -> Args \cup Asks \cup {Null}]
  /\ \A c \in Call : arg[c] \in Args \cup {Null}
  /\ answer \in [Lookup -> SUBSET Row]
  /\ seen \in [Call \cup Lookup -> Ident \cup {Null, Unread}]

(* lancedb-store.ts:170-174, "each LanceDB table is single-identity ...    *)
(* subsequent writes that disagree throw".  It does not hold: an upsert    *)
(* that fails to read a good sidecar goes on as if the table were new.     *)
SingleIdentity == \A x, y \in table : x.ident = y.ident

(* What the environment must grant: no upsert misses a sidecar it could    *)
(* not read.                                                               *)
UpsertsReadTheSidecar == \A c \in Call : seen[c] # Unread

(* The pin protects what is there, whatever else fails or crashes in       *)
(* between, batches of mixed identities included: while the table has a    *)
(* row, the sidecar is readable and names that row's identity, and no      *)
(* instance believes anything else (lancedb-store.ts:170-174).             *)
PinMatchesRows ==
  UpsertsReadTheSidecar =>
    \A row \in table :
      /\ sidecar = row.ident
      /\ \A i \in Instance : cached[i] \in {Null, row.ident}

Fits(row, asked) ==
  asked.run \in {Null, row.call} /\ asked.kind \in {Null, row.key[2]}

(* A lookup beside upserts that fail and crash at any step.  Always: it    *)
(* returns rows it asked for, one per key (lancedb-store.ts:182), and a    *)
(* listing comes back short only of rows that were not there all the       *)
(* while.  A search that read the sidecar does too, its rows have the      *)
(* query's dimension, and it is refused only if the table's vectors have   *)
(* another (lancedb-store.ts:173-177, "fail closed"); one whose own read   *)
(* of the sidecar failed finds nothing.                                    *)
LookupsAnswer ==
  \A l \in Lookup :
    LET asked == arg[l]
        full == \/ asked.limit # 0 /\ Cardinality(answer[l]) = asked.limit
                \/ \A x \in kept[l] : Fits(x, asked) => x \in answer[l]
    IN
    /\ pc[l] = "returned" =>
         /\ \A x, y \in answer[l] : x.key = y.key => x = y
         /\ \A x \in answer[l] : Fits(x, asked)
         /\ asked.op = "list" => full
         /\ seen[l] = Unread => answer[l] = {}
         /\ (asked.op = "search" /\ UpsertsReadTheSidecar) =>
              /\ \A x \in answer[l] : DimOf[x.ident] = DimOf[asked.asker]
              /\ seen[l] = Unread \/ full
    /\ (pc[l] = "refused" /\ UpsertsReadTheSidecar) =>
         \E id \in Ident : sidecar = id /\ DimOf[id] # DimOf[asked.asker]

(***************************************************************************)
(* One upsert at a time, the store is the map of VectorMap.  Between its   *)
(* delete and its add an upsert's keys have no rows; the mapping counts    *)
(* the ones being replaced as still there.                                 *)
(***************************************************************************)
Logical ==
  table \cup UNION {replaced[c] : c \in {d \in Call : pc[d] = "adding"}}

RowAt(k) == CHOOSE row \in Logical : row.key = k

MapRows ==
  [k \in Key |-> IF \E row \in Logical : row.key = k
                 THEN [call |-> RowAt(k).call, ident |-> RowAt(k).ident]
                 ELSE Null]

Upserting == {c \in Call : pc[c] \in Awaiting}

MapBusy == {[call |-> c, keys |-> KeysOf(c)] : c \in Upserting}

MapDone == {c \in Call : pc[c] = "returned" /\ arg[c].keys # <<>>}

Map == INSTANCE VectorMap
         WITH rows <- MapRows, pin <- Loaded(sidecar), busy <- MapBusy,
              done <- MapDone, misread <- ~UpsertsReadTheSidecar

(* Whatever fails or crashes, upserts do to the table what VectorMap says: *)
(* one that returns has written its rows under all its keys, one that does *)
(* not may lose the rows of its own keys and no others, and the pin moves  *)
(* under rows only after a read of it has failed.                          *)
RefinesMap == Map!Spec
=============================================================================
