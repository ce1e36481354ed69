------------------------------ MODULE LanceProofs ------------------------------
(***************************************************************************)
(* The pin of a LanceDB table, for any store objects, calls, lookups, keys *)
(* and identities, as long as one upsert runs at a time.  What needs no    *)
(* more than that comes first (Base).  While every upsert could read the   *)
(* sidecar, one that names an identity never changes again; PinInv says    *)
(* that whoever read one therefore still agrees with it, and that only a   *)
(* call which found none writes one.  On both rest, for batches without    *)
(* twin keys, that the table is a map and what lookups beside upserts see. *)
(***************************************************************************)
EXTENDS LanceStore, FiniteSetTheorems, TLAPS

Places == Awaiting \cup {"idle", "returned", "refused", "failed"}

Reading == {"idle", "loading", "checking", "listing", "querying",
            "returned", "refused", "failed"}

Writing == {"listing", "creating", "deleting", "adding"}

IdentOf(c) == arg[c].idents[1]

Uniform(c) == \A p \in DOMAIN arg[c].idents : arg[c].idents[p] = IdentOf(c)

LookupsOnlyRead == \A l \in Lookup : pc[l] \in Reading

OneUpsert ==
  \A c, d \in Call : pc[c] \in Awaiting /\ pc[d] \in Awaiting => c = d

FreshReads ==
  \A c \in Call \cup Lookup : pc[c] \in {"idle", "loading"} => seen[c] = Null

(* An upsert past the check has a batch of one identity; nobody else       *)
(* touches the sidecar between its truncation and its content.             *)
UpsertsChecked ==
  \A c \in Call :
    /\ pc[c] # "querying"
    /\ pc[c] \in Awaiting => arg[c] \in Args /\ arg[c].keys # <<>>
    /\ pc[c] \in Writing \cup {"writing", "flushing"} => Uniform(c)
    /\ pc[c] = "flushing" => sidecar = Torn

Base == TypeOK /\ LookupsOnlyRead /\ OneUpsert /\ FreshReads /\ UpsertsChecked

ReadersAgree ==
  /\ \A i \in Instance : cached[i] # Null => sidecar = cached[i]
  /\ \A c \in Call \cup Lookup : seen[c] \in Ident => sidecar = seen[c]

WriterPinned ==
  \A c \in Call :
    /\ pc[c] = "checking" /\ seen[c] = Null => sidecar \notin Ident
    /\ pc[c] = "writing" => sidecar \notin Ident
    /\ pc[c] \in Writing => sidecar = IdentOf(c)

RowsPinned == \A row \in table : sidecar = row.ident

PinInv == ReadersAgree /\ WriterPinned /\ RowsPinned

Inv == Base /\ (UpsertsReadTheSidecar => PinInv)

(* A batch has an identity for every row, and a first one if it has any.   *)
LEMMA BatchIs ==
  ASSUME NEW a \in Args
  PROVE  /\ a.keys \in Batches /\ a.keys \in Seq(Key)
         /\ a.idents \in [DOMAIN a.keys -> Ident]
         /\ a.keys # <<>> => 1 \in DOMAIN a.keys /\ a.idents[1] \in Ident
<1>1. PICK k \in Batches : a \in [keys: {k}, idents: [DOMAIN k -> Ident]]
  BY DEF Args
<1>2. a.keys = k /\ a.idents \in [DOMAIN k -> Ident] /\ k \in Seq(Key)
  BY <1>1, InstanceAssumption
<1>3. k # <<>> => 1 \in DOMAIN k
  BY <1>2
<1> QED
  BY <1>2, <1>3

LEMMA InitHolds == Init => Inv
  BY InstanceAssumption
  DEF Init, Inv, Base, PinInv, TypeOK, LookupsOnlyRead, OneUpsert, FreshReads,
      UpsertsChecked, ReadersAgree, WriterPinned, RowsPinned, Awaiting, Reading, Writing, Torn

LEMMA BeginKeeps ==
  ASSUME Inv, ~Concurrent, NEW c \in Call, NEW a \in Args, Begin(c, a)
  PROVE  Inv'
<1>1. /\ \A d \in Call : pc[d] \notin Awaiting
      /\ \A d \in Call \cup Lookup : pc'[d] = IF d = c THEN pc'[c] ELSE pc[d]
      /\ pc'[c] = IF a.keys = <<>> THEN "returned" ELSE "loading"
      /\ pc[c] = "idle" /\ arg'[c] = a
      /\ UNCHANGED <<sidecar, created, table, cached, handle, seen, answer>>
      /\ c \notin Lookup
  BY InstanceAssumption DEF Begin, Quiet, Goto, store, Inv, Base, TypeOK
<1>2. TypeOK'
  BY <1>1, InstanceAssumption DEF Begin, Goto, store, Inv, Base, TypeOK, Awaiting
<1>3. LookupsOnlyRead' /\ OneUpsert'
  BY <1>1 DEF Inv, Base, LookupsOnlyRead, OneUpsert
<1>4. FreshReads'
  BY <1>1 DEF Inv, Base, FreshReads
<1>5. \A d \in Call : d # c => pc'[d] \notin Awaiting
  BY <1>1
<1>6. UpsertsChecked'
  BY <1>1, <1>5 DEF UpsertsChecked, Awaiting, Writing
<1>7. PinInv => PinInv'
  BY <1>1, <1>5 DEF PinInv, ReadersAgree, WriterPinned, RowsPinned, Awaiting, Writing
<1>8. UpsertsReadTheSidecar' = UpsertsReadTheSidecar
  BY <1>1 DEF UpsertsReadTheSidecar
<1> QED
  BY <1>2, <1>3, <1>4, <1>6, <1>7, <1>8 DEF Inv, Base

LEMMA BeginLookupKeeps ==
  ASSUME Inv, NEW l \in Lookup, NEW a \in Asks, BeginLookup(l, a)
  PROVE  Inv'
<1>1. /\ \A d \in Call \cup Lookup : pc'[d] = IF d = l THEN pc'[l] ELSE pc[d]
      /\ \A d \in Call \cup Lookup : arg'[d] = IF d = l THEN a ELSE arg[d]
      /\ pc'[l] \in {"loading", "listing"} /\ pc[l] = "idle" /\ l \notin Call
      /\ UNCHANGED <<sidecar, created, table, cached, handle, seen, answer>>
  BY InstanceAssumption DEF BeginLookup, Goto, store, Inv, Base, TypeOK
<1>2. TypeOK'
  BY <1>1, InstanceAssumption DEF BeginLookup, Goto, Inv, Base, TypeOK, Awaiting
<1>3. LookupsOnlyRead' /\ OneUpsert' /\ FreshReads' /\ UpsertsChecked'
  BY <1>1, InstanceAssumption
  DEF Inv, Base, LookupsOnlyRead, OneUpsert, FreshReads, UpsertsChecked, Reading, Uniform, IdentOf
<1>4. PinInv => PinInv'
  BY <1>1, InstanceAssumption
  DEF PinInv, ReadersAgree, WriterPinned, RowsPinned, IdentOf
<1>5. UpsertsReadTheSidecar' = UpsertsReadTheSidecar
  BY <1>1 DEF UpsertsReadTheSidecar
<1> QED
  BY <1>2, <1>3, <1>4, <1>5 DEF Inv, Base

(* Where the one call goes that makes a step.                              *)
Moves(c, places) ==
  /\ \A d \in Call \cup Lookup : d # c => pc'[d] = pc[d]
  /\ pc'[c] \in places /\ pc' \in [Call \cup Lookup -> Places]
  /\ arg' = arg

LEMMA GotoMoves ==
  ASSUME Base, NEW c \in Call \cup Lookup, NEW l \in Places, Goto(c, l), arg' = arg
  PROVE  Moves(c, {l})
  BY DEF Base, TypeOK, Goto, Moves, Places

(* Control is kept by a step that only moves an upsert or a lookup along   *)
(* its own way.                                                            *)
LEMMA ControlKeeps ==
  ASSUME Base, NEW c \in Call \cup Lookup, NEW l \in Places, Moves(c, {l}),
         pc[c] \in Awaiting, seen' = seen, l \notin {"idle", "loading"},
         c \in Lookup => l \in Reading,
         c \in Call => /\ l # "querying"
                       /\ l \in Writing \cup {"writing", "flushing"} => Uniform(c)
                       /\ l = "flushing" => sidecar' = Torn,
         sidecar' = sidecar \/ c \in Call
  PROVE  LookupsOnlyRead' /\ OneUpsert' /\ FreshReads' /\ UpsertsChecked'
<1>1. /\ \A d \in Call \cup Lookup : pc'[d] = IF d = c THEN l ELSE pc[d]
      /\ arg' = arg /\ Call \cap Lookup = {}
  BY InstanceAssumption DEF Moves
<1>2. LookupsOnlyRead' /\ OneUpsert' /\ FreshReads'
  BY <1>1 DEF Base, LookupsOnlyRead, OneUpsert, FreshReads
<1>3. \A d \in Call : Uniform(d)' = Uniform(d)
  BY <1>1 DEF Uniform, IdentOf
<1>4. \A d \in Call : d # c /\ c \in Call => pc'[d] # "flushing"
  BY <1>1 DEF Base, OneUpsert, Awaiting
<1>5. UpsertsChecked'
  BY <1>1, <1>3, <1>4 DEF Base, UpsertsChecked
<1> QED
  BY <1>2, <1>5

LEMMA ReadSidecarKeeps ==
  ASSUME Inv, NEW c \in Call \cup Lookup, ReadSidecar(c)
  PROVE  Inv'
<1>0. Moves(c, {"checking"})
  BY GotoMoves DEF ReadSidecar, store, Inv, Places, Awaiting
<1>1. /\ \A d \in Call \cup Lookup : pc'[d] = IF d = c THEN "checking" ELSE pc[d]
      /\ pc[c] = "loading" /\ pc' \in [Call \cup Lookup -> Places] /\ seen[c] = Null
      /\ UNCHANGED <<sidecar, created, table, cached, handle, answer, arg>>
  BY <1>0 DEF Moves, ReadSidecar, store, Inv, Base, FreshReads
<1>2. PICK t \in {Loaded(sidecar)} \cup (IF sidecar \in Ident THEN {Unread} ELSE {}) :
        seen' = [seen EXCEPT ![c] = t]
  BY DEF ReadSidecar
<1>3. /\ \A d \in Call \cup Lookup : seen'[d] = IF d = c THEN t ELSE seen[d]
      /\ t \in Ident \cup {Null, Unread} /\ (t \in Ident => sidecar = t)
      /\ (t = Null => sidecar \notin Ident)
  BY <1>2, InstanceAssumption DEF Loaded, Inv, Base, TypeOK
<1>4. Base'
  <2>1. TypeOK'
    BY <1>1, <1>2, <1>3 DEF Inv, Base, TypeOK, Places
  <2>2. LookupsOnlyRead' /\ OneUpsert' /\ FreshReads'
    BY <1>1, <1>3 DEF Inv, Base, LookupsOnlyRead, OneUpsert, FreshReads, Reading, Awaiting
  <2>3. UpsertsChecked'
    BY <1>1 DEF Inv, Base, UpsertsChecked, Uniform, IdentOf, Awaiting, Writing
  <2> QED
    BY <2>1, <2>2, <2>3 DEF Base
<1>5. UpsertsReadTheSidecar' => UpsertsReadTheSidecar
  BY <1>1, <1>3, InstanceAssumption DEF UpsertsReadTheSidecar
<1>6. PinInv => PinInv'
  BY <1>1, <1>3 DEF PinInv, ReadersAgree, WriterPinned, RowsPinned, IdentOf, Writing
<1> QED
  BY <1>4, <1>5, <1>6 DEF Inv

(* Only an upsert that found no identity writes the sidecar; if it could   *)
(* read it, the table has no rows and nobody has read an identity.         *)
LEMMA TruncateKeeps ==
  ASSUME Inv, NEW c \in Call \cup Lookup, Truncate(c)
  PROVE  Inv'
<1>0. Moves(c, {"flushing"})
  BY GotoMoves DEF Truncate, Inv, Places, Awaiting
<1>1. /\ c \in Call /\ c \notin Lookup /\ pc[c] = "writing" /\ sidecar' = Torn
      /\ \A d \in Call : d # c => pc[d] \notin Awaiting
      /\ \A d \in Call \cup Lookup : pc'[d] = IF d = c THEN "flushing" ELSE pc[d]
      /\ UNCHANGED <<created, table, cached, handle, seen, answer, arg>>
  BY <1>0, InstanceAssumption
  DEF Truncate, Inv, Base, LookupsOnlyRead, Reading, OneUpsert, Awaiting, Moves
<1>2. Base'
  <2>1. TypeOK'
    BY <1>0, <1>1 DEF Inv, Base, TypeOK, Moves, Places
  <2>2. Uniform(c)
    BY <1>1 DEF Inv, Base, UpsertsChecked
  <2>3. "flushing" \in Places /\ pc[c] \in Awaiting /\ "flushing" \notin {"idle", "loading"}
    BY <1>1 DEF Places, Awaiting
  <2> QED
    BY <1>0, <1>1, <2>1, <2>2, <2>3, ControlKeeps DEF Inv, Base
<1>3. ASSUME UpsertsReadTheSidecar', PinInv
      PROVE  PinInv'
  <2>1. sidecar \notin Ident
    BY <1>1, <1>3 DEF PinInv, WriterPinned
  <2>2. /\ table = {}
        /\ \A i \in Instance : cached[i] = Null
        /\ \A d \in Call \cup Lookup : seen[d] \notin Ident
    BY <2>1, <1>3 DEF PinInv, Inv, Base, TypeOK, ReadersAgree, RowsPinned, Row
  <2> QED
    BY <1>1, <2>2 DEF PinInv, ReadersAgree, WriterPinned, RowsPinned, Awaiting, Writing
<1> QED
  BY <1>1, <1>2, <1>3 DEF Inv, UpsertsReadTheSidecar

LEMMA FlushKeeps ==
  ASSUME Inv, NEW c \in Call \cup Lookup, Flush(c)
  PROVE  Inv'
<1>0. Moves(c, {"listing"})
  BY GotoMoves DEF Flush, Inv, Places, Awaiting
<1>1. /\ c \in Call /\ c \notin Lookup /\ pc[c] = "flushing" /\ sidecar' = IdentOf(c)
      /\ \A d \in Call : d # c => pc[d] \notin Awaiting
      /\ \A d \in Call \cup Lookup : pc'[d] = IF d = c THEN "listing" ELSE pc[d]
      /\ UNCHANGED <<created, table, handle, seen, answer, arg>>
      /\ cached' = [cached EXCEPT ![OwnerOf[c]] = IdentOf(c)]
      /\ OwnerOf[c] \in Instance
  BY <1>0, InstanceAssumption
  DEF Flush, Inv, Base, LookupsOnlyRead, Reading, OneUpsert, Awaiting, Moves, IdentOf
<1>2. arg[c] \in Args /\ arg[c].keys # <<>> /\ Uniform(c) /\ sidecar = Torn
  BY <1>1 DEF Inv, Base, UpsertsChecked, Awaiting
<1>3. IdentOf(c) \in Ident
  BY <1>2, BatchIs DEF IdentOf
<1>4. Base'
  <2>1. TypeOK'
    BY <1>0, <1>1, <1>3 DEF Inv, Base, TypeOK, Moves, Places
  <2>2. "listing" \in Places /\ pc[c] \in Awaiting /\ "listing" \notin {"idle", "loading"}
    BY <1>1 DEF Places, Awaiting
  <2> QED
    BY <1>0, <1>1, <1>2, <2>1, <2>2, ControlKeeps DEF Inv, Base
<1>5. ASSUME PinInv
      PROVE  PinInv'
  <2>1. /\ table = {}
        /\ \A i \in Instance : cached[i] = Null
        /\ \A d \in Call \cup Lookup : seen[d] \notin Ident
    BY <1>2, <1>5, InstanceAssumption
    DEF PinInv, Inv, Base, TypeOK, ReadersAgree, RowsPinned, Row
  <2>2. ReadersAgree'
    BY <1>1, <2>1 DEF ReadersAgree, Inv, Base, TypeOK
  <2>3. WriterPinned'
    BY <1>1, <2>1 DEF WriterPinned, Awaiting, Writing, IdentOf
  <2> QED
    BY <1>1, <2>1, <2>2, <2>3 DEF PinInv, RowsPinned
<1> QED
  BY <1>1, <1>4, <1>5 DEF Inv, UpsertsReadTheSidecar

LEMMA FindTableKeeps ==
  ASSUME Inv, NEW c \in Call \cup Lookup, FindTable(c)
  PROVE  Inv'
<1> DEFINE found == handle[OwnerOf[c]] \/ created
           l == IF c \in Lookup THEN IF found THEN "querying" ELSE "returned"
                ELSE IF found THEN "deleting" ELSE "creating"
<1>1. /\ pc[c] = "listing" /\ Goto(c, l) /\ l \in {"querying", "returned", "deleting", "creating"}
      /\ UNCHANGED <<sidecar, created, table, cached, seen, answer, arg>>
      /\ handle' = [handle EXCEPT ![OwnerOf[c]] = found]
  BY DEF FindTable
<1>2. Moves(c, {l})
  <2>1. l \in Places
    BY <1>1 DEF Places, Awaiting
  <2> QED
    BY <1>1, <2>1, GotoMoves DEF Inv
<1>3. \/ c \in Lookup /\ c \notin Call /\ l \in {"querying", "returned"}
      \/ c \in Call /\ c \notin Lookup /\ l \in {"deleting", "creating"}
  BY InstanceAssumption
<1>4. found \in BOOLEAN /\ OwnerOf[c] \in Instance
  BY InstanceAssumption DEF Inv, Base, TypeOK
<1> HIDE DEF found, l
<1>5. Base'
  <2>1. TypeOK'
    BY <1>1, <1>2, <1>4 DEF Inv, Base, TypeOK, Moves, Places
  <2>2. /\ l \in Places /\ pc[c] \in Awaiting /\ l \notin {"idle", "loading", "flushing"}
        /\ (c \in Lookup => l \in Reading) /\ (c \in Call => l # "querying")
    BY <1>1, <1>3 DEF Places, Awaiting, Reading
  <2>3. c \in Call => Uniform(c)
    BY <1>1 DEF Inv, Base, UpsertsChecked, Writing
  <2> QED
    BY <1>1, <1>2, <2>1, <2>2, <2>3, ControlKeeps DEF Inv, Base
<1>6. PinInv => PinInv'
  BY <1>1, <1>2, <1>3
  DEF Moves, PinInv, ReadersAgree, WriterPinned, RowsPinned, Writing, IdentOf
<1> QED
  BY <1>1, <1>5, <1>6 DEF Inv, UpsertsReadTheSidecar

LEMMA RowsAreRows ==
  ASSUME NEW c \in Call, arg[c] \in Args, Uniform(c)
  PROVE  \A row \in Rows(c) : row \in Row /\ row.ident = IdentOf(c)
<1>1. /\ arg[c].keys \in Seq(Key) /\ arg[c].idents \in [DOMAIN arg[c].keys -> Ident]
  BY BatchIs
<1> QED
  BY <1>1 DEF Rows, Row, Uniform

(* An upsert past the check writes its rows, of the pinned identity, over  *)
(* rows of that identity.                                                  *)
LEMMA WritesKeep ==
  ASSUME Inv, NEW c \in Call, NEW l \in {"deleting", "adding", "returned", "failed"},
         pc[c] \in {"creating", "deleting", "adding"}, Moves(c, {l}),
         table' \subseteq table \cup Rows(c), created' \in BOOLEAN,
         handle' \in [Instance -> BOOLEAN], UNCHANGED <<sidecar, cached, seen, answer>>
  PROVE  Inv'
<1>1. /\ c \notin Lookup /\ arg[c] \in Args /\ Uniform(c)
  BY InstanceAssumption DEF Inv, Base, UpsertsChecked, Awaiting, Writing
<1>2. \A row \in Rows(c) : row \in Row /\ row.ident = IdentOf(c)
  BY <1>1, RowsAreRows
<1>3. TypeOK'
  BY <1>2 DEF Inv, Base, TypeOK, Moves, Places
<1>4. l \in Places /\ pc[c] \in Awaiting /\ l \notin {"idle", "loading", "flushing", "querying"}
  BY DEF Places, Awaiting
<1>5. Base'
  BY <1>1, <1>3, <1>4, ControlKeeps DEF Inv, Base
<1>6. ASSUME PinInv
      PROVE  PinInv'
  <2>1. sidecar = IdentOf(c) /\ \A row \in table' : sidecar' = row.ident
    BY <1>2, <1>6 DEF PinInv, WriterPinned, RowsPinned, Writing
  <2> QED
    BY <1>6, <2>1 DEF PinInv, ReadersAgree, WriterPinned, RowsPinned, Moves, Writing, IdentOf
<1> QED
  BY <1>5, <1>6 DEF Inv, UpsertsReadTheSidecar

LEMMA CommitsKeep ==
  ASSUME Inv, NEW c \in Call \cup Lookup, CreateTable(c) \/ Delete(c) \/ Add(c)
  PROVE  Inv'
<1>1. c \in Call /\ pc[c] \in {"creating", "deleting", "adding"}
  BY DEF CreateTable, Delete, Add, Inv, Base, LookupsOnlyRead, Reading
<1>2. PICK l \in {"deleting", "adding", "returned", "failed"} : Goto(c, l)
  BY DEF CreateTable, Delete, Add
<1>3. /\ table' \subseteq table \cup Rows(c) /\ created' \in BOOLEAN
      /\ handle' \in [Instance -> BOOLEAN]
      /\ UNCHANGED <<sidecar, cached, seen, answer, arg>>
  BY DEF CreateTable, Delete, Add, Inv, Base, TypeOK
<1>4. l \in Places
  BY DEF Places, Awaiting
<1>5. Moves(c, {l})
  BY <1>2, <1>3, <1>4, GotoMoves DEF Inv
<1> QED
  BY <1>1, <1>3, <1>5, WritesKeep

(* A lookup's last step, and a call's failing, change nothing others read. *)
LEMMA EndKeeps ==
  ASSUME Inv, NEW c \in Call \cup Lookup, NEW l \in {"returned", "failed"},
         pc[c] \in Awaiting, Moves(c, {l}), answer' \in [Lookup -> SUBSET Row],
         UNCHANGED <<store, seen>>
  PROVE  Inv'
<1>0. UNCHANGED <<sidecar, created, table, cached, handle>>
  BY DEF store
<1>1. TypeOK'
  BY <1>0 DEF Inv, Base, TypeOK, Moves, Places
<1>2. /\ l \in Places /\ l \in Reading
      /\ l \notin {"idle", "loading", "flushing", "writing", "querying"} \cup Writing
  BY DEF Places, Awaiting, Reading, Writing
<1>3. Base'
  BY <1>0, <1>1, <1>2, ControlKeeps DEF Inv, Base
<1>4. PinInv => PinInv'
  BY <1>0, <1>2
  DEF PinInv, ReadersAgree, WriterPinned, RowsPinned, Moves, Writing, IdentOf
<1> QED
  BY <1>3, <1>4 DEF Inv, UpsertsReadTheSidecar

LEMMA QueryKeeps ==
  ASSUME Inv, NEW c \in Call \cup Lookup, Query(c)
  PROVE  Inv'
<1>1. PICK nearest \in SUBSET table : answer' = [answer EXCEPT ![c] = nearest]
  BY DEF Query, kSubset, Wanted
<1>2. answer' \in [Lookup -> SUBSET Row]
  BY <1>1 DEF Inv, Base, TypeOK
<1>3. "returned" \in Places
  BY DEF Places
<1>4. pc[c] \in Awaiting /\ Moves(c, {"returned"}) /\ UNCHANGED <<store, seen>>
  BY <1>3, GotoMoves DEF Query, Awaiting, Inv
<1> QED
  BY <1>2, <1>4, EndKeeps

LEMMA ThrowsKeeps ==
  ASSUME Inv, NEW c \in Call \cup Lookup, Throws(c)
  PROVE  Inv'
<1>1. "failed" \in Places
  BY DEF Places
<1>2. /\ pc[c] \in Awaiting /\ Moves(c, {"failed"}) /\ UNCHANGED <<store, seen>>
      /\ answer' \in [Lookup -> SUBSET Row]
  BY <1>1, GotoMoves DEF Throws, Inv, Base, TypeOK
<1> QED
  BY <1>2, EndKeeps

LEMMA CrashKeeps ==
  ASSUME Inv, NEW i \in Instance, Crash(i)
  PROVE  Inv'
<1>1. /\ \A c \in Call \cup Lookup :
           pc'[c] = pc[c] \/ (pc[c] \in Awaiting /\ pc'[c] = "failed")
      /\ UNCHANGED <<sidecar, created, table, arg, seen, answer>>
      /\ \A j \in Instance : cached'[j] \in {cached[j], Null}
  BY DEF Crash, Inv, Base, TypeOK
<1>2. TypeOK'
  BY DEF Crash, Inv, Base, TypeOK, Awaiting
<1>3. LookupsOnlyRead' /\ OneUpsert' /\ FreshReads'
  BY <1>1 DEF Inv, Base, LookupsOnlyRead, OneUpsert, FreshReads, Reading, Awaiting
<1>4. UpsertsChecked'
  BY <1>1 DEF Inv, Base, UpsertsChecked, Uniform, IdentOf, Awaiting, Writing
<1>5. PinInv => PinInv'
  BY <1>1 DEF PinInv, ReadersAgree, WriterPinned, RowsPinned, IdentOf, Writing
<1> QED
  BY <1>1, <1>2, <1>3, <1>4, <1>5 DEF Inv, Base, UpsertsReadTheSidecar

LEMMA CloseKeeps ==
  ASSUME Inv, NEW i \in Instance, Close(i)
  PROVE  Inv'
<1>1. /\ UNCHANGED <<sidecar, created, table, cached, pc, arg, seen, answer>>
      /\ handle' \in [Instance -> BOOLEAN]
  BY DEF Close, Inv, Base, TypeOK
<1> QED
  BY <1>1
  DEF Inv, Base, PinInv, TypeOK, LookupsOnlyRead, OneUpsert, FreshReads, UpsertsChecked,
      Uniform, IdentOf, ReadersAgree, WriterPinned, RowsPinned, UpsertsReadTheSidecar

(* The check lets an upsert through with a batch of the identity it read,  *)
(* or of one identity if it read none.                                     *)
LEMMA AfterLoadMoves ==
  ASSUME Base, NEW c \in Call \cup Lookup, NEW pin \in Ident \cup {Null}, NEW manifest,
         pc[c] \in {"loading", "checking"}, AfterLoad(c, pin, manifest), arg' = arg
  PROVE  \E l \in {"returned", "listing", "writing", "refused", "failed"} :
           /\ Moves(c, {l})
           /\ c \in Lookup => l \in {"returned", "listing", "refused"}
           /\ c \in Call => \/ l = "failed"
                            \/ /\ Uniform(c) /\ (pin # Null => IdentOf(c) = pin)
                               /\ l = AfterCheck(manifest)
<1>0. {"returned", "listing", "writing", "refused", "failed"} \subseteq Places
  BY DEF Places, Awaiting
<1>1. CASE c \in Call
  <2> DEFINE expected == IF pin = Null THEN IdentOf(c) ELSE pin
             l == IF \A p \in DOMAIN arg[c].idents : arg[c].idents[p] = expected
                  THEN AfterCheck(manifest) ELSE "failed"
  <2>1. Goto(c, l)
    BY <1>1 DEF AfterLoad, CheckIdentity, CheckedRows, AllRows, Compatible, IdentOf
  <2>2. 1 \in DOMAIN arg[c].idents
    BY <1>1, BatchIs DEF Base, UpsertsChecked, Awaiting
  <2>3. \/ l = "failed"
        \/ /\ Uniform(c) /\ (pin # Null => IdentOf(c) = pin)
           /\ l = AfterCheck(manifest)
    BY <2>2 DEF Uniform, IdentOf
  <2>4. l \in {"listing", "writing", "failed"}
    BY DEF AfterCheck
  <2> HIDE DEF l
  <2>5. Moves(c, {l})
    BY <1>0, <2>1, <2>4, GotoMoves
  <2> QED
    BY <1>1, <2>3, <2>4, <2>5, InstanceAssumption
<1>2. CASE c \in Lookup
  <2>1. \E l \in {"returned", "listing", "refused"} : Goto(c, l)
    BY <1>2, InstanceAssumption DEF AfterLoad, CheckLength
  <2>2. PICK l \in {"returned", "listing", "refused"} : Goto(c, l)
    BY <2>1
  <2>3. Moves(c, {l})
    BY <1>0, <2>2, GotoMoves
  <2> QED
    BY <1>2, <2>3, InstanceAssumption
<1> QED
  BY <1>1, <1>2

LEMMA LoadKeeps ==
  ASSUME Inv, NEW c \in Call \cup Lookup, NEW pin \in Ident \cup {Null},
         NEW manifest \in Ident \cup {Null},
         pc[c] \in {"loading", "checking"}, AfterLoad(c, pin, manifest),
         cached' = [cached EXCEPT ![OwnerOf[c]] = IF pin = Null THEN @ ELSE pin],
         pin # Null => manifest = pin,
         UpsertsReadTheSidecar =>
           /\ pin # Null => sidecar = pin
           /\ pin = Null /\ c \in Call => sidecar \notin Ident /\ manifest = Null,
         UNCHANGED <<sidecar, created, table, handle, arg, seen, answer>>
  PROVE  Inv'
<1>1. PICK l \in {"returned", "listing", "writing", "refused", "failed"} :
        /\ Moves(c, {l})
        /\ c \in Lookup => l \in {"returned", "listing", "refused"}
        /\ c \in Call => \/ l = "failed"
                         \/ /\ Uniform(c) /\ (pin # Null => IdentOf(c) = pin)
                            /\ l = AfterCheck(manifest)
  BY AfterLoadMoves DEF Inv
<1>2. OwnerOf[c] \in Instance /\ Call \cap Lookup = {}
  BY InstanceAssumption
<1>3. Base'
  <2>1. TypeOK'
    BY <1>1, <1>2 DEF Inv, Base, TypeOK, Moves, Places
  <2>2. /\ l \in Places /\ pc[c] \in Awaiting
        /\ l \notin {"idle", "loading", "flushing", "querying"}
        /\ (c \in Lookup => l \in Reading)
        /\ (c \in Call /\ l \in Writing \cup {"writing", "flushing"} => Uniform(c))
    BY <1>1 DEF Places, Awaiting, Reading, Writing
  <2> QED
    BY <1>1, <2>1, <2>2, ControlKeeps DEF Inv, Base
<1>4. ASSUME PinInv, UpsertsReadTheSidecar
      PROVE  PinInv'
  <2>1. c \in Call => \/ l = "failed"
                      \/ l = "listing" /\ sidecar = IdentOf(c)
                      \/ l = "writing" /\ sidecar \notin Ident
    BY <1>1, <1>4 DEF AfterCheck
  <2>2. WriterPinned'
    BY <1>1, <1>2, <1>4, <2>1 DEF PinInv, WriterPinned, Moves, Writing, IdentOf
  <2>3. ReadersAgree'
    BY <1>2, <1>4 DEF PinInv, ReadersAgree, Inv, Base, TypeOK
  <2> QED
    BY <1>4, <2>2, <2>3 DEF PinInv, RowsPinned
<1> QED
  BY <1>3, <1>4 DEF Inv, UpsertsReadTheSidecar

LEMMA LoadsKeep ==
  ASSUME Inv, NEW c \in Call \cup Lookup, LoadCached(c) \/ Check(c)
  PROVE  Inv'
<1> DEFINE i == OwnerOf[c]
<1>0. i \in Instance /\ cached \in [Instance -> Ident \cup {Null}]
  BY InstanceAssumption DEF Inv, Base, TypeOK
<1>1. CASE LoadCached(c)
  <2>1. /\ cached[i] \in Ident \cup {Null} /\ cached[i] # Null
        /\ (UpsertsReadTheSidecar => sidecar = cached[i])
        /\ cached' = [cached EXCEPT ![i] = IF cached[i] = Null THEN @ ELSE cached[i]]
        /\ pc[c] \in {"loading", "checking"} /\ AfterLoad(c, cached[i], cached[i])
        /\ UNCHANGED <<sidecar, created, table, handle, arg, seen, answer>>
    BY <1>0, <1>1 DEF LoadCached, store, Inv, PinInv, ReadersAgree
  <2> QED
    BY <2>1, LoadKeeps
<1>2. CASE Check(c)
  <2> DEFINE pin == Loaded(seen[c])
  <2>1. /\ pin \in Ident \cup {Null} /\ (pin # Null => pin = seen[c] /\ pin \in Ident)
    BY DEF Loaded
  <2>2. /\ cached' = [cached EXCEPT ![i] = IF pin = Null THEN @ ELSE pin]
        /\ pc[c] = "checking" /\ AfterLoad(c, pin, cached'[i])
        /\ UNCHANGED <<sidecar, created, table, handle, arg, seen, answer>>
    BY <1>2 DEF Check
  <2>3. cached'[i] \in Ident \cup {Null} /\ cached'[i] = IF pin = Null THEN cached[i] ELSE pin
    BY <1>0, <2>1, <2>2
  <2>4. ASSUME UpsertsReadTheSidecar
        PROVE  /\ pin # Null => sidecar = pin
               /\ pin = Null /\ c \in Call => sidecar \notin Ident /\ cached'[i] = Null
    <3>1. PinInv
      BY <2>4 DEF Inv
    <3>2. pin # Null => sidecar = pin
      BY <2>1, <3>1 DEF PinInv, ReadersAgree
    <3>3. ASSUME pin = Null, c \in Call
          PROVE  sidecar \notin Ident /\ cached'[i] = Null
      <4>1. seen[c] = Null
        BY <2>4, <3>3, InstanceAssumption DEF Inv, Base, TypeOK, Loaded, UpsertsReadTheSidecar
      <4>2. sidecar \notin Ident
        BY <2>2, <3>1, <3>3, <4>1 DEF PinInv, WriterPinned
      <4> QED
        BY <1>0, <2>3, <3>1, <3>3, <4>2 DEF PinInv, ReadersAgree
    <3> QED
      BY <3>2, <3>3
  <2> HIDE DEF pin
  <2> QED
    BY <2>1, <2>2, <2>3, <2>4, LoadKeeps
<1> QED
  BY <1>1, <1>2

LEMMA InvNext ==
  ASSUME Inv, ~Concurrent, [Next]_vars
  PROVE  Inv'
<1>1. CASE UNCHANGED vars
  BY <1>1 DEF vars, store, Inv, Base, PinInv, TypeOK, LookupsOnlyRead, OneUpsert,
              FreshReads, UpsertsChecked, Uniform, IdentOf, ReadersAgree, WriterPinned,
              RowsPinned, UpsertsReadTheSidecar
<1>2. ASSUME NEW c \in Call \cup Lookup, Step(c)
      PROVE  Inv'
  BY <1>2, LoadsKeep, ReadSidecarKeeps, TruncateKeeps, FlushKeeps, FindTableKeeps,
     CommitsKeep, QueryKeeps, ThrowsKeeps DEF Step
<1> QED
  BY <1>1, <1>2, BeginKeeps, BeginLookupKeeps, CrashKeeps, CloseKeeps DEF Next

LEMMA InvHolds == ~Concurrent /\ Spec => []Inv
<1> SUFFICES ASSUME ~Concurrent PROVE Spec => []Inv
  OBVIOUS
<1>1. Init => Inv
  BY InitHolds
<1>2. Inv /\ [Next]_vars => Inv'
  BY InvNext
<1> QED
  BY <1>1, <1>2, PTL DEF Spec

(* Every file, table and call keeps its type, ...                          *)
THEOREM TypeCorrect == ~Concurrent /\ Spec => []TypeOK
<1>1. Inv => TypeOK
  BY DEF Inv, Base
<1> QED
  BY <1>1, InvHolds, PTL

(* ... and as long as no upsert has failed to read a good sidecar, that    *)
(* file and every store object agree with the identity of every row in the *)
(* table, whatever else failed and whichever process died at any step      *)
(* (lancedb-store.ts:170).                                                 *)
THEOREM PinMatchesRowsHolds == ~Concurrent /\ Spec => []PinMatchesRows
<1>1. Inv => PinMatchesRows
  BY DEF Inv, Base, PinInv, TypeOK, ReadersAgree, RowsPinned, PinMatchesRows
<1> QED
  BY <1>1, InvHolds, PTL
-----------------------------------------------------------------------------
(***************************************************************************)
(* The table as a map.  A batch that names a key twice writes two rows     *)
(* under it (lancedb-store.ts:303); what follows is about callers that do  *)
(* not, as the indexer, whose rows are one per node and kind.              *)
(***************************************************************************)
TwinFree ==
  \A keys \in Batches : \A p, q \in DOMAIN keys : keys[p] = keys[q] => p = q

(* Between its delete and its add, an upsert's keys are not in the table.  *)
Cleared(c) ==
  /\ \A row \in table : row.key \notin KeysOf(c)
  /\ \A row \in replaced[c] : row \in Row /\ row.key \in KeysOf(c)

OneRowPerKey == \A x, y \in Logical : x.key = y.key => x = y

TableInv ==
  /\ ~created => table = {}
  /\ \A i \in Instance : handle[i] => created
  /\ \A c \in Call : pc[c] \in {"deleting", "adding"} => created
  /\ DOMAIN replaced = Call

MapInv ==
  /\ IsFiniteSet(table)
  /\ \A c \in Call : pc[c] = "adding" => Cleared(c)
  /\ OneRowPerKey

LEMMA LogicalIs ==
  ASSUME Inv
  PROVE  /\ (\A c \in Call : pc[c] # "adding") => Logical = table
         /\ \A c \in Call : pc[c] = "adding" => Logical = table \cup replaced[c]
<1>1. \A c, d \in Call : pc[c] = "adding" /\ pc[d] = "adding" => c = d
  BY DEF Inv, Base, OneUpsert, Awaiting
<1>2. ASSUME NEW c \in Call, pc[c] = "adding"
      PROVE  Logical = table \cup replaced[c]
  <2>1. {d \in Call : pc[d] = "adding"} = {c}
    BY <1>1, <1>2
  <2> QED
    BY <2>1 DEF Logical
<1>3. ASSUME \A c \in Call : pc[c] # "adding"
      PROVE  Logical = table
  <2>1. {d \in Call : pc[d] = "adding"} = {}
    BY <1>3
  <2> QED
    BY <2>1 DEF Logical
<1> QED
  BY <1>2, <1>3

LEMMA RowsAreAMap ==
  ASSUME TwinFree, NEW c \in Call, arg[c] \in Args, Uniform(c)
  PROVE  /\ IsFiniteSet(Rows(c))
         /\ \A x, y \in Rows(c) : x.key = y.key => x = y
         /\ \A x \in Rows(c) : x.key \in KeysOf(c) /\ x.call = c /\ x.ident = IdentOf(c)
         /\ \A k \in KeysOf(c) : \E x \in Rows(c) : x.key = k
         /\ KeysOf(c) \subseteq Key
<1> DEFINE keys == arg[c].keys
           R(p) == [key |-> keys[p], ident |-> arg[c].idents[p], call |-> c, pos |-> p]
           f == [p \in DOMAIN keys |-> R(p)]
<1>1. keys \in Seq(Key) /\ keys \in Batches
  BY BatchIs
<1>2. Rows(c) = {R(p) : p \in DOMAIN keys}
  BY DEF Rows
<1>3. IsFiniteSet(DOMAIN keys)
  <2>1. DOMAIN keys = 1..Len(keys) /\ Len(keys) \in Nat
    BY <1>1
  <2> QED
    BY <2>1, FS_Interval
<1>4. f \in Surjection(DOMAIN keys, Rows(c))
  BY <1>2 DEF Surjection
<1>5. IsFiniteSet(Rows(c))
  <2> HIDE DEF f
  <2> QED
    BY <1>3, <1>4, FS_Surjection
<1>6. \A x, y \in Rows(c) : x.key = y.key => x = y
  <2>1. \A p, q \in DOMAIN keys : keys[p] = keys[q] => p = q
    BY <1>1 DEF TwinFree
  <2> QED
    BY <1>2, <2>1
<1>7. \A x \in Rows(c) : x.key \in KeysOf(c) /\ x.call = c /\ x.ident = IdentOf(c)
  <2>1. DOMAIN keys = DOMAIN arg[c].idents
    BY BatchIs
  <2> QED
    BY <1>2, <2>1 DEF KeysOf, Uniform
<1>8. ASSUME NEW k \in KeysOf(c)
      PROVE  \E x \in Rows(c) : x.key = k
  <2>1. PICK p \in DOMAIN keys : k = keys[p]
    BY DEF KeysOf
  <2>2. R(p) \in Rows(c) /\ R(p).key = k
    BY <1>2, <2>1
  <2> QED
    BY <2>2
<1>9. KeysOf(c) \subseteq Key
  BY <1>1 DEF KeysOf
<1> QED
  BY <1>5, <1>6, <1>7, <1>8, <1>9

(***************************************************************************)
(* What a step does to the rows: nothing, one of the three commits, or it  *)
(* stops the upsert between two of them.                                   *)
(***************************************************************************)
Still ==
  /\ UNCHANGED <<created, table, replaced>>
  /\ \A c \in Call : /\ (pc'[c] = "adding") = (pc[c] = "adding")
                     /\ pc[c] = "adding" => arg'[c] = arg[c]

Stops(c) ==
  /\ UNCHANGED <<sidecar, created, table, replaced, arg, seen>>
  /\ pc[c] = "adding" /\ pc'[c] = "failed"
  /\ \A d \in Call : d # c => pc'[d] = pc[d]

Creates(c) == CreateTable(c) /\ ~created

(* A step that lets everybody's writing be, whoever makes it.              *)
LEMMA QuietStep ==
  ASSUME Inv, NEW c \in Call \cup Lookup, NEW l, Moves(c, {l}), l # "adding",
         UNCHANGED <<created, table, replaced>>, c \in Call => pc[c] # "adding"
  PROVE  Still
  BY InstanceAssumption DEF Still, Moves

LEMMA StillKeepsMap ==
  ASSUME MapInv, Still
  PROVE  MapInv' /\ Logical' = Logical
<1>1. \A c \in Call : pc[c] = "adding" => KeysOf(c)' = KeysOf(c)
  BY DEF Still, KeysOf
<1>2. {c \in Call : pc'[c] = "adding"} = {c \in Call : pc[c] = "adding"}
  BY DEF Still
<1>3. Logical' = Logical
  BY <1>2 DEF Still, Logical
<1>4. OneRowPerKey'
  BY <1>3 DEF MapInv, OneRowPerKey
<1>5. \A c \in Call : pc'[c] = "adding" => Cleared(c)'
  BY <1>1 DEF MapInv, Cleared, Still
<1> QED
  BY <1>3, <1>4, <1>5 DEF MapInv, Still

(* The rows of an upsert that stopped between its delete and its add are   *)
(* all that is lost.                                                       *)
LEMMA StopsKeepsMap ==
  ASSUME Inv, MapInv, NEW c \in Call, Stops(c)
  PROVE  /\ MapInv' /\ Logical = table \cup replaced[c] /\ Logical' = table
         /\ \A row \in table : row.key \notin KeysOf(c)
         /\ \A row \in replaced[c] : row.key \in KeysOf(c)
<1>1. Logical = table \cup replaced[c] /\ Cleared(c)
  BY LogicalIs DEF Stops, MapInv
<1>2. \A d \in Call : pc'[d] # "adding"
  BY DEF Stops, Inv, Base, OneUpsert, Awaiting
<1>3. Logical' = table
  <2>1. {d \in Call : pc'[d] = "adding"} = {}
    BY <1>2
  <2> QED
    BY <2>1 DEF Logical, Stops
<1>4. OneRowPerKey'
  BY <1>1, <1>3 DEF MapInv, OneRowPerKey
<1> QED
  BY <1>1, <1>2, <1>3, <1>4 DEF MapInv, Stops, Cleared

(* What an upsert that passed the check is about to write.                 *)
LEMMA WriterIs ==
  ASSUME Inv, NEW c \in Call, pc[c] \in {"creating", "deleting", "adding"}
  PROVE  /\ arg[c] \in Args /\ Uniform(c) /\ IdentOf(c) \in Ident
         /\ UpsertsReadTheSidecar => sidecar = IdentOf(c)
         /\ \A d \in Call : d # c => pc[d] # "adding"
<1>1. arg[c] \in Args /\ arg[c].keys # <<>> /\ Uniform(c)
  BY DEF Inv, Base, UpsertsChecked, Awaiting, Writing
<1>2. UpsertsReadTheSidecar => sidecar = IdentOf(c)
  BY DEF Inv, PinInv, WriterPinned, Writing
<1>3. \A d \in Call : d # c => pc[d] # "adding"
  BY DEF Inv, Base, OneUpsert, Awaiting
<1> QED
  BY <1>1, <1>2, <1>3, BatchIs DEF IdentOf

LEMMA CreatesKeepsMap ==
  ASSUME TwinFree, Inv, TableInv, MapInv, NEW c \in Call, Creates(c)
  PROVE  MapInv' /\ Logical = {} /\ Logical' = Rows(c)
<1>1. pc[c] = "creating" /\ table = {} /\ table' = Rows(c) /\ Goto(c, "deleting")
  BY DEF Creates, CreateTable, TableInv
<1>2. arg[c] \in Args /\ Uniform(c)
  BY <1>1, WriterIs
<1>3. \A d \in Call : pc[d] # "adding" /\ pc'[d] # "adding"
  BY <1>1, WriterIs DEF Goto, Inv, Base, TypeOK
<1>4. Logical = {} /\ Logical' = Rows(c)
  <2>1. {d \in Call : pc'[d] = "adding"} = {}
    BY <1>3
  <2> QED
    BY <1>1, <1>3, <2>1, LogicalIs DEF Logical
<1>5. OneRowPerKey' /\ IsFiniteSet(table')
  BY <1>1, <1>2, <1>4, RowsAreAMap DEF OneRowPerKey
<1> QED
  BY <1>3, <1>4, <1>5 DEF MapInv

LEMMA DeleteKeepsMap ==
  ASSUME Inv, TableInv, MapInv, NEW c \in Call, Delete(c)
  PROVE  MapInv' /\ Logical' = Logical
<1>1. /\ pc[c] = "deleting" /\ table' = {row \in table : row.key \notin KeysOf(c)}
      /\ replaced' = [replaced EXCEPT ![c] = table \ table']
      /\ UNCHANGED <<created, arg>>
  BY DEF Delete, Matches
<1>2. \A d \in Call : (d # c => pc[d] # "adding") /\ (pc'[d] = "adding" <=> d = c)
  BY <1>1, WriterIs DEF Delete, Goto, Inv, Base, TypeOK
<1>3. replaced'[c] = table \ table'
  BY <1>1 DEF TableInv
<1>4. Logical = table
  BY <1>1, <1>2, LogicalIs
<1>5. Logical' = table
  <2>1. {d \in Call : pc'[d] = "adding"} = {c}
    BY <1>2
  <2> QED
    BY <1>1, <1>3, <2>1 DEF Logical
<1>6. KeysOf(c)' = KeysOf(c)
  BY <1>1 DEF KeysOf
<1>7. Cleared(c)'
  BY <1>1, <1>3, <1>6 DEF Cleared, Inv, Base, TypeOK
<1>8. IsFiniteSet(table')
  BY <1>1, FS_Subset DEF MapInv
<1>9. OneRowPerKey'
  BY <1>4, <1>5 DEF MapInv, OneRowPerKey
<1> QED
  BY <1>1, <1>2, <1>4, <1>5, <1>7, <1>8, <1>9 DEF MapInv

LEMMA AddKeepsMap ==
  ASSUME TwinFree, Inv, TableInv, MapInv, NEW c \in Call, Add(c)
  PROVE  /\ MapInv' /\ Logical = table \cup replaced[c] /\ Logical' = table \cup Rows(c)
         /\ Cleared(c)
<1>1. pc[c] = "adding" /\ table' = table \cup Rows(c) /\ Goto(c, "returned")
  BY DEF Add
<1>2. arg[c] \in Args /\ Uniform(c)
  BY <1>1, WriterIs
<1>3. Cleared(c) /\ Logical = table \cup replaced[c]
  BY <1>1, LogicalIs DEF MapInv
<1>4. \A d \in Call : pc'[d] # "adding"
  BY <1>1, WriterIs DEF Goto, Inv, Base, TypeOK
<1>5. Logical' = table \cup Rows(c)
  <2>1. {d \in Call : pc'[d] = "adding"} = {}
    BY <1>4
  <2> QED
    BY <1>1, <2>1 DEF Logical
<1>6. OneRowPerKey'
  <2>1. \A x, y \in table : x.key = y.key => x = y
    BY <1>3 DEF MapInv, OneRowPerKey
  <2>2. \A x, y \in Rows(c) : x.key = y.key => x = y
    BY <1>2, RowsAreAMap
  <2>3. \A x \in table, y \in Rows(c) : x.key # y.key
    BY <1>2, <1>3, RowsAreAMap DEF Cleared
  <2> QED
    BY <1>5, <2>1, <2>2, <2>3 DEF OneRowPerKey
<1>7. IsFiniteSet(table')
  BY <1>1, <1>2, RowsAreAMap, FS_Union DEF MapInv
<1> QED
  BY <1>1, <1>3, <1>4, <1>5, <1>6, <1>7 DEF MapInv
-----------------------------------------------------------------------------
(***************************************************************************)
(* The store implements the map, step by step.  First what a step does to  *)
(* the upsert under way.                                                   *)
(***************************************************************************)
SameUpserts ==
  \A d \in Call : /\ pc'[d] \in Awaiting <=> pc[d] \in Awaiting
                  /\ pc'[d] = "returned" <=> pc[d] = "returned"
                  /\ pc[d] # "idle" => arg'[d] = arg[d]

LEMMA SameUpsertsKeep ==
  ASSUME SameUpserts
  PROVE  MapBusy' = MapBusy /\ MapDone' = MapDone
<1>1. Upserting' = Upserting /\ \A d \in Upserting : arg'[d] = arg[d]
  BY DEF SameUpserts, Upserting, Awaiting
<1>2. \A d \in Upserting : KeysOf(d)' = KeysOf(d)
  BY <1>1 DEF KeysOf
<1>3. MapBusy' = MapBusy
  BY <1>1, <1>2 DEF MapBusy
<1>4. MapDone' = MapDone
  BY DEF SameUpserts, MapDone
<1> QED
  BY <1>3, <1>4

LEMMA BusyIs ==
  ASSUME Inv, NEW c \in Call, pc[c] \in Awaiting
  PROVE  MapBusy = {[call |-> c, keys |-> KeysOf(c)]}
<1>1. Upserting = {c}
  BY DEF Upserting, Inv, Base, OneUpsert
<1> QED
  BY <1>1 DEF MapBusy

LEMMA EndedUpsert ==
  ASSUME Inv, NEW c \in Call, pc[c] \in Awaiting, NEW l \in {"returned", "failed"},
         pc'[c] = l, \A d \in Call : d # c => pc'[d] = pc[d], arg' = arg
  PROVE  MapBusy' = {} /\ MapDone' = MapDone \cup (IF l = "returned" THEN {c} ELSE {})
<1>1. \A d \in Call : pc'[d] \notin Awaiting
  BY DEF Inv, Base, OneUpsert, Awaiting
<1>2. Upserting' = {}
  BY <1>1 DEF Upserting
<1>3. MapBusy' = {}
  BY <1>2 DEF MapBusy
<1>4. arg[c].keys # <<>> /\ pc[c] # "returned"
  BY DEF Inv, Base, UpsertsChecked, Awaiting
<1>5. MapDone' = MapDone \cup (IF l = "returned" THEN {c} ELSE {})
  BY <1>4 DEF MapDone
<1> QED
  BY <1>3, <1>5

At(rows, k) == CHOOSE row \in rows : row.key = k

MapOf(rows) ==
  [k \in Key |-> IF \E row \in rows : row.key = k
                THEN [call |-> At(rows, k).call, ident |-> At(rows, k).ident]
                ELSE Null]

LEMMA MapOfAt ==
  ASSUME NEW rows, \A x, y \in rows : x.key = y.key => x = y, NEW k \in Key
  PROVE  /\ \A row \in rows : row.key = k =>
                MapOf(rows)[k] = [call |-> row.call, ident |-> row.ident]
         /\ (\A row \in rows : row.key # k) => MapOf(rows)[k] = Null
<1>1. ASSUME NEW row \in rows, row.key = k
      PROVE  MapOf(rows)[k] = [call |-> row.call, ident |-> row.ident]
  <2>1. At(rows, k) = row
    BY <1>1 DEF At
  <2> QED
    BY <1>1, <2>1 DEF MapOf
<1> QED
  BY <1>1 DEF MapOf

LEMMA MapRowsAre ==
  ASSUME MapInv
  PROVE  MapRows = MapOf(Logical) /\ \A x, y \in Logical : x.key = y.key => x = y
  BY DEF MapRows, RowAt, MapOf, At, MapInv, OneRowPerKey

SameReads == \A d \in Call : seen'[d] = seen[d]

LEMMA StutterStep ==
  ASSUME Inv, MapInv, Still, SameUpserts, SameReads, Loaded(sidecar)' = Loaded(sidecar)
  PROVE  MapInv' /\ UNCHANGED Map!vars
<1>1. MapInv' /\ MapRows' = MapRows
  BY StillKeepsMap, MapRowsAre DEF MapRows, RowAt
<1>2. UpsertsReadTheSidecar' = UpsertsReadTheSidecar
  BY DEF SameReads, UpsertsReadTheSidecar
<1> QED
  BY <1>1, <1>2, SameUpsertsKeep DEF Map!vars

LEMMA FailStep ==
  ASSUME Inv, MapInv, NEW c \in Call, pc[c] \in Awaiting, pc'[c] = "failed",
         \A d \in Call : d # c => pc'[d] = pc[d],
         UNCHANGED <<sidecar, arg>>, SameReads, Still \/ Stops(c)
  PROVE  MapInv' /\ Map!Next
<1> DEFINE b == [call |-> c, keys |-> KeysOf(c)]
<1>1. MapBusy = {b} /\ MapBusy' = {} /\ MapDone' = MapDone
  BY BusyIs, EndedUpsert
<1>2. UpsertsReadTheSidecar' = UpsertsReadTheSidecar /\ Loaded(sidecar)' = Loaded(sidecar)
  BY DEF SameReads, UpsertsReadTheSidecar, Loaded
<1>3. CASE Still
  <2>1. MapInv' /\ MapRows' = MapRows
    BY <1>3, StillKeepsMap DEF MapRows, RowAt
  <2> QED
    BY <1>1, <1>2, <2>1 DEF Map!Fail, Map!Next
<1>4. CASE Stops(c)
  <2>1. /\ MapInv' /\ Logical = table \cup replaced[c] /\ Logical' = table
        /\ \A row \in table : row.key \notin KeysOf(c)
        /\ \A row \in replaced[c] : row.key \in KeysOf(c)
    BY <1>4, StopsKeepsMap
  <2>2. /\ MapRows = MapOf(Logical) /\ MapRows' = MapOf(Logical')
        /\ \A x, y \in Logical : x.key = y.key => x = y
        /\ \A x, y \in Logical' : x.key = y.key => x = y
    BY <2>1, MapRowsAre DEF MapRows, RowAt, MapOf, At
  <2>3. ASSUME NEW k \in Key
        PROVE  MapRows'[k] = IF k \in KeysOf(c) THEN Null ELSE MapRows[k]
    <3>1. CASE \E x \in Logical' : x.key = k
      <4>1. PICK x \in Logical' : x.key = k
        BY <3>1
      <4>2. x \in Logical /\ k \notin KeysOf(c)
        BY <2>1, <4>1
      <4>3. MapRows[k] = [call |-> x.call, ident |-> x.ident]
        BY <2>2, <4>1, <4>2, MapOfAt
      <4>4. MapRows'[k] = [call |-> x.call, ident |-> x.ident]
        BY <2>2, <4>1, MapOfAt
      <4> QED
        BY <4>2, <4>3, <4>4
    <3>2. CASE ~\E x \in Logical' : x.key = k
      <4>1. MapRows'[k] = Null
        BY <2>2, <3>2, MapOfAt
      <4>2. k \notin KeysOf(c) => MapRows[k] = Null
        BY <2>1, <2>2, <3>2, MapOfAt
      <4> QED
        BY <4>1, <4>2
    <3> QED
      BY <3>1, <3>2
  <2>4. MapRows' = Map!With(KeysOf(c), Null)
    <3>1. MapRows' = [k \in Key |-> MapRows'[k]]
      BY DEF MapRows
    <3> QED
      BY <2>3, <3>1 DEF Map!With
  <2>5. Map!Fail(b)
    BY <1>1, <1>2, <2>4 DEF Map!Fail
  <2> QED
    BY <1>1, <2>1, <2>5 DEF Map!Next
<1> QED
  BY <1>3, <1>4

(* A commit of an upsert's rows, over what it had deleted.                 *)
LEMMA WriteStep ==
  ASSUME TwinFree, Inv, MapInv, MapInv', NEW c \in Call, NEW old,
         pc[c] \in {"creating", "adding"},
         Logical' = (Logical \ old) \cup Rows(c),
         \A row \in Logical : row.key \in KeysOf(c) <=> row \in old,
         UNCHANGED <<sidecar, arg, seen>>, \A d \in Call : d # c => pc'[d] = pc[d],
         pc'[c] \in {"deleting", "returned"}
  PROVE  Map!Next
<1> DEFINE b == [call |-> c, keys |-> KeysOf(c)]
           id == IdentOf(c)
           row == [call |-> c, ident |-> id]
<1>1. arg[c] \in Args /\ Uniform(c) /\ id \in Ident /\ pc[c] \in Awaiting
      /\ (UpsertsReadTheSidecar => sidecar = id)
  BY WriterIs DEF Awaiting
<1>2. /\ UpsertsReadTheSidecar' = UpsertsReadTheSidecar
      /\ Loaded(sidecar)' = Loaded(sidecar)
      /\ UpsertsReadTheSidecar => Loaded(sidecar) = id
  BY <1>1 DEF UpsertsReadTheSidecar, Loaded
<1>3. /\ MapBusy = {b}
      /\ \/ MapBusy' = MapBusy /\ MapDone' = MapDone
         \/ MapBusy' = {} /\ MapDone' = MapDone \cup {c}
  <2>1. MapBusy = {b}
    BY <1>1, BusyIs
  <2>2. CASE pc'[c] = "deleting"
    <3>1. SameUpserts
      BY <1>1, <2>2 DEF SameUpserts, Awaiting
    <3> QED
      BY <2>1, <3>1, SameUpsertsKeep
  <2>3. CASE pc'[c] = "returned"
    BY <1>1, <2>1, <2>3, EndedUpsert
  <2> QED
    BY <2>2, <2>3
<1>4. KeysOf(c) \in SUBSET Key
  BY <1>1, RowsAreAMap
<1>5. /\ MapRows = MapOf(Logical) /\ MapRows' = MapOf(Logical')
      /\ \A x, y \in Logical : x.key = y.key => x = y
      /\ \A x, y \in Logical' : x.key = y.key => x = y
  BY MapRowsAre DEF MapRows, RowAt, MapOf, At, MapInv, OneRowPerKey
<1>6. ASSUME NEW k \in KeysOf(c)
      PROVE  MapRows'[k] = row
  <2>1. PICK x \in Rows(c) : x.key = k /\ x.call = c /\ x.ident = id
    BY <1>1, RowsAreAMap
  <2>2. x \in Logical'
    OBVIOUS
  <2> QED
    BY <1>4, <1>5, <2>1, <2>2, MapOfAt
<1>7. ASSUME NEW k \in Key, k \notin KeysOf(c)
      PROVE  MapRows'[k] = MapRows[k]
  <2>1. \A x \in Rows(c) : x.key # k
    BY <1>1, <1>7, RowsAreAMap
  <2>2. \A x : x.key = k => (x \in Logical <=> x \in Logical')
    BY <1>7, <2>1
  <2>3. CASE \E x \in Logical : x.key = k
    <3>1. PICK x \in Logical : x.key = k
      BY <2>3
    <3>2. x \in Logical'
      BY <2>2, <3>1
    <3>3. MapRows[k] = [call |-> x.call, ident |-> x.ident]
      BY <1>5, <3>1, MapOfAt
    <3>4. MapRows'[k] = [call |-> x.call, ident |-> x.ident]
      BY <1>5, <3>1, <3>2, MapOfAt
    <3> QED
      BY <3>3, <3>4
  <2>4. CASE ~\E x \in Logical : x.key = k
    BY <1>5, <2>2, <2>4, MapOfAt
  <2> QED
    BY <2>3, <2>4
<1>8. MapRows' = Map!With(KeysOf(c), row)
  <2>1. MapRows' = [k \in Key |-> MapRows'[k]]
    BY DEF MapRows
  <2> HIDE DEF row
  <2> QED
    BY <1>6, <1>7, <2>1 DEF Map!With
<1>9. Map!Write(b, id)
  BY <1>2, <1>3, <1>8 DEF Map!Write
<1> QED
  BY <1>1, <1>3, <1>9 DEF Map!Next

(* The steps of the upsert under way that do not touch the table.          *)
LEMMA EarlyStep ==
  ASSUME Inv, MapInv, NEW c \in Call, NEW l, Moves(c, {l}),
         pc[c] \in Awaiting \ {"adding"}, l \in Awaiting \ {"adding"},
         UNCHANGED <<created, table, replaced>>
  PROVE  /\ MapInv' /\ MapRows' = MapRows /\ MapBusy # {}
         /\ UNCHANGED <<MapBusy, MapDone>>
<1>1. Still
  BY QuietStep
<1>2. SameUpserts
  BY DEF SameUpserts, Moves, Awaiting
<1>3. MapBusy # {}
  BY BusyIs
<1> QED
  BY <1>1, <1>2, <1>3, StillKeepsMap, SameUpsertsKeep DEF MapRows, RowAt

LEMMA LoadStep ==
  ASSUME Inv, MapInv, NEW c \in Call, LoadCached(c) \/ Check(c)
  PROVE  MapInv' /\ [Map!Next]_(Map!vars)
<1>0. /\ UNCHANGED <<sidecar, created, table, replaced, arg, seen>>
      /\ pc[c] \in {"loading", "checking"}
  BY DEF LoadCached, Check, store
<1>1. \E l \in {"listing", "writing", "failed"} : Moves(c, {l})
  <2>1. \E l \in {"listing", "writing", "failed"} : Goto(c, l)
    BY DEF LoadCached, Check, AfterLoad, CheckIdentity, AfterCheck
  <2> QED
    BY <1>0, <2>1, GotoMoves DEF Inv, Places, Awaiting
<1>2. PICK l \in {"listing", "writing", "failed"} : Moves(c, {l})
  BY <1>1
<1>3. Still
  BY <1>0, <1>2, QuietStep
<1>4. SameReads /\ Loaded(sidecar)' = Loaded(sidecar) /\ pc[c] \in Awaiting
  BY <1>0 DEF SameReads, Loaded, Awaiting
<1>5. CASE l = "failed"
  BY <1>0, <1>2, <1>3, <1>4, <1>5, FailStep DEF Moves
<1>6. CASE l # "failed"
  <2>1. SameUpserts
    BY <1>0, <1>2, <1>6 DEF SameUpserts, Moves, Awaiting
  <2> QED
    BY <1>3, <1>4, <2>1, StutterStep
<1> QED
  BY <1>5, <1>6

LEMMA ReadStep ==
  ASSUME Inv, MapInv, NEW c \in Call, ReadSidecar(c)
  PROVE  MapInv' /\ [Map!Next]_(Map!vars)
<1>1. /\ UNCHANGED <<sidecar, created, table, replaced>> /\ pc[c] = "loading"
      /\ Moves(c, {"checking"})
  BY GotoMoves DEF ReadSidecar, store, Inv, Places, Awaiting
<1>2. /\ MapInv' /\ MapRows' = MapRows /\ MapBusy # {}
      /\ UNCHANGED <<MapBusy, MapDone>> /\ Loaded(sidecar)' = Loaded(sidecar)
  BY <1>1, EarlyStep DEF Awaiting, Loaded
<1>3. PICK t \in {Loaded(sidecar)} \cup (IF sidecar \in Ident THEN {Unread} ELSE {}) :
        seen' = [seen EXCEPT ![c] = t]
  BY DEF ReadSidecar
<1>4. \A d \in Call : seen'[d] = IF d = c THEN t ELSE seen[d]
  BY <1>3 DEF Inv, Base, TypeOK
<1>5. seen[c] # Unread
  BY <1>1, InstanceAssumption DEF Inv, Base, FreshReads
<1>6. CASE t = Unread
  <2>1. ~UpsertsReadTheSidecar'
    BY <1>4, <1>6 DEF UpsertsReadTheSidecar
  <2>2. sidecar \in Ident /\ Loaded(sidecar) # Null
    BY <1>6, InstanceAssumption DEF Loaded
  <2>3. Map!Misread
    BY <1>2, <2>1, <2>2 DEF Map!Misread
  <2> QED
    BY <1>2, <2>3 DEF Map!Next
<1>7. CASE t # Unread
  <2>1. UpsertsReadTheSidecar' = UpsertsReadTheSidecar
    BY <1>4, <1>5, <1>7 DEF UpsertsReadTheSidecar
  <2> QED
    BY <1>2, <2>1 DEF Map!vars
<1> QED
  BY <1>6, <1>7

(* A truncated sidecar unpins rows only if a read of it failed before.     *)
LEMMA TruncateStep ==
  ASSUME Inv, MapInv, NEW c \in Call, Truncate(c)
  PROVE  MapInv' /\ [Map!Next]_(Map!vars)
<1>1. /\ UNCHANGED <<created, table, replaced, seen>> /\ pc[c] = "writing"
      /\ Moves(c, {"flushing"}) /\ sidecar' = Torn
  BY GotoMoves DEF Truncate, Inv, Places, Awaiting
<1>2. /\ MapInv' /\ MapRows' = MapRows /\ MapBusy # {}
      /\ UNCHANGED <<MapBusy, MapDone>>
  BY <1>1, EarlyStep DEF Awaiting
<1>3. UpsertsReadTheSidecar' = UpsertsReadTheSidecar /\ Loaded(sidecar)' = Null
  BY <1>1, InstanceAssumption DEF UpsertsReadTheSidecar, Loaded
<1>4. CASE UpsertsReadTheSidecar
  <2>1. Loaded(sidecar) = Null
    BY <1>1, <1>4 DEF Inv, PinInv, WriterPinned, Loaded
  <2> QED
    BY <1>2, <1>3, <2>1 DEF Map!vars
<1>5. CASE ~UpsertsReadTheSidecar
  <2>1. Map!Unpin
    BY <1>2, <1>3, <1>5 DEF Map!Unpin
  <2> QED
    BY <1>2, <2>1 DEF Map!Next
<1> QED
  BY <1>4, <1>5

LEMMA FlushStep ==
  ASSUME Inv, MapInv, NEW c \in Call, Flush(c)
  PROVE  MapInv' /\ [Map!Next]_(Map!vars)
<1>1. /\ UNCHANGED <<created, table, replaced, seen>> /\ pc[c] = "flushing"
      /\ Moves(c, {"listing"}) /\ sidecar' = IdentOf(c)
  BY GotoMoves DEF Flush, Inv, Places, Awaiting, IdentOf
<1>2. /\ MapInv' /\ MapRows' = MapRows /\ MapBusy # {}
      /\ UNCHANGED <<MapBusy, MapDone>>
  BY <1>1, EarlyStep DEF Awaiting
<1>3. sidecar = Torn /\ IdentOf(c) \in Ident
  BY <1>1, BatchIs DEF Inv, Base, UpsertsChecked, Awaiting, IdentOf
<1>4. /\ UpsertsReadTheSidecar' = UpsertsReadTheSidecar
      /\ Loaded(sidecar) = Null /\ Loaded(sidecar)' = IdentOf(c)
  BY <1>1, <1>3, InstanceAssumption DEF UpsertsReadTheSidecar, Loaded
<1>5. ASSUME UpsertsReadTheSidecar, NEW k \in Key
      PROVE  MapRows[k] = Null
  <2>1. table = {}
    BY <1>3, <1>5, InstanceAssumption DEF Inv, Base, TypeOK, PinInv, RowsPinned, Row
  <2>2. \A d \in Call : pc[d] # "adding"
    BY <1>1 DEF Inv, Base, OneUpsert, Awaiting
  <2>3. Logical = {}
    BY <2>1, <2>2, LogicalIs
  <2> QED
    BY <2>3 DEF MapRows
<1>6. Map!Pin(IdentOf(c))
  BY <1>2, <1>4, <1>5 DEF Map!Pin
<1> QED
  BY <1>2, <1>3, <1>6 DEF Map!Next

LEMMA TableStep ==
  ASSUME TwinFree, Inv, TableInv, MapInv, NEW c \in Call,
         FindTable(c) \/ CreateTable(c) \/ Delete(c) \/ Add(c)
  PROVE  MapInv' /\ [Map!Next]_(Map!vars)
<1>0. UNCHANGED <<sidecar, arg, seen>> /\ pc[c] \in Awaiting /\ c \notin Lookup
  BY InstanceAssumption DEF FindTable, CreateTable, Delete, Add, Awaiting
<1>1. SameReads /\ Loaded(sidecar)' = Loaded(sidecar)
  BY <1>0 DEF SameReads, Loaded
<1>2. CASE FindTable(c)
  <2>1. UNCHANGED <<created, table, replaced>> /\ pc[c] = "listing"
    BY <1>2 DEF FindTable
  <2>2. \E l \in {"deleting", "creating"} : Goto(c, l)
    BY <1>0, <1>2 DEF FindTable
  <2>3. PICK l \in {"deleting", "creating"} : Goto(c, l)
    BY <2>2
  <2>4. Moves(c, {l})
    BY <1>0, <2>3, GotoMoves DEF Inv, Places, Awaiting
  <2>5. Still /\ SameUpserts
    BY <1>0, <2>1, <2>4, QuietStep DEF SameUpserts, Moves, Awaiting
  <2> QED
    BY <1>1, <2>5, StutterStep
<1>3. CASE CreateTable(c)
  <2>1. CASE created
    <3>1. UNCHANGED <<created, table, replaced>> /\ pc[c] = "creating" /\ Moves(c, {"failed"})
      BY <1>0, <1>3, <2>1, GotoMoves DEF CreateTable, Inv, Places
    <3>2. Still
      BY <3>1, QuietStep
    <3> QED
      BY <1>0, <1>1, <3>1, <3>2, FailStep DEF Moves
  <2>2. CASE ~created
    <3>1. MapInv' /\ Logical = {} /\ Logical' = Rows(c)
      BY <1>3, <2>2, CreatesKeepsMap DEF Creates
    <3>2. Moves(c, {"deleting"}) /\ pc[c] = "creating"
      BY <1>0, <1>3, <2>2, GotoMoves DEF CreateTable, Inv, Places, Awaiting
    <3>3. Logical' = (Logical \ {}) \cup Rows(c)
      BY <3>1
    <3>4. \A row \in Logical : row.key \in KeysOf(c) <=> row \in {}
      BY <3>1
    <3>5. Map!Next
      <4>1. \A d \in Call : d # c => pc'[d] = pc[d]
        BY <3>2 DEF Moves
      <4>2. pc'[c] \in {"deleting", "returned"} /\ pc[c] \in {"creating", "adding"}
        BY <3>2 DEF Moves
      <4> QED
        BY <1>0, <3>1, <3>3, <3>4, <4>1, <4>2, WriteStep
    <3> QED
      BY <3>1, <3>5
  <2> QED
    BY <2>1, <2>2
<1>4. CASE Delete(c)
  <2>1. MapInv' /\ Logical' = Logical
    BY <1>4, DeleteKeepsMap
  <2>2. Moves(c, {"adding"}) /\ pc[c] = "deleting"
    BY <1>0, <1>4, GotoMoves DEF Delete, Inv, Places, Awaiting
  <2>3. SameUpserts
    BY <1>0, <2>2 DEF SameUpserts, Moves, Awaiting
  <2>4. MapRows' = MapRows /\ UpsertsReadTheSidecar' = UpsertsReadTheSidecar
    BY <1>1, <2>1 DEF MapRows, RowAt, SameReads, UpsertsReadTheSidecar
  <2> QED
    BY <1>1, <2>1, <2>3, <2>4, SameUpsertsKeep DEF Map!vars
<1>5. CASE Add(c)
  <2>1. /\ MapInv' /\ Logical = table \cup replaced[c] /\ Logical' = table \cup Rows(c)
        /\ Cleared(c)
    BY <1>5, AddKeepsMap
  <2>2. Moves(c, {"returned"}) /\ pc[c] = "adding"
    BY <1>0, <1>5, GotoMoves DEF Add, Inv, Places
  <2>3. \A row \in Logical : row.key \in KeysOf(c) <=> row \in replaced[c]
    BY <2>1 DEF Cleared
  <2>4. Logical' = (Logical \ replaced[c]) \cup Rows(c)
    BY <2>1 DEF Cleared
  <2>5. \A d \in Call : d # c => pc'[d] = pc[d]
    BY <2>2 DEF Moves
  <2>6. pc'[c] \in {"deleting", "returned"} /\ pc[c] \in {"creating", "adding"}
    BY <2>2 DEF Moves
  <2>7. Map!Next
    BY <1>0, <2>1, <2>3, <2>4, <2>5, <2>6, WriteStep
  <2> QED
    BY <2>1, <2>7
<1> QED
  BY <1>2, <1>3, <1>4, <1>5

LEMMA ThrowStep ==
  ASSUME Inv, MapInv, NEW c \in Call, Throws(c)
  PROVE  MapInv' /\ [Map!Next]_(Map!vars)
<1>1. /\ UNCHANGED <<sidecar, created, table, replaced, arg, seen>> /\ pc[c] \in Awaiting
      /\ Moves(c, {"failed"})
  BY GotoMoves DEF Throws, store, Inv, Places
<1>2. Still \/ Stops(c)
  <2>1. CASE pc[c] = "adding"
    BY <1>1, <2>1 DEF Stops, Moves
  <2>2. CASE pc[c] # "adding"
    BY <1>1, <2>2, QuietStep
  <2> QED
    BY <2>1, <2>2
<1>3. /\ pc'[c] = "failed" /\ SameReads /\ \A d \in Call : d # c => pc'[d] = pc[d]
  BY <1>1 DEF Moves, SameReads
<1> QED
  BY <1>1, <1>2, <1>3, FailStep

LEMMA CrashStep ==
  ASSUME Inv, MapInv, NEW i \in Instance, Crash(i)
  PROVE  MapInv' /\ [Map!Next]_(Map!vars)
<1>1. /\ \A d \in Call : \/ pc'[d] = pc[d]
                         \/ pc[d] \in Awaiting /\ pc'[d] = "failed"
      /\ UNCHANGED <<sidecar, created, table, replaced, arg, seen>>
  BY DEF Crash, Inv, Base, TypeOK
<1>2. SameReads /\ Loaded(sidecar)' = Loaded(sidecar)
  BY <1>1 DEF SameReads, Loaded
<1>3. CASE \E c \in Call : pc[c] \in Awaiting /\ pc'[c] = "failed"
  <2>1. PICK c \in Call : pc[c] \in Awaiting /\ pc'[c] = "failed"
    BY <1>3
  <2>2. \A d \in Call : d # c => pc'[d] = pc[d]
    BY <1>1, <2>1 DEF Inv, Base, OneUpsert
  <2>3. Still \/ Stops(c)
    BY <1>1, <2>1, <2>2 DEF Still, Stops
  <2> QED
    BY <1>1, <1>2, <2>1, <2>2, <2>3, FailStep
<1>4. CASE ~\E c \in Call : pc[c] \in Awaiting /\ pc'[c] = "failed"
  <2>1. Still /\ SameUpserts
    BY <1>1, <1>4 DEF Still, SameUpserts
  <2> QED
    BY <1>2, <2>1, StutterStep
<1> QED
  BY <1>3, <1>4

(* A lookup's step, and a call that closes, change nothing of the map.     *)
LEMMA LookupStep ==
  ASSUME Inv, MapInv, NEW l \in Lookup,
         Step(l) \/ \E a \in Asks : BeginLookup(l, a)
  PROVE  MapInv' /\ [Map!Next]_(Map!vars)
<1>0. pc[l] \in Reading /\ l \notin Call
  BY InstanceAssumption DEF Inv, Base, LookupsOnlyRead
<1>1. \/ LoadCached(l) \/ ReadSidecar(l) \/ Check(l) \/ FindTable(l) \/ Query(l)
      \/ Throws(l) \/ \E a \in Asks : BeginLookup(l, a)
  BY <1>0 DEF Step, Truncate, Flush, CreateTable, Delete, Add, Reading
<1>2. UNCHANGED <<sidecar, created, table, replaced>>
  BY <1>1 DEF LoadCached, ReadSidecar, Check, FindTable, Query, Throws, BeginLookup, store
<1>3. \A d \in Call : pc'[d] = pc[d]
  BY <1>0, <1>1 DEF LoadCached, ReadSidecar, Check, FindTable, Query, Throws, BeginLookup,
                    AfterLoad, CheckLength, Goto, Inv, Base, TypeOK
<1>4. \A d \in Call : arg'[d] = arg[d] /\ seen'[d] = seen[d]
  BY <1>0, <1>1 DEF LoadCached, ReadSidecar, Check, FindTable, Query, Throws, BeginLookup,
                    Inv, Base, TypeOK
<1>5. Still /\ SameUpserts /\ SameReads /\ Loaded(sidecar)' = Loaded(sidecar)
  BY <1>2, <1>3, <1>4 DEF Still, SameUpserts, SameReads, Loaded
<1> QED
  BY <1>5, StutterStep

LEMMA BeginStep ==
  ASSUME Inv, MapInv, ~Concurrent, NEW c \in Call, NEW a \in Args, Begin(c, a)
  PROVE  MapInv' /\ [Map!Next]_(Map!vars)
<1>1. /\ UNCHANGED <<sidecar, created, table, replaced, seen>> /\ pc[c] = "idle"
      /\ \A d \in Call : d # c => pc'[d] = pc[d] /\ arg'[d] = arg[d]
      /\ pc'[c] = IF a.keys = <<>> THEN "returned" ELSE "loading"
      /\ arg'[c] = a /\ \A d \in Call : pc[d] \notin Awaiting
  BY DEF Begin, Goto, Quiet, store, Inv, Base, TypeOK
<1>2. MapInv' /\ MapRows' = MapRows
  <2>1. Still
    BY <1>1 DEF Still
  <2> QED
    BY <2>1, StillKeepsMap DEF MapRows, RowAt
<1>3. UpsertsReadTheSidecar' = UpsertsReadTheSidecar /\ Loaded(sidecar)' = Loaded(sidecar)
  BY <1>1 DEF UpsertsReadTheSidecar, Loaded
<1>4. MapBusy = {} /\ MapDone' = MapDone /\ c \notin MapDone
  BY <1>1 DEF MapBusy, Upserting, MapDone
<1>5. CASE a.keys = <<>>
  <2>1. MapBusy' = {}
    BY <1>1, <1>5 DEF MapBusy, Upserting, Awaiting
  <2> QED
    BY <1>2, <1>3, <1>4, <2>1 DEF Map!vars
<1>6. CASE a.keys # <<>>
  <2>1. Upserting' = {c}
    BY <1>1, <1>6 DEF Upserting, Awaiting
  <2>2. MapBusy' = {[call |-> c, keys |-> KeysOf(c)']}
    BY <2>1 DEF MapBusy
  <2>3. KeysOf(c)' \in SUBSET Key
    BY <1>1, BatchIs DEF KeysOf
  <2>4. Map!Begin(c, KeysOf(c)')
    BY <1>2, <1>3, <1>4, <2>2 DEF Map!Begin
  <2> QED
    BY <1>2, <2>3, <2>4 DEF Map!Next
<1> QED
  BY <1>5, <1>6

LEMMA MapStep ==
  ASSUME TwinFree, ~Concurrent, Inv, TableInv, MapInv, [Next]_vars
  PROVE  MapInv' /\ [Map!Next]_(Map!vars)
<1>1. ASSUME UNCHANGED vars \/ \E i \in Instance : Close(i)
      PROVE  MapInv' /\ [Map!Next]_(Map!vars)
  <2>1. UNCHANGED <<sidecar, created, table, replaced, pc, arg, seen>>
    BY <1>1 DEF vars, store, Close
  <2>2. Still /\ SameUpserts /\ SameReads /\ Loaded(sidecar)' = Loaded(sidecar)
    BY <2>1 DEF Still, SameUpserts, SameReads, Loaded
  <2> QED
    BY <2>2, StutterStep
<1>2. ASSUME NEW c \in Call, Step(c)
      PROVE  MapInv' /\ [Map!Next]_(Map!vars)
  <2>1. ~Query(c)
    BY DEF Query, Inv, Base, UpsertsChecked
  <2> QED
    BY <1>2, <2>1, LoadStep, ReadStep, TruncateStep, FlushStep, TableStep, ThrowStep DEF Step
<1> QED
  BY <1>1, <1>2, LookupStep, BeginStep, CrashStep DEF Next

LEMMA TableKeeps ==
  ASSUME Inv, TableInv, [Next]_vars
  PROVE  TableInv'
<1>0. /\ OwnerOf \in [Call \cup Lookup -> Instance] /\ handle \in [Instance -> BOOLEAN]
      /\ pc \in [Call \cup Lookup -> Places] /\ Call \cap Lookup = {}
  BY InstanceAssumption DEF Inv, Base, TypeOK, Places
<1>1. CASE UNCHANGED vars
  BY <1>1 DEF vars, store, TableInv
<1>2. ASSUME NEW c \in Call \cup Lookup, Step(c)
      PROVE  TableInv'
  <2>1. CASE LoadCached(c) \/ Check(c)
    <3>1. UNCHANGED <<created, table, replaced, handle>>
      BY <2>1 DEF LoadCached, Check, store
    <3>2. /\ pc'[c] \notin {"deleting", "adding"}
          /\ \A d \in Call : d # c => pc'[d] = pc[d]
      BY <1>0, <2>1
      DEF LoadCached, Check, AfterLoad, CheckIdentity, CheckLength, AfterCheck, Goto
    <3> QED
      BY <3>1, <3>2 DEF TableInv
  <2>2. CASE ReadSidecar(c) \/ Truncate(c) \/ Flush(c) \/ Query(c) \/ Throws(c)
    <3>1. UNCHANGED <<created, table, replaced, handle>>
      BY <2>2 DEF ReadSidecar, Truncate, Flush, Query, Throws, store
    <3>2. /\ pc'[c] \notin {"deleting", "adding"}
          /\ \A d \in Call : d # c => pc'[d] = pc[d]
      BY <1>0, <2>2 DEF ReadSidecar, Truncate, Flush, Query, Throws, Goto
    <3> QED
      BY <3>1, <3>2 DEF TableInv
  <2>3. CASE FindTable(c)
    <3>1. /\ UNCHANGED <<created, table, replaced>>
          /\ \A i \in Instance : handle'[i] => handle[i] \/ created
      BY <1>0, <2>3 DEF FindTable, TableInv
    <3>2. /\ pc'[c] = "deleting" => handle[OwnerOf[c]] \/ created
          /\ pc'[c] # "adding"
          /\ \A d \in Call : d # c => pc'[d] = pc[d]
      BY <1>0, <2>3 DEF FindTable, Goto
    <3> QED
      BY <1>0, <3>1, <3>2 DEF TableInv
  <2>4. CASE CreateTable(c)
    BY <1>0, <2>4 DEF CreateTable, Goto, TableInv
  <2>5. CASE Delete(c)
    BY <1>0, <2>5 DEF Delete, Goto, TableInv, Inv, Base, LookupsOnlyRead, Reading
  <2>6. CASE Add(c)
    BY <1>0, <2>6 DEF Add, Goto, TableInv, Inv, Base, LookupsOnlyRead, Reading
  <2> QED
    BY <1>2, <2>1, <2>2, <2>3, <2>4, <2>5, <2>6 DEF Step
<1>3. ASSUME NEW c \in Call, NEW a \in Args, Begin(c, a)
      PROVE  TableInv'
  <2>1. /\ pc'[c] \in {"returned", "loading"} /\ \A d \in Call : d # c => pc'[d] = pc[d]
        /\ UNCHANGED <<created, table, replaced, handle>>
    BY <1>0, <1>3 DEF Begin, Goto, store
  <2> QED
    BY <2>1 DEF TableInv
<1>4. ASSUME NEW l \in Lookup, NEW a \in Asks, BeginLookup(l, a)
      PROVE  TableInv'
  BY <1>0, <1>4 DEF BeginLookup, Goto, store, TableInv
<1>5. ASSUME NEW i \in Instance, Crash(i)
      PROVE  TableInv'
  BY <1>0, <1>5 DEF Crash, TableInv
<1>6. ASSUME NEW i \in Instance, Close(i)
      PROVE  TableInv'
  BY <1>0, <1>6 DEF Close, TableInv
<1> QED
  BY <1>1, <1>2, <1>3, <1>4, <1>5, <1>6 DEF Next

LEMMA MapInvHolds ==
  TwinFree /\ ~Concurrent /\ Spec => [](Inv /\ TableInv /\ MapInv)
<1> SUFFICES ASSUME TwinFree, ~Concurrent
             PROVE  Spec => [](Inv /\ TableInv /\ MapInv)
  OBVIOUS
<1>1. Init => Inv /\ TableInv /\ MapInv
  <2> SUFFICES ASSUME Init PROVE Inv /\ TableInv /\ MapInv
    OBVIOUS
  <2>1. Inv
    BY InitHolds
  <2>2. TableInv /\ table = {} /\ \A c \in Call : pc[c] = "idle"
    BY DEF Init, TableInv
  <2>3. Logical = {}
    BY <2>1, <2>2, LogicalIs
  <2> QED
    BY <2>1, <2>2, <2>3, FS_EmptySet DEF MapInv, OneRowPerKey
<1>2. Inv /\ TableInv /\ MapInv /\ [Next]_vars => (Inv /\ TableInv /\ MapInv)'
  BY InvNext, TableKeeps, MapStep
<1> QED
  BY <1>1, <1>2, PTL DEF Spec

(* One upsert at a time and no key twice in a batch, the table with its    *)
(* delete and add, its failures, crashes and misread sidecars is the map   *)
(* of the abstract store: a returned upsert has written all its keys, a    *)
(* stopped one may lose the rows of its own and no others, and the pin     *)
(* moves under rows only once a read of it has failed (lancedb-store.ts    *)
(* upsert).                                                                *)
THEOREM RefinesMapHolds == TwinFree /\ ~Concurrent /\ Spec => RefinesMap
<1> SUFFICES ASSUME TwinFree, ~Concurrent PROVE Spec => RefinesMap
  OBVIOUS
<1>1. Init => Map!Init
  <2> SUFFICES ASSUME Init PROVE Map!Init
    OBVIOUS
  <2>1. table = {} /\ \A c \in Call : pc[c] = "idle" /\ seen[c] = Null
    BY DEF Init
  <2>2. Logical = {}
    BY <2>1, InitHolds, LogicalIs
  <2>3. MapRows = [k \in Key |-> Null]
    BY <2>2 DEF MapRows
  <2>4. Loaded(sidecar) = Null /\ UpsertsReadTheSidecar
    BY <2>1, InstanceAssumption DEF Init, Loaded, UpsertsReadTheSidecar
  <2>5. MapBusy = {} /\ MapDone = {}
    BY <2>1 DEF MapBusy, Upserting, MapDone, Awaiting
  <2> QED
    BY <2>3, <2>4, <2>5 DEF Map!Init
<1>2. Inv /\ TableInv /\ MapInv /\ [Next]_vars => [Map!Next]_(Map!vars)
  BY MapStep
<1>3. Spec => [](Inv /\ TableInv /\ MapInv)
  BY MapInvHolds
<1> QED
  BY <1>1, <1>2, <1>3, PTL DEF Spec, RefinesMap, Map!Spec

-----------------------------------------------------------------------------
(***************************************************************************)
(* What a lookup knows on its way: the identity it checked is still the    *)
(* table's, and what it will be measured against is still in the table.    *)
(***************************************************************************)
Matched(l) == sidecar \in Ident /\ DimOf[sidecar] = DimOf[arg[l].asker]

Full(l) ==
  \/ arg[l].limit # 0 /\ Cardinality(answer[l]) = arg[l].limit
  \/ \A x \in kept[l] : Fits(x, arg[l]) => x \in answer[l]

Answered(l) ==
  /\ \A x, y \in answer[l] : x.key = y.key => x = y
  /\ \A x \in answer[l] : Fits(x, arg[l])
  /\ seen[l] = Unread => answer[l] = {}
  /\ arg[l].op = "list" => Full(l)

Found(l) ==
  arg[l].op = "search" =>
    /\ \A x \in answer[l] : DimOf[x.ident] = DimOf[arg[l].asker]
    /\ seen[l] = Unread \/ Full(l)

OnItsWay(l) ==
  /\ pc[l] # "idle" => arg[l] \in Asks
  /\ pc[l] # "returned" => answer[l] = {}
  /\ pc[l] \in {"loading", "checking"} => arg[l].op # "list"
  /\ pc[l] \in {"listing", "querying"} => seen[l] # Unread
  /\ pc[l] = "returned" => Answered(l)

Guarded(l) ==
  /\ pc[l] = "checking" /\ seen[l] = Null => kept[l] = {}
  /\ pc[l] \in {"listing", "querying"} /\ arg[l].op = "search" => Matched(l)
  /\ pc[l] = "refused" => sidecar \in Ident /\ DimOf[sidecar] # DimOf[arg[l].asker]
  /\ pc[l] = "returned" => Found(l)

KeptIsThere == DOMAIN kept = Lookup /\ \A l \in Lookup : kept[l] \subseteq table

LookInv ==
  /\ KeptIsThere /\ \A l \in Lookup : OnItsWay(l)
  /\ UpsertsReadTheSidecar => \A l \in Lookup : Guarded(l)

LEMMA ReadsWereGood ==
  ASSUME Inv, [Next]_vars, UpsertsReadTheSidecar'
  PROVE  UpsertsReadTheSidecar
<1>1. ASSUME NEW c \in Call, seen[c] = Unread
      PROVE  seen'[c] = Unread
  <2>1. pc[c] # "loading"
    BY <1>1, InstanceAssumption DEF Inv, Base, FreshReads
  <2>2. ASSUME NEW d \in Call \cup Lookup, Step(d)
        PROVE  seen'[c] = seen[c]
    BY <2>1, <2>2 DEF Step, LoadCached, ReadSidecar, Check, Truncate, Flush, FindTable,
                      CreateTable, Delete, Add, Query, Throws, Inv, Base, TypeOK
  <2>3. ASSUME ~\E d \in Call \cup Lookup : Step(d)
        PROVE  seen'[c] = seen[c]
    BY <2>3 DEF Next, vars, Begin, BeginLookup, Crash, Close
  <2> QED
    BY <1>1, <2>2, <2>3
<1> QED
  BY <1>1 DEF UpsertsReadTheSidecar

LEMMA PinStays ==
  ASSUME Inv, UpsertsReadTheSidecar, [Next]_vars, sidecar \in Ident
  PROVE  sidecar' = sidecar
<1>1. ASSUME NEW c \in Call \cup Lookup, Step(c)
      PROVE  sidecar' = sidecar
  <2>1. ~Truncate(c) /\ ~Flush(c)
    BY InstanceAssumption
    DEF Truncate, Flush, Inv, Base, PinInv, LookupsOnlyRead, Reading, WriterPinned,
        UpsertsChecked
  <2> QED
    BY <1>1, <2>1 DEF Step, LoadCached, ReadSidecar, Check, FindTable, CreateTable,
                      Delete, Add, Query, Throws, store
<1>2. ASSUME ~\E c \in Call \cup Lookup : Step(c)
      PROVE  sidecar' = sidecar
  BY <1>2 DEF Next, vars, store, Begin, BeginLookup, Crash, Close
<1> QED
  BY <1>1, <1>2

(* A step of anybody else leaves a lookup where it is; its own is one of   *)
(* its own.                                                                *)
Waits(l) ==
  /\ pc'[l] = pc[l] /\ arg'[l] = arg[l] /\ answer'[l] = answer[l] /\ seen'[l] = seen[l]
  /\ kept'[l] \subseteq kept[l]

Ends(l) ==
  /\ pc'[l] = "failed" /\ pc[l] \in Awaiting
  /\ arg'[l] = arg[l] /\ answer'[l] = answer[l]

LEMMA StepMoves ==
  ASSUME Inv, NEW c \in Call \cup Lookup, Step(c)
  PROVE  /\ \A d \in Call \cup Lookup : d # c => pc'[d] = pc[d]
         /\ arg' = arg
  BY DEF Step, LoadCached, ReadSidecar, Check, AfterLoad, CheckIdentity, CheckLength,
         Truncate, Flush, FindTable, CreateTable, Delete, Add, Query, Throws, Goto,
         Inv, Base, TypeOK

LEMMA LookupMoves ==
  ASSUME Inv, KeptIsThere, [Next]_vars, NEW l \in Lookup
  PROVE  \/ Waits(l) \/ Ends(l)
         \/ LoadCached(l) \/ ReadSidecar(l) \/ Check(l) \/ FindTable(l) \/ Query(l)
         \/ \E a \in Asks : BeginLookup(l, a)
<1>0. /\ DOMAIN pc = Call \cup Lookup /\ DOMAIN arg = Call \cup Lookup
      /\ DOMAIN seen = Call \cup Lookup /\ DOMAIN answer = Lookup /\ DOMAIN kept = Lookup
      /\ l \notin Call
  BY InstanceAssumption DEF Inv, Base, TypeOK, KeptIsThere
<1>1. CASE UNCHANGED vars
  BY <1>1 DEF vars, Waits
<1>2. ASSUME NEW c \in Call \cup Lookup, Step(c), c # l
      PROVE  Waits(l)
  <2>1. pc'[l] = pc[l] /\ arg'[l] = arg[l]
    BY <1>2, StepMoves
  <2>2. answer'[l] = answer[l] /\ seen'[l] = seen[l]
    BY <1>0, <1>2 DEF Step, LoadCached, ReadSidecar, Check, Truncate, Flush, FindTable,
                      CreateTable, Delete, Add, Query, Throws
  <2>3. kept'[l] \subseteq kept[l]
    BY <1>0, <1>2 DEF Step, LoadCached, ReadSidecar, Check, Truncate, Flush, FindTable,
                      CreateTable, Delete, Add, Query, Throws
  <2> QED
    BY <2>1, <2>2, <2>3 DEF Waits
<1>3. ASSUME Step(l)
      PROVE  Ends(l) \/ LoadCached(l) \/ ReadSidecar(l) \/ Check(l) \/ FindTable(l) \/ Query(l)
  <2>1. pc[l] \in Reading
    BY DEF Inv, Base, LookupsOnlyRead
  <2>2. ~Truncate(l) /\ ~Flush(l) /\ ~CreateTable(l) /\ ~Delete(l) /\ ~Add(l)
    BY <2>1 DEF Truncate, Flush, CreateTable, Delete, Add, Reading
  <2>3. Throws(l) => Ends(l)
    BY <1>0 DEF Throws, Ends, Goto
  <2> QED
    BY <1>3, <2>2, <2>3 DEF Step
<1>4. ASSUME NEW c \in Call, NEW a \in Args, Begin(c, a)
      PROVE  Waits(l)
  BY <1>0, <1>4 DEF Begin, Goto, Waits
<1>5. ASSUME NEW m \in Lookup, NEW a \in Asks, BeginLookup(m, a), m # l
      PROVE  Waits(l)
  BY <1>0, <1>5 DEF BeginLookup, Goto, Waits
<1>6. ASSUME NEW i \in Instance, Crash(i)
      PROVE  Waits(l) \/ Ends(l)
  BY <1>0, <1>6 DEF Crash, Waits, Ends
<1>7. ASSUME NEW i \in Instance, Close(i)
      PROVE  Waits(l)
  BY <1>7 DEF Close, Waits
<1> QED
  BY <1>1, <1>2, <1>3, <1>4, <1>5, <1>6, <1>7 DEF Next

LEMMA KeptStays ==
  ASSUME Inv, TableInv, KeptIsThere, [Next]_vars
  PROVE  KeptIsThere'
<1>1. CASE UNCHANGED vars
  BY <1>1 DEF vars, store, KeptIsThere
<1>2. ASSUME NEW c \in Call \cup Lookup, Step(c)
      PROVE  KeptIsThere'
  <2>1. CASE CreateTable(c)
    <3>1. kept' = kept /\ (table' = table \/ table = {})
      BY <2>1 DEF CreateTable, TableInv
    <3> QED
      BY <3>1 DEF KeptIsThere
  <2>2. CASE Delete(c)
    BY <2>2 DEF Delete, KeptIsThere
  <2>3. CASE Add(c)
    BY <2>3 DEF Add, KeptIsThere
  <2>4. CASE ~CreateTable(c) /\ ~Delete(c) /\ ~Add(c)
    <3>1. kept' = kept /\ table' = table
      BY <1>2, <2>4 DEF Step, LoadCached, ReadSidecar, Check, Truncate, Flush, FindTable,
                        Query, Throws, store
    <3> QED
      BY <3>1 DEF KeptIsThere
  <2> QED
    BY <2>1, <2>2, <2>3, <2>4
<1>3. ASSUME NEW l \in Lookup, NEW a \in Asks, BeginLookup(l, a)
      PROVE  KeptIsThere'
  BY <1>3 DEF BeginLookup, store, KeptIsThere
<1>4. ASSUME ~(\E c \in Call \cup Lookup : Step(c)), ~(\E l \in Lookup, a \in Asks : BeginLookup(l, a))
      PROVE  kept' = kept /\ table' = table
  BY <1>4 DEF Next, vars, store, Begin, Crash, Close
<1>5. CASE kept' = kept /\ table' = table
  BY <1>5 DEF KeptIsThere
<1> QED
  BY <1>2, <1>3, <1>4, <1>5

LEMMA WaitingKeeps ==
  ASSUME Inv, [Next]_vars, NEW l \in Lookup, OnItsWay(l), Waits(l) \/ Ends(l)
  PROVE  /\ OnItsWay(l)'
         /\ UpsertsReadTheSidecar /\ Guarded(l) => Guarded(l)'
<1>1. UpsertsReadTheSidecar /\ sidecar \in Ident => sidecar' = sidecar
  BY PinStays
<1>2. CASE Waits(l)
  <2>1. Full(l) => Full(l)'
    BY <1>2 DEF Full, Waits
  <2>2. Answered(l) => Answered(l)'
    BY <1>2, <2>1 DEF Answered, Waits
  <2>3. Found(l) => Found(l)'
    BY <1>2, <2>1 DEF Found, Waits
  <2>4. OnItsWay(l)'
    BY <1>2, <2>2 DEF OnItsWay, Waits
  <2>5. ASSUME UpsertsReadTheSidecar, Guarded(l)
        PROVE  Guarded(l)'
    <3>1. Matched(l) => Matched(l)'
      BY <1>1, <1>2, <2>5 DEF Matched, Waits
    <3> QED
      BY <1>1, <1>2, <2>3, <2>5, <3>1 DEF Guarded, Waits
  <2> QED
    BY <2>4, <2>5
<1>3. CASE Ends(l)
  <2>1. pc[l] # "idle" /\ pc[l] # "returned"
    BY <1>3 DEF Ends, Awaiting
  <2> QED
    BY <1>3, <2>1 DEF OnItsWay, Guarded, Ends
<1> QED
  BY <1>2, <1>3

LEMMA LoadingKeeps ==
  ASSUME Inv, TableInv, KeptIsThere, NEW l \in Lookup, OnItsWay(l),
         LoadCached(l) \/ ReadSidecar(l) \/ Check(l)
  PROVE  /\ OnItsWay(l)'
         /\ UpsertsReadTheSidecar /\ Guarded(l) => Guarded(l)'
<1>0. /\ pc \in [Call \cup Lookup -> Places]
      /\ seen \in [Call \cup Lookup -> Ident \cup {Null, Unread}]
      /\ cached \in [Instance -> Ident \cup {Null}]
      /\ OwnerOf[l] \in Instance /\ l \notin Call
  BY InstanceAssumption DEF Inv, Base, TypeOK, Places
<1>1. /\ pc[l] \in {"loading", "checking"} /\ UNCHANGED <<sidecar, arg, answer, kept>>
      /\ answer[l] = {} /\ arg[l] \in Asks /\ arg[l].op # "list"
  BY DEF LoadCached, ReadSidecar, Check, store, OnItsWay
<1>2. CASE ReadSidecar(l)
  <2>1. PICK t \in {Loaded(sidecar)} \cup (IF sidecar \in Ident THEN {Unread} ELSE {}) :
          seen' = [seen EXCEPT ![l] = t]
    BY <1>2 DEF ReadSidecar
  <2>2. pc'[l] = "checking" /\ seen'[l] = t
    BY <1>0, <1>2, <2>1 DEF ReadSidecar, Goto
  <2>3. OnItsWay(l)'
    BY <1>1, <2>2 DEF OnItsWay
  <2>4. ASSUME UpsertsReadTheSidecar, t = Null
        PROVE  kept[l] = {}
    <3>1. sidecar \notin Ident
      BY <2>4, InstanceAssumption DEF Loaded
    <3>2. table = {}
      BY <2>4, <3>1 DEF Inv, Base, TypeOK, PinInv, RowsPinned, Row
    <3> QED
      BY <3>2 DEF KeptIsThere
  <2>5. UpsertsReadTheSidecar => Guarded(l)'
    BY <1>1, <2>2, <2>4 DEF Guarded
  <2> QED
    BY <2>3, <2>5
<1>3. ASSUME NEW pin \in Ident \cup {Null}, CheckLength(l, pin), seen' = seen,
             pin # Null => seen[l] # Unread
      PROVE  /\ OnItsWay(l)'
             /\ (/\ pin # Null => sidecar = pin
                 /\ pin = Null => seen[l] = Unread \/ kept[l] = {}) => Guarded(l)'
  <2>1. CASE pin = Null
    <3>1. pc'[l] = "returned"
      BY <1>0, <1>3, <2>1 DEF CheckLength, Goto
    <3>2. Answered(l)'
      BY <1>1 DEF Answered
    <3>3. seen[l] = Unread \/ kept[l] = {} => Found(l)'
      BY <1>1, <1>3 DEF Found, Full
    <3> QED
      BY <1>1, <2>1, <3>1, <3>2, <3>3 DEF OnItsWay, Guarded
  <2>2. CASE pin # Null /\ LengthFits(l, pin)
    <3>1. pc'[l] = "listing"
      BY <1>0, <1>3, <2>2 DEF CheckLength, Goto
    <3>2. sidecar = pin => Matched(l)'
      BY <1>1, <1>3, <2>2 DEF Matched, LengthFits
    <3> QED
      BY <1>1, <1>3, <2>2, <3>1, <3>2 DEF OnItsWay, Guarded
  <2>3. CASE pin # Null /\ ~LengthFits(l, pin)
    <3>1. pc'[l] = "refused"
      BY <1>0, <1>3, <2>3 DEF CheckLength, Goto
    <3> QED
      BY <1>1, <1>3, <2>3, <3>1 DEF OnItsWay, Guarded, LengthFits
  <2> QED
    BY <2>1, <2>2, <2>3
<1>4. CASE LoadCached(l)
  <2> DEFINE pin == cached[OwnerOf[l]]
  <2>1. /\ pin \in Ident \cup {Null} /\ pin # Null /\ CheckLength(l, pin) /\ seen' = seen
        /\ (UpsertsReadTheSidecar => sidecar = pin) /\ pc[l] = "loading"
    BY <1>0, <1>4 DEF LoadCached, AfterLoad, Inv, PinInv, ReadersAgree
  <2>2. seen[l] # Unread
    BY <2>1, InstanceAssumption DEF Inv, Base, FreshReads
  <2> QED
    BY <1>3, <2>1, <2>2
<1>5. CASE Check(l)
  <2> DEFINE pin == Loaded(seen[l])
  <2>1. /\ pc[l] = "checking" /\ CheckLength(l, pin) /\ seen' = seen
        /\ pin \in Ident \cup {Null}
    BY <1>0, <1>5 DEF Check, AfterLoad, Loaded
  <2>2. pin # Null => pin = seen[l] /\ pin \in Ident
    BY DEF Loaded
  <2>3. pin # Null => seen[l] # Unread
    BY <2>2, InstanceAssumption
  <2>4. pin = Null => seen[l] \in {Null, Unread}
    BY <1>0 DEF Loaded
  <2>5. UpsertsReadTheSidecar /\ Guarded(l) =>
          /\ pin # Null => sidecar = pin
          /\ pin = Null => seen[l] = Unread \/ kept[l] = {}
    BY <2>1, <2>2, <2>4 DEF Guarded, Inv, PinInv, ReadersAgree
  <2> HIDE DEF pin
  <2> QED
    BY <1>3, <2>1, <2>3, <2>5
<1> QED
  BY <1>2, <1>4, <1>5

LEMMA FindingKeeps ==
  ASSUME Inv, TableInv, KeptIsThere, NEW l \in Lookup, OnItsWay(l), FindTable(l)
  PROVE  OnItsWay(l)' /\ (Guarded(l) => Guarded(l)')
<1>0. /\ pc[l] = "listing" /\ UNCHANGED <<sidecar, arg, answer, kept, seen>> /\ l \notin Call
      /\ DOMAIN pc = Call \cup Lookup
  BY InstanceAssumption DEF FindTable, Inv, Base, TypeOK
<1>1. answer[l] = {} /\ arg[l] \in Asks /\ seen[l] # Unread
  BY <1>0 DEF OnItsWay
<1>2. CASE handle[OwnerOf[l]] \/ created
  <2>1. pc'[l] = "querying"
    BY <1>0, <1>2 DEF FindTable, Goto
  <2>2. Matched(l) => Matched(l)'
    BY <1>0 DEF Matched
  <2> QED
    BY <1>0, <1>1, <2>1, <2>2 DEF OnItsWay, Guarded
<1>3. CASE ~(handle[OwnerOf[l]] \/ created)
  <2>1. pc'[l] = "returned"
    BY <1>0, <1>3 DEF FindTable, Goto
  <2>2. kept[l] = {}
    BY <1>3 DEF TableInv, KeptIsThere
  <2>3. Full(l)' /\ Answered(l)' /\ Found(l)'
    BY <1>0, <1>1, <2>2 DEF Answered, Found, Full
  <2> QED
    BY <1>0, <1>1, <2>1, <2>3 DEF OnItsWay, Guarded
<1> QED
  BY <1>2, <1>3

(* The limit is met, or everything that was wanted is in the answer.       *)
LEMMA QueryingKeeps ==
  ASSUME Inv, MapInv, KeptIsThere, NEW l \in Lookup, OnItsWay(l), Query(l)
  PROVE  /\ OnItsWay(l)'
         /\ UpsertsReadTheSidecar /\ Guarded(l) => Guarded(l)'
<1> DEFINE W == Wanted(l)
           size == IF arg[l].limit = 0 THEN Cardinality(W)
                   ELSE Min({arg[l].limit, Cardinality(W)})
<1>0. /\ pc[l] = "querying" /\ pc'[l] = "returned"
      /\ UNCHANGED <<sidecar, table, arg, kept, seen>> /\ DOMAIN answer = Lookup
  BY InstanceAssumption DEF Query, Goto, store, Inv, Base, TypeOK
<1>1. arg[l] \in Asks /\ seen[l] # Unread
  BY <1>0 DEF OnItsWay
<1>2. PICK nearest \in kSubset(size, W) : answer' = [answer EXCEPT ![l] = nearest]
  BY DEF Query
<1>3. answer'[l] = nearest /\ nearest \subseteq W /\ Cardinality(nearest) = size
  BY <1>0, <1>2 DEF kSubset
<1>4. W \subseteq table /\ \A x : x \in W <=> x \in table /\ Fits(x, arg[l])
  BY DEF Wanted, Fits
<1>5. IsFiniteSet(W) /\ Cardinality(W) \in Nat
  BY <1>4, FS_Subset, FS_CardinalityType DEF MapInv
<1>6. arg[l].limit \in Nat
  BY <1>1, InstanceAssumption
<1>7. \A x, y \in nearest : x.key = y.key => x = y
  BY <1>3, <1>4 DEF MapInv, OneRowPerKey, Logical
<1>8. ASSUME UpsertsReadTheSidecar, Guarded(l), arg[l].op = "search", NEW x \in nearest
      PROVE  DimOf[x.ident] = DimOf[arg[l].asker]
  BY <1>0, <1>3, <1>4, <1>8 DEF Guarded, Matched, Inv, PinInv, RowsPinned
<1>9. \/ arg[l].limit # 0 /\ Cardinality(nearest) = arg[l].limit
      \/ nearest = W
  <2>1. size = Cardinality(W) => nearest = W
    BY <1>3, <1>5, FS_Subset
  <2>2. CASE arg[l].limit = 0
    BY <2>1, <2>2
  <2>3. CASE arg[l].limit # 0
    <3> DEFINE n == Cardinality(W)
               m == arg[l].limit
    <3>1. Min({m, n}) \in {m, n}
      <4>1. \E x \in {m, n} : \A y \in {m, n} : x <= y
        BY <1>5, <1>6
      <4> HIDE DEF m, n
      <4> QED
        BY <4>1 DEF Min
    <3>2. size = m \/ size = n
      BY <2>3, <3>1
    <3> QED
      BY <1>3, <2>1, <2>3, <3>2
  <2> QED
    BY <2>2, <2>3
<1>10. \A x \in kept[l] : Fits(x, arg[l]) => x \in W
  BY <1>4 DEF KeptIsThere
<1> HIDE DEF W, size
<1>11. Full(l)'
  BY <1>0, <1>3, <1>9, <1>10 DEF Full
<1>12. Answered(l)'
  BY <1>0, <1>1, <1>3, <1>4, <1>7, <1>11 DEF Answered
<1>13. UpsertsReadTheSidecar /\ Guarded(l) => Found(l)'
  BY <1>0, <1>3, <1>8, <1>11 DEF Found
<1> QED
  BY <1>0, <1>1, <1>12, <1>13 DEF OnItsWay, Guarded

LEMMA LookInvNext ==
  ASSUME Inv, TableInv, MapInv, LookInv, [Next]_vars
  PROVE  LookInv'
<1>1. KeptIsThere'
  BY KeptStays DEF LookInv
<1>2. ASSUME NEW l \in Lookup
      PROVE  /\ OnItsWay(l)'
             /\ UpsertsReadTheSidecar /\ Guarded(l) => Guarded(l)'
  <2>1. KeptIsThere /\ OnItsWay(l)
    BY DEF LookInv
  <2>2. ASSUME NEW a \in Asks, BeginLookup(l, a)
        PROVE  OnItsWay(l)' /\ (Guarded(l) => Guarded(l)')
    <3>1. /\ arg'[l] = a /\ answer'[l] = answer[l] /\ seen'[l] = seen[l] /\ pc[l] = "idle"
          /\ \/ pc'[l] = "loading" /\ a.op = "search"
             \/ pc'[l] = "listing" /\ a.op # "search"
      BY <2>2 DEF BeginLookup, Goto, Inv, Base, TypeOK
    <3>2. seen[l] # Unread
      BY <3>1, InstanceAssumption DEF Inv, Base, FreshReads
    <3> QED
      BY <2>1, <3>1, <3>2 DEF OnItsWay, Guarded
  <2> QED
    BY <2>1, <2>2, LookupMoves, WaitingKeeps, LoadingKeeps, FindingKeeps, QueryingKeeps
<1> QED
  BY <1>1, <1>2, ReadsWereGood DEF LookInv

(* One upsert at a time and no key twice in a batch: whatever upserts      *)
(* begin, fail or crash beside it, a lookup that returns has one row per   *)
(* key and of what it asked, and a listing is short only of rows that were *)
(* not there throughout; while upserts can read the sidecar, a search that *)
(* could is so too, with rows of its vector's dimension, and is refused    *)
(* only by a table of another (lancedb-store.ts search, listByRun).        *)
THEOREM LookupsAnswerHolds == TwinFree /\ ~Concurrent /\ Spec => []LookupsAnswer
<1> SUFFICES ASSUME TwinFree, ~Concurrent PROVE Spec => []LookupsAnswer
  OBVIOUS
<1>1. Init => LookInv
  BY InstanceAssumption DEF Init, LookInv, KeptIsThere, OnItsWay, Guarded
<1>2. Inv /\ TableInv /\ MapInv /\ LookInv /\ [Next]_vars => LookInv'
  BY LookInvNext
<1>3. ASSUME LookInv PROVE LookupsAnswer
  <2> SUFFICES ASSUME NEW l \in Lookup
               PROVE  /\ pc[l] = "returned" =>
                           Answered(l) /\ (UpsertsReadTheSidecar => Found(l))
                      /\ pc[l] = "refused" /\ UpsertsReadTheSidecar =>
                           \E id \in Ident : sidecar = id /\ DimOf[id] # DimOf[arg[l].asker]
    BY DEF LookupsAnswer, Answered, Found, Full
  <2> QED
    BY <1>3 DEF LookInv, OnItsWay, Guarded
<1>4. Spec => [](Inv /\ TableInv /\ MapInv)
  BY MapInvHolds
<1> QED
  BY <1>1, <1>2, <1>3, <1>4, PTL DEF Spec
=============================================================================
