---------------------------- MODULE IndexerProofs ----------------------------
(***************************************************************************)
(* Safety of the manifest store and of the indexer that writes it, for     *)
(* every set of runs, nodes and snapshots, every backend and every choice  *)
(* of calls that may fail.  First the contract of the manifest, then what  *)
(* the runs add to it, and that they keep it.  Then of the parser that a   *)
(* run calls on each file, for every tree, edit and specifier: where an    *)
(* import leads, that identities stay, and that no call is lost.           *)
(***************************************************************************)
EXTENDS Indexer, Parser, FiniteSetTheorems, WellFoundedInduction, TLAPS

(* The calls that write batch rows keep the rows well typed.               *)
LEMMA RecordTyped ==
  ASSUME TypeOK, NEW b \in Batch, NEW m \in BatchManifest,
         RecordBatch(b, m)
  PROVE  TypeOK'
  <1>1. Event(b, Null, m.status, m.createdAt) \in BatchEvent
    BY DEF Event, BatchEvent, BatchManifest
  <1> QED BY <1>1 DEF RecordBatch, TypeOK

LEMMA TransitionTyped ==
  ASSUME TypeOK, NEW b \in Batch, NEW to \in Status,
         NEW now \in Time, TransitionBatch(b, to, now)
  PROVE  TypeOK'
  <1>1. batches[b] \in BatchManifest
    BY DEF TransitionBatch, TypeOK
  <1>2. Event(b, batches[b].status, to, now) \in BatchEvent
    BY <1>1 DEF Event, BatchEvent, BatchManifest
  <1>3. Moved(batches[b], to, now) \in BatchManifest
    BY <1>1 DEF Moved, CommittedAt, BatchManifest
  <1> QED BY <1>2, <1>3 DEF TransitionBatch, TypeOK

(* Every call leaves well-typed rows (manifest-store.ts:11).               *)
THEOREM TypeCorrect == Spec => []TypeOK
  <1>1. Init => TypeOK
    BY DEF Init, TypeOK
  <1>2. TypeOK /\ [Next]_vars => TypeOK'
    <2> SUFFICES ASSUME TypeOK, [Next]_vars PROVE TypeOK'
      OBVIOUS
    <2> USE DEF TypeOK
    <2>1. ASSUME NEW b \in Batch, NEW m \in BatchManifest, RecordBatch(b, m)
          PROVE TypeOK'
      BY <2>1, RecordTyped
    <2>2. ASSUME NEW b \in Batch, NEW to \in Status, NEW now \in Time,
                 TransitionBatch(b, to, now)
          PROVE TypeOK'
      BY <2>2, TransitionTyped
    <2>3. ASSUME NEW i \in IndexRun, NEW m \in IngestionManifest,
                 RecordIngestion(i, m)
          PROVE TypeOK'
      BY <2>3 DEF RecordIngestion
    <2>4. ASSUME NEW i \in IndexRun, NEW now \in Time, FinishIngestion(i, now)
          PROVE TypeOK'
      BY <2>4 DEF FinishIngestion, IngestionManifest
    <2>5. CASE UNCHANGED vars
      BY <2>5 DEF vars
    <2> QED BY <2>1, <2>2, <2>3, <2>4, <2>5 DEF Next
  <1> QED BY <1>1, <1>2, PTL DEF Spec

-----------------------------------------------------------------------------
(* Appending an event keeps the earlier ones and puts it last.             *)
LEMMA AppendEvent ==
  ASSUME events \in Seq(BatchEvent), NEW e \in BatchEvent,
         events' = Append(events, e)
  PROVE  /\ Len(events) \in Nat /\ Len(events') = Len(events) + 1
         /\ DOMAIN events = 1..Len(events)
         /\ DOMAIN events' = 1..Len(events) + 1
         /\ events'[Len(events) + 1] = e
         /\ \A k \in 1..Len(events) : events'[k] = events[k]
  OBVIOUS

(* A batch still pending has one event, its creation.                      *)
LEMMA PendingHasOneEvent ==
  ASSUME TypeOK, AuditTrail, NEW b \in Batch, batches[b] # Null,
         batches[b].status = "pending",
         NEW k \in DOMAIN events, events[k].batch = b
  PROVE  events[k].from = Null /\ events[k].to = "pending"
  <1>1. PICK last \in DOMAIN events :
          LastEvent(b, last) /\ events[last].to = "pending"
    BY DEF AuditTrail, StatusIsLastEvent
  <1>2. events[last].from = Null
    BY <1>1 DEF AuditTrail, LegalSteps, CanTransition
  <1>3. DOMAIN events \subseteq Nat /\ last \in Nat /\ k \in Nat
    BY DEF TypeOK
  <1>4. ~(k < last)
    <2>1. "pending" # Null
      BY NullIsNoRow DEF Status
    <2> QED BY <1>1, <1>2, <2>1 DEF AuditTrail, AtMostOneResolution, LastEvent
  <1>5. ~(last < k)
    BY <1>1 DEF LastEvent
  <1>6. k = last
    BY <1>3, <1>4, <1>5
  <1> QED BY <1>1, <1>2, <1>6

(* A call that logs event e of batch b, whose row then has status e.to,    *)
(* keeps the status of every row explained by the last event.              *)
LEMMA LoggedStatus ==
  ASSUME TypeOK, StatusIsLastEvent, NEW b \in Batch,
         NEW e \in BatchEvent, e.batch = b, events' = Append(events, e),
         NEW row \in BatchManifest, row.status = e.to,
         batches' = [batches EXCEPT ![b] = row]
  PROVE  StatusIsLastEvent'
  <1>1. /\ Len(events) \in Nat
        /\ DOMAIN events = 1..Len(events)
        /\ DOMAIN events' = 1..Len(events) + 1
        /\ events'[Len(events) + 1] = e
        /\ \A k \in 1..Len(events) : events'[k] = events[k]
    BY AppendEvent DEF TypeOK
  <1> SUFFICES ASSUME NEW x \in Batch
               PROVE IF batches'[x] = Null
                     THEN \A k \in DOMAIN events' : events'[k].batch # x
                     ELSE \E k \in DOMAIN events' :
                            LastEvent(x, k)' /\ events'[k].to = batches'[x].status
    BY DEF StatusIsLastEvent
  <1>2. CASE x = b
    <2>1. batches'[x] = row /\ row # Null
      BY <1>2, NullIsNoRow DEF TypeOK
    <2>2. PICK n \in Nat : n = Len(events) + 1
      BY <1>1
    <2>3. n \in DOMAIN events' /\ LastEvent(x, n)' /\ events'[n] = e
      BY <1>1, <1>2, <2>2 DEF LastEvent
    <2> QED BY <1>1, <2>1, <2>3
  <1>3. CASE x # b
    <2>1. batches'[x] = batches[x]
      BY <1>3 DEF TypeOK
    <2>2. CASE batches[x] = Null
      BY <1>1, <1>3, <2>1, <2>2 DEF StatusIsLastEvent
    <2>3. CASE batches[x] # Null
      <3>1. PICK k \in DOMAIN events :
              LastEvent(x, k) /\ events[k].to = batches[x].status
        BY <2>3 DEF StatusIsLastEvent
      <3>2. k \in DOMAIN events' /\ LastEvent(x, k)' /\ events'[k] = events[k]
        BY <1>1, <1>3, <3>1 DEF LastEvent
      <3> QED BY <2>1, <2>3, <3>1, <3>2
    <2> QED BY <2>2, <2>3
  <1> QED BY <1>2, <1>3

(* Two transactions of one batch cannot both resolve it and nothing gets   *)
(* into the trail without its row.                                         *)
THEOREM AuditTrailHolds == Spec => []AuditTrail
  <1>1. Init => AuditTrail
    BY DEF Init, AuditTrail, StatusIsLastEvent, AtMostOneResolution, LegalSteps
  <1>2. TypeOK /\ AuditTrail /\ [Next]_vars => AuditTrail'
    <2> SUFFICES ASSUME TypeOK, AuditTrail, [Next]_vars PROVE AuditTrail'
      OBVIOUS
    <2>1. ASSUME NEW b \in Batch, NEW m \in BatchManifest, RecordBatch(b, m)
          PROVE AuditTrail'
      <3> DEFINE e == Event(b, Null, m.status, m.createdAt)
      <3>1. e \in BatchEvent /\ e.batch = b /\ e.from = Null /\ e.to = m.status
        BY DEF Event, BatchEvent, BatchManifest
      <3>2. events' = Append(events, e) /\ batches' = [batches EXCEPT ![b] = m]
        BY <2>1 DEF RecordBatch
      <3> HIDE DEF e
      <3>3. StatusIsLastEvent'
        BY <3>1, <3>2, LoggedStatus DEF AuditTrail
      <3>4. /\ Len(events) \in Nat
            /\ DOMAIN events = 1..Len(events)
            /\ DOMAIN events' = 1..Len(events) + 1
            /\ events'[Len(events) + 1] = e
            /\ \A k \in 1..Len(events) : events'[k] = events[k]
        BY <3>1, <3>2, AppendEvent DEF TypeOK
      <3>5. \A k \in DOMAIN events : events[k].batch # b
        BY <2>1 DEF RecordBatch, AuditTrail, StatusIsLastEvent
      <3>6. AtMostOneResolution'
        BY <3>1, <3>4, <3>5 DEF AuditTrail, AtMostOneResolution
      <3>7. LegalSteps'
        BY <3>1, <3>4 DEF AuditTrail, LegalSteps
      <3> QED BY <3>3, <3>6, <3>7 DEF AuditTrail
    <2>2. ASSUME NEW b \in Batch, NEW to \in Status, NEW now \in Time,
                 TransitionBatch(b, to, now)
          PROVE AuditTrail'
      <3> DEFINE e == Event(b, "pending", to, now)
      <3>0. batches[b] # Null /\ batches[b] \in BatchManifest
            /\ batches[b].status = "pending" /\ CanTransition("pending", to)
        BY <2>2 DEF TransitionBatch, CanTransition, TypeOK
      <3>1. e \in BatchEvent /\ e.batch = b /\ e.from = "pending" /\ e.to = to
        BY DEF Event, BatchEvent, Status
      <3>2. events' = Append(events, e)
            /\ batches' = [batches EXCEPT ![b] = Moved(batches[b], to, now)]
        BY <2>2, <3>0 DEF TransitionBatch
      <3>3. Moved(batches[b], to, now) \in BatchManifest
            /\ Moved(batches[b], to, now).status = to
        BY <3>0 DEF Moved, BatchManifest, CommittedAt
      <3> HIDE DEF e
      <3>4. StatusIsLastEvent'
        BY <3>1, <3>2, <3>3, LoggedStatus DEF AuditTrail
      <3>5. /\ Len(events) \in Nat
            /\ DOMAIN events = 1..Len(events)
            /\ DOMAIN events' = 1..Len(events) + 1
            /\ events'[Len(events) + 1] = e
            /\ \A k \in 1..Len(events) : events'[k] = events[k]
        BY <3>1, <3>2, AppendEvent DEF TypeOK
      <3>6. \A k \in DOMAIN events : events[k].batch = b =>
              events[k].from = Null /\ events[k].to = "pending"
        BY <3>0, PendingHasOneEvent
      <3>7. AtMostOneResolution'
        BY <3>1, <3>5, <3>6 DEF AuditTrail, AtMostOneResolution
      <3>8. LegalSteps'
        BY <3>0, <3>1, <3>5 DEF AuditTrail, LegalSteps
      <3> QED BY <3>4, <3>7, <3>8 DEF AuditTrail
    <2>3. CASE UNCHANGED <<batches, events>>
      BY <2>3 DEF AuditTrail, StatusIsLastEvent, LastEvent,
                  AtMostOneResolution, LegalSteps
    <2> QED
      BY <2>1, <2>2, <2>3 DEF Next, vars, RecordIngestion, FinishIngestion
  <1> QED BY <1>1, <1>2, TypeCorrect, PTL DEF Spec

(* The committedAt of a row is the instant of the commit in its trail.     *)
THEOREM CommitStampHolds == Spec => []CommitStamp
  <1>1. Init => CommitStamp
    BY DEF Init, CommitStamp
  <1>2. TypeOK /\ AuditTrail /\ CommitStamp /\ [Next]_vars => CommitStamp'
    <2> SUFFICES ASSUME TypeOK, AuditTrail, CommitStamp, [Next]_vars
                 PROVE CommitStamp'
      OBVIOUS
    <2>0. \A k \in DOMAIN events : events[k] \in BatchEvent
      BY DEF TypeOK
    <2>1. ASSUME NEW b \in Batch, NEW m \in BatchManifest, RecordBatch(b, m)
          PROVE CommitStamp'
      <3> DEFINE e == Event(b, Null, m.status, m.createdAt)
      <3>1. e \in BatchEvent /\ e.from = Null
        BY DEF Event, BatchEvent, BatchManifest
      <3>2. events' = Append(events, e) /\ batches' = [batches EXCEPT ![b] = m]
        BY <2>1 DEF RecordBatch
      <3> HIDE DEF e
      <3>3. /\ Len(events) \in Nat
            /\ DOMAIN events = 1..Len(events)
            /\ DOMAIN events' = 1..Len(events) + 1
            /\ events'[Len(events) + 1] = e
            /\ \A k \in 1..Len(events) : events'[k] = events[k]
        BY <3>1, <3>2, AppendEvent DEF TypeOK
      <3>4. \A k \in DOMAIN events : events[k].batch # b
        BY <2>1 DEF RecordBatch, AuditTrail, StatusIsLastEvent
      <3>5. \A k \in DOMAIN events :
              batches'[events[k].batch] = batches[events[k].batch]
        BY <2>0, <3>2, <3>4 DEF BatchEvent, TypeOK
      <3>6. e.from # "pending"
        BY <3>1, NullIsNoRow DEF Status
      <3> QED BY <3>3, <3>5, <3>6 DEF CommitStamp
    <2>2. ASSUME NEW b \in Batch, NEW to \in Status, NEW now \in Time,
                 TransitionBatch(b, to, now)
          PROVE CommitStamp'
      <3> DEFINE e == Event(b, "pending", to, now)
      <3>0. batches[b] # Null /\ batches[b] \in BatchManifest
            /\ batches[b].status = "pending"
        BY <2>2 DEF TransitionBatch, CanTransition, TypeOK
      <3>1. e \in BatchEvent /\ e.batch = b /\ e.to = to /\ e.at = now
        BY DEF Event, BatchEvent, Status
      <3>2. events' = Append(events, e)
            /\ batches' = [batches EXCEPT ![b] = Moved(batches[b], to, now)]
        BY <2>2, <3>0 DEF TransitionBatch
      <3> HIDE DEF e
      <3>3. /\ Len(events) \in Nat
            /\ DOMAIN events = 1..Len(events)
            /\ DOMAIN events' = 1..Len(events) + 1
            /\ events'[Len(events) + 1] = e
            /\ \A k \in 1..Len(events) : events'[k] = events[k]
        BY <3>1, <3>2, AppendEvent DEF TypeOK
      <3>4. \A k \in DOMAIN events : events[k].batch = b =>
              events[k].to = "pending"
        BY <3>0, PendingHasOneEvent
      <3>5. \A k \in DOMAIN events : events[k].batch # b =>
              batches'[events[k].batch] = batches[events[k].batch]
        BY <2>0, <3>2 DEF BatchEvent, TypeOK
      <3>6. to = "committed" => batches'[b].committedAt = now
        BY <3>0, <3>2 DEF Moved, CommittedAt, BatchManifest, TypeOK
      <3> QED BY <3>1, <3>3, <3>4, <3>5, <3>6 DEF CommitStamp
    <2>3. CASE UNCHANGED <<batches, events>>
      BY <2>3 DEF CommitStamp
    <2> QED
      BY <2>1, <2>2, <2>3 DEF Next, vars, RecordIngestion, FinishIngestion
  <1> QED BY <1>1, <1>2, TypeCorrect, AuditTrailHolds, PTL DEF Spec

(* No call changes a batch once it is committed, failed or a dry run.      *)
THEOREM TerminalHolds == Spec => TerminalIsFinal
  <1>1. [Next]_vars /\ TypeOK =>
          [\A b \in Batch : Resolved(b) => batches'[b] = batches[b]]_vars
    <2> SUFFICES ASSUME Next, TypeOK, NEW x \in Batch, Resolved(x)
                 PROVE batches'[x] = batches[x]
      BY DEF vars
    <2>1. ASSUME NEW b \in Batch, NEW m \in BatchManifest, RecordBatch(b, m)
          PROVE batches'[x] = batches[x]
      BY <2>1 DEF RecordBatch, Resolved, TypeOK
    <2>2. ASSUME NEW b \in Batch, NEW to \in Status, NEW now \in Time,
                 TransitionBatch(b, to, now)
          PROVE batches'[x] = batches[x]
      BY <2>2 DEF TransitionBatch, CanTransition, Resolved, TypeOK
    <2> QED BY <2>1, <2>2 DEF Next, RecordIngestion, FinishIngestion
  <1> QED BY <1>1, TypeCorrect, PTL DEF Spec, TerminalIsFinal

-----------------------------------------------------------------------------
(* A run is its batch.                                                     *)
USE DEF Run

(* An upsert by a run keeps every row that was there and adds its own.     *)
LEMMA UpsertGrows ==
  ASSUME NEW K, NEW store \in [K -> Run \cup {Null}], NEW keys,
         NEW by \in Run \cup {Null}
  PROVE  /\ Upsert(store, keys, by) \in [K -> Run \cup {Null}]
         /\ by # Null => /\ Present(store) \subseteq Present(Upsert(store, keys, by))
                         /\ keys \cap K \subseteq Present(Upsert(store, keys, by))
  BY DEF Upsert, Present

(* recordBatch adds the row of r; a transition moves the row of r.         *)
LEMMA RecordMeans ==
  ASSUME IndexTypeOK, NEW r \in Run, NEW m \in BatchManifest,
         RecordBatch(r, m)
  PROVE  /\ batches'[r] = m /\ batches'[r] # Null
         /\ \A q \in Run \ {r} : batches'[q] = batches[q]
  BY NullIsNoRecord, NullIsNoRow DEF IndexTypeOK, TypeOK, RecordBatch

LEMMA TransitionMeans ==
  ASSUME IndexTypeOK, NEW r \in Run, NEW to \in Status, NEW now \in Time,
         TransitionBatch(r, to, now)
  PROVE  /\ batches[r] # Null /\ batches[r].status = "pending"
         /\ batches'[r] # Null /\ batches'[r].status = to
         /\ \A q \in Run \ {r} : batches'[q] = batches[q]
  <1>1. batches[r] \in BatchManifest /\ batches[r].status = "pending"
        /\ batches[r] # Null
    BY DEF IndexTypeOK, TypeOK, TransitionBatch,
           CanTransition
  <1>2. batches' = [batches EXCEPT ![r] = Moved(batches[r], to, now)]
    BY DEF TransitionBatch
  <1>3. /\ Moved(batches[r], to, now) \in BatchManifest
        /\ Moved(batches[r], to, now).status = to
    BY <1>1 DEF Moved, CommittedAt, BatchManifest
  <1> QED BY <1>1, <1>2, <1>3, NullIsNoRecord, NullIsNoRow DEF IndexTypeOK, TypeOK

(***************************************************************************)
(* The steps of a run by what they change: nothing but the run itself, the *)
(* manifest, or one store.                                                 *)
(***************************************************************************)
LocalStep(r) ==
  \/ \E in \in Input : Start(r, in)
  \/ \E s \in Snapshot : Read(r, s)
  \/ Parse(r) \/ ExtractRig(r) \/ Embed(r) \/ PrepareThrows(r)
  \/ RecordThrows(r) \/ FinishThrows(r) \/ MarkFailedThrows(r) \/ Crash(r)

NodesStep(r) == UpsertNodes(r) \/ UpsertNodesThrows(r)

EdgesStep(r) == UpsertEdges(r) \/ UpsertEdgesThrows(r)

VectorsStep(r) == UpsertVectors(r) \/ AddVectors(r) \/ UpsertVectorsThrows(r)

WalStep(r) == Record(r) \/ \E now \in Time : Finish(r, now) \/ MarkFailed(r, now)

LEMMA StepKinds ==
  ASSUME IndexNext
  PROVE  \E r \in Run : \/ LocalStep(r) \/ NodesStep(r) \/ EdgesStep(r)
                        \/ VectorsStep(r) \/ WalStep(r)
  BY DEF IndexNext, Advance, LocalStep, NodesStep, EdgesStep, VectorsStep, WalStep

(* The stores are the same from the start to the end.                      *)
LEMMA ModeStays == IndexNext => mode' = mode
  BY DEF IndexNext

PcType == {"idle"} \cup Active \cup Over

(***************************************************************************)
(* Control: what the place of a run says about its input, its content and  *)
(* its row in the manifest.                                                *)
(***************************************************************************)
ControlOf(r) ==
  /\ pc[r] # "idle" => input[r] \in Input
  /\ pc[r] \in Active \ {"reading"} => content[r] \in Snapshot
  /\ pc[r] \in {"idle", "recording"} \cup Preparing => batches[r] = Null
  /\ pc[r] \in Guarded \cup {"failing"} => Has(r, "pending")
  /\ pc[r] \in {"nodes", "edges", "vectors", "adding"} => ~input[r].dryRun
  /\ batches[r] # Null => content[r] \in Snapshot /\ input[r] \in Input
  /\ pc[r] = "adding" => mode.vectors = "lancedb"
  /\ pc[r] = "returned" => Has(r, Outcome(r))
  /\ pc[r] = "threw" => batches[r] = Null \/ Has(r, "failed")
  /\ pc[r] \in {"unmarked", "crashed"} =>
       batches[r] = Null \/ batches[r].status \in {"pending", "failed"}

Control == \A r \in Run : ControlOf(r)

LEMMA PcMoves ==
  ASSUME IndexTypeOK, NEW r \in Run, NEW l \in PcType, Goto(r, l)
  PROVE  /\ pc'[r] = l /\ pc' \in [Run -> PcType]
         /\ \A q \in Run \ {r} : pc'[q] = pc[q]
  BY DEF IndexTypeOK, PcType, Goto

(* Every step keeps the state well typed.                                  *)
LEMMA TypeStep ==
  ASSUME IndexTypeOK, Control, IndexNext
  PROVE  IndexTypeOK'
  <1> USE DEF PcType, Active, Over, Preparing, Guarded
  <1>1. PICK r \in Run : \/ LocalStep(r) \/ NodesStep(r) \/ EdgesStep(r)
                         \/ VectorsStep(r) \/ WalStep(r)
    BY StepKinds
  <1>0. TypeOK /\ ControlOf(r)
    BY DEF IndexTypeOK, Control
  <1>a. UNCHANGED wal => TypeOK'
    BY <1>0 DEF wal, TypeOK
  <1>b. mode' = mode
    BY ModeStays
  <1> USE <1>b
  <1>2. CASE LocalStep(r)
    BY <1>2, <1>a DEF LocalStep, IndexTypeOK, Goto, Start, Read, Parse, ExtractRig,
       Embed, PrepareThrows, RecordThrows, FinishThrows, MarkFailedThrows,
       Crash, stores
  <1>3. CASE NodesStep(r)
    <2>1. PICK keys \in SUBSET content[r].nodes : nodes' = Upsert(nodes, keys, r)
      BY <1>3 DEF NodesStep, UpsertNodes, UpsertNodesThrows
    <2>2. nodes' \in [NodeId -> Run \cup {Null}]
      BY <2>1, UpsertGrows DEF IndexTypeOK
    <2> QED BY <1>3, <1>a, <2>2
            DEF NodesStep, UpsertNodes, UpsertNodesThrows, IndexTypeOK, Goto
  <1>4. CASE EdgesStep(r)
    <2>1. PICK keys \in SUBSET Storable(content[r].edges) :
            edges' = Upsert(edges, keys, r)
      BY <1>4 DEF EdgesStep, UpsertEdges, UpsertEdgesThrows
    <2>2. edges' \in [EdgeKey -> Run \cup {Null}]
      BY <2>1, UpsertGrows DEF IndexTypeOK
    <2> QED BY <1>4, <1>a, <2>2
            DEF EdgesStep, UpsertEdges, UpsertEdgesThrows, IndexTypeOK, Goto
  <1>5. CASE VectorsStep(r)
    <2>1. UNCHANGED vectors \/ \E keys \in SUBSET content[r].vectors,
            by \in {r, Null} : vectors' = Upsert(vectors, keys, by)
      BY <1>5 DEF VectorsStep, UpsertVectors, AddVectors, UpsertVectorsThrows
    <2>2. vectors' \in [NodeId -> Run \cup {Null}]
      BY <2>1, UpsertGrows DEF IndexTypeOK
    <2> QED BY <1>5, <1>a, <2>2 DEF VectorsStep, UpsertVectors, AddVectors,
               UpsertVectorsThrows, IndexTypeOK, Goto
  <1>6. CASE WalStep(r)
    <2>1. CASE Record(r)
      <3>1. [run |-> input[r].run, status |-> "pending",
             createdAt |-> input[r].startedAt, committedAt |-> Null]
              \in BatchManifest
        BY <1>0, <2>1 DEF Record, ControlOf, Input, BatchManifest,
                          Status
      <3>2. TypeOK'
        BY <1>0, <2>1, <3>1, RecordTyped DEF Record
      <3> QED BY <2>1, <3>2 DEF Record, AfterRecord, IndexTypeOK, Goto, stores
    <2>2. ASSUME NEW now \in Time, Finish(r, now) PROVE IndexTypeOK'
      <3>1. TypeOK'
        BY <1>0, <2>2, TransitionTyped DEF Finish, Outcome, Status
      <3> QED BY <2>2, <3>1 DEF Finish, IndexTypeOK, Goto, stores
    <2>3. ASSUME NEW now \in Time, MarkFailed(r, now) PROVE IndexTypeOK'
      <3>1. TypeOK'
        BY <1>0, <2>3, TransitionTyped DEF MarkFailed, Status
      <3> QED BY <2>3, <3>1 DEF MarkFailed, IndexTypeOK, Goto, stores
    <2> QED BY <1>6, <2>1, <2>2, <2>3 DEF WalStep
  <1> QED BY <1>1, <1>2, <1>3, <1>4, <1>5, <1>6

(* A step of r leaves the control facts of the other runs alone.           *)
LEMMA OthersKeepControl ==
  ASSUME IndexTypeOK, Control, NEW r \in Run, NEW q \in Run \ {r}, mode' = mode,
         pc'[q] = pc[q], input'[q] = input[q], content'[q] = content[q],
         batches'[q] = batches[q]
  PROVE  ControlOf(q)'
  BY DEF Control, ControlOf, Has, Outcome

LEMMA ControlStep ==
  ASSUME IndexTypeOK, Control, IndexNext
  PROVE  Control'
  <1> USE DEF PcType, Active, Over, Preparing, Guarded
  <1>1. PICK r \in Run : \/ LocalStep(r) \/ NodesStep(r) \/ EdgesStep(r)
                         \/ VectorsStep(r) \/ WalStep(r)
    BY StepKinds
  <1>2. /\ ControlOf(r) /\ r \in Run
        /\ pc \in [Run -> PcType]
        /\ input \in [Run -> Input \cup {Null}]
        /\ content \in [Run -> Snapshot \cup {Null}]
        /\ batches \in [Run -> BatchManifest \cup {Null}]
    BY DEF Control, IndexTypeOK, TypeOK
  <1>3. SUFFICES /\ ControlOf(r)'
                 /\ \A q \in Run \ {r} :
                      /\ pc'[q] = pc[q] /\ input'[q] = input[q]
                      /\ content'[q] = content[q] /\ batches'[q] = batches[q]
    BY OthersKeepControl, ModeStays DEF Control
  <1>m. mode' = mode
    BY ModeStays
  <1> USE <1>m
  <1>4. CASE LocalStep(r)
    <2>1. CASE \E in \in Input : Start(r, in)
      BY <1>2, <2>1 DEF Start, Goto, wal, ControlOf, Has, Outcome
    <2>2. CASE \E s \in Snapshot : Read(r, s)
      BY <1>2, <2>2 DEF Read, Goto, wal, ControlOf, Has, Outcome
    <2>3. CASE Parse(r) \/ ExtractRig(r) \/ Embed(r)
      BY <1>2, <2>3 DEF Parse, ExtractRig, Embed, Goto, wal, ControlOf, Has, Outcome
    <2>4. CASE PrepareThrows(r) \/ RecordThrows(r) \/ FinishThrows(r)
               \/ MarkFailedThrows(r) \/ Crash(r)
      BY <1>2, <2>4 DEF PrepareThrows, RecordThrows, FinishThrows,
         MarkFailedThrows, Crash, Goto, wal, ControlOf, Has, Outcome
    <2> QED BY <1>4, <2>1, <2>2, <2>3, <2>4 DEF LocalStep
  <1>5. CASE NodesStep(r)
    BY <1>2, <1>5 DEF NodesStep, UpsertNodes, UpsertNodesThrows, Goto, wal,
                      ControlOf, Has, Outcome
  <1>6. CASE EdgesStep(r)
    BY <1>2, <1>6 DEF EdgesStep, UpsertEdges, UpsertEdgesThrows, Goto, wal,
                      ControlOf, Has, Outcome
  <1>7. CASE VectorsStep(r)
    BY <1>2, <1>7 DEF VectorsStep, UpsertVectors, AddVectors,
                      UpsertVectorsThrows, Goto, wal, ControlOf, Has, Outcome
  <1>8. CASE WalStep(r)
    <2>1. CASE Record(r)
      <3>1. [run |-> input[r].run, status |-> "pending",
             createdAt |-> input[r].startedAt, committedAt |-> Null]
              \in BatchManifest
        BY <1>2, <2>1 DEF Record, ControlOf, Input, BatchManifest,
                          Status
      <3>2. /\ Has(r, "pending")'
            /\ \A q \in Run \ {r} : batches'[q] = batches[q]
        BY <2>1, <3>1, RecordMeans DEF Record, Has
      <3> QED BY <1>2, <2>1, <3>2 DEF Record, AfterRecord, Goto, ControlOf, Has
    <2>2. ASSUME NEW now \in Time, Finish(r, now)
          PROVE /\ ControlOf(r)'
                /\ \A q \in Run \ {r} :
                     /\ pc'[q] = pc[q] /\ input'[q] = input[q]
                     /\ content'[q] = content[q] /\ batches'[q] = batches[q]
      <3>1. Outcome(r) \in Status
        BY DEF Outcome, Status
      <3>2. /\ batches'[r] # Null /\ batches'[r].status = Outcome(r)
            /\ \A q \in Run \ {r} : batches'[q] = batches[q]
        BY <2>2, <3>1, TransitionMeans DEF Finish
      <3> QED BY <1>2, <2>2, <3>2 DEF Finish, Goto, ControlOf, Has, Outcome
    <2>3. ASSUME NEW now \in Time, MarkFailed(r, now)
          PROVE /\ ControlOf(r)'
                /\ \A q \in Run \ {r} :
                     /\ pc'[q] = pc[q] /\ input'[q] = input[q]
                     /\ content'[q] = content[q] /\ batches'[q] = batches[q]
      <3>1. /\ batches'[r] # Null /\ batches'[r].status = "failed"
            /\ \A q \in Run \ {r} : batches'[q] = batches[q]
        BY <2>3, TransitionMeans DEF MarkFailed, Status
      <3> QED BY <1>2, <2>3, <3>1 DEF MarkFailed, Goto, ControlOf, Has
    <2> QED BY <1>8, <2>1, <2>2, <2>3 DEF WalStep
  <1> QED BY <1>1, <1>4, <1>5, <1>6, <1>7, <1>8

(* The type invariant and the control facts hold together.                 *)
THEOREM IndexTypeCorrect == IndexSpec => [](IndexTypeOK /\ Control)
  <1>1. IndexInit => IndexTypeOK /\ Control
    BY DEF IndexInit, IndexTypeOK, Control, ControlOf, Active, Preparing, Guarded,
           Init, TypeOK
  <1>2. IndexTypeOK /\ Control /\ [IndexNext]_indexVars => (IndexTypeOK /\ Control)'
    <2>1. CASE IndexNext
      BY <2>1, TypeStep, ControlStep
    <2>2. CASE UNCHANGED indexVars
      BY <2>2 DEF indexVars, stores, wal, IndexTypeOK, Control, ControlOf, Has, Outcome,
                  TypeOK
    <2> QED BY <2>1, <2>2
  <1> QED BY <1>1, <1>2, PTL DEF IndexSpec

(* A result is returned only for a batch resolved as asked, an error never *)
(* for a committed one.                                                    *)
THEOREM ToldTheTruthHolds == IndexSpec => []ToldTheTruth
  <1>1. Control => ToldTheTruth
    BY DEF Control, ControlOf, ToldTheTruth, Has
  <1> QED BY <1>1, IndexTypeCorrect, PTL

-----------------------------------------------------------------------------
(* What a step of r does to the manifest rows: nobody loses one, and only  *)
(* r's can appear or change.                                               *)
LEMMA RowsStay ==
  ASSUME IndexTypeOK, Control, NEW r \in Run,
         \/ LocalStep(r) \/ NodesStep(r) \/ EdgesStep(r)
         \/ VectorsStep(r) \/ WalStep(r)
  PROVE  /\ \A q \in Run : batches[q] # Null => batches'[q] # Null
         /\ \A q \in Run : batches[q] # Null =>
              input'[q] = input[q] /\ content'[q] = content[q]
         /\ \A q \in Run \ {r} : batches'[q] = batches[q] /\ pc'[q] = pc[q]
              /\ input'[q] = input[q] /\ content'[q] = content[q]
  <1> USE DEF Preparing
  <1>1. /\ pc[r] \in {"idle", "reading"} => batches[r] = Null
        /\ input \in [Run -> Input \cup {Null}]
        /\ content \in [Run -> Snapshot \cup {Null}]
        /\ pc \in [Run -> PcType]
    BY DEF IndexTypeOK, PcType, Control, ControlOf
  <1>2. CASE LocalStep(r)
    BY <1>1, <1>2 DEF LocalStep, Start, Read, Parse, ExtractRig, Embed,
       PrepareThrows, RecordThrows, FinishThrows, MarkFailedThrows, Crash,
       Goto, wal
  <1>3. CASE NodesStep(r) \/ EdgesStep(r) \/ VectorsStep(r)
    BY <1>1, <1>3 DEF NodesStep, UpsertNodes, UpsertNodesThrows, EdgesStep,
       UpsertEdges, UpsertEdgesThrows, VectorsStep, UpsertVectors, AddVectors,
       UpsertVectorsThrows, Goto, wal
  <1>4. CASE WalStep(r)
    <2>1. CASE Record(r)
      <3>1. \A q \in Run \ {r} : batches'[q] = batches[q]
        BY <2>1 DEF Record, RecordBatch, IndexTypeOK, TypeOK
      <3>2. batches[r] = Null
        BY <2>1 DEF Record, RecordBatch
      <3> QED BY <1>1, <2>1, <3>1, <3>2 DEF Record, Goto
    <2>2. ASSUME NEW now \in Time, Finish(r, now) \/ MarkFailed(r, now)
          PROVE  /\ batches'[r] # Null
                 /\ \A q \in Run \ {r} : batches'[q] = batches[q]
      BY <2>2, TransitionMeans DEF Finish, MarkFailed, Outcome, Status
    <2>3. ASSUME NEW now \in Time, Finish(r, now) \/ MarkFailed(r, now)
          PROVE  /\ UNCHANGED <<input, content>>
                 /\ \A q \in Run \ {r} : pc'[q] = pc[q]
      BY <1>1, <2>3 DEF Finish, MarkFailed, Goto
    <2> QED BY <1>4, <2>1, <2>2, <2>3 DEF WalStep
  <1> QED BY <1>2, <1>3, <1>4

(* The stores, step by step.                                               *)
LEMMA StoresStep ==
  ASSUME IndexTypeOK, Control, NEW r \in Run,
         \/ LocalStep(r) \/ NodesStep(r) \/ EdgesStep(r)
         \/ VectorsStep(r) \/ WalStep(r)
  PROVE  /\ UNCHANGED nodes
            \/ \E keys \in SUBSET content[r].nodes :
                 pc[r] = "nodes" /\ nodes' = Upsert(nodes, keys, r)
         /\ UNCHANGED edges
            \/ \E keys \in SUBSET Storable(content[r].edges) :
                 pc[r] = "edges" /\ edges' = Upsert(edges, keys, r)
         /\ UNCHANGED vectors
            \/ \E keys \in SUBSET content[r].vectors, by \in {r, Null} :
                 /\ pc[r] \in {"vectors", "adding"}
                 /\ mode.vectors = "memory" => by = r
                 /\ vectors' = Upsert(vectors, keys, by)
  <1>1. CASE LocalStep(r) \/ WalStep(r)
    BY <1>1 DEF LocalStep, WalStep, Start, Read, Parse, ExtractRig, Embed,
       PrepareThrows, RecordThrows, FinishThrows, MarkFailedThrows, Crash,
       Record, Finish, MarkFailed, stores
  <1>2. CASE NodesStep(r)
    BY <1>2 DEF NodesStep, UpsertNodes, UpsertNodesThrows
  <1>3. CASE EdgesStep(r)
    BY <1>3 DEF EdgesStep, UpsertEdges, UpsertEdgesThrows
  <1>4. CASE VectorsStep(r)
    BY <1>4 DEF VectorsStep, UpsertVectors, AddVectors, UpsertVectorsThrows
  <1> QED BY <1>1, <1>2, <1>3, <1>4

(* The strengthening of WriteAhead: whoever has stamped a row has a row in *)
(* the manifest and was not asked for a dry run.                           *)
Stamps == \A r \in Run : Stamped(r) => batches[r] # Null /\ ~input[r].dryRun

LEMMA StampsStep ==
  ASSUME IndexTypeOK, Control, Stamps, IndexNext
  PROVE  Stamps'
  <1>1. PICK r \in Run : \/ LocalStep(r) \/ NodesStep(r) \/ EdgesStep(r)
                         \/ VectorsStep(r) \/ WalStep(r)
    BY StepKinds
  <1>2. pc[r] \in {"nodes", "edges", "vectors", "adding"} =>
          batches[r] # Null /\ ~input[r].dryRun
    BY DEF Control, ControlOf, Guarded, Has
  <1>3. ASSUME NEW q \in Run, Stamped(q)'
        PROVE  \/ Stamped(q)
               \/ q = r /\ pc[r] \in {"nodes", "edges", "vectors", "adding"}
    <2>1. /\ nodes \in [NodeId -> Run \cup {Null}]
          /\ edges \in [EdgeKey -> Run \cup {Null}]
          /\ vectors \in [NodeId -> Run \cup {Null}]
          /\ q # Null
      BY NullAssumption DEF IndexTypeOK
    <2>2. ASSUME NEW n \in NodeId, nodes'[n] = q
          PROVE  nodes[n] = q \/ (q = r /\ pc[r] = "nodes")
      BY <1>1, <2>1, <2>2, StoresStep DEF Upsert
    <2>3. ASSUME NEW e \in EdgeKey, edges'[e] = q
          PROVE  edges[e] = q \/ (q = r /\ pc[r] = "edges")
      BY <1>1, <2>1, <2>3, StoresStep DEF Upsert
    <2>4. ASSUME NEW n \in NodeId, vectors'[n] = q
          PROVE  vectors[n] = q \/ (q = r /\ pc[r] \in {"vectors", "adding"})
      BY <1>1, <2>1, <2>4, StoresStep DEF Upsert
    <2> QED BY <1>3, <2>2, <2>3, <2>4 DEF Stamped
  <1>4. \A q \in Run : batches[q] # Null =>
          batches'[q] # Null /\ input'[q] = input[q]
    BY <1>1, RowsStay
  <1> QED BY <1>2, <1>3, <1>4 DEF Stamps

LEMMA StampsHold == IndexSpec => []Stamps
  <1>1. IndexInit => Stamps
    BY NullAssumption DEF IndexInit, Stamps, Stamped
  <1>2. IndexTypeOK /\ Control /\ Stamps /\ [IndexNext]_indexVars => Stamps'
    <2>1. CASE UNCHANGED indexVars
      BY <2>1 DEF indexVars, stores, wal, Stamps, Stamped
    <2> QED BY <2>1, StampsStep
  <1> QED BY <1>1, <1>2, IndexTypeCorrect, PTL DEF IndexSpec

(* Write-ahead: no row is stored before its batch is in the manifest, and  *)
(* a dry run stores none.                                                  *)
THEOREM WriteAheadHolds == IndexSpec => []WriteAhead
  <1>1. IndexTypeOK /\ Control /\ Stamps => WriteAhead
    <2> SUFFICES ASSUME IndexTypeOK, Control, Stamps, NEW r \in Run, Stamped(r)
                 PROVE batches[r] # Null /\ ~Has(r, "dry_run")
      BY DEF WriteAhead
    <2>1. batches[r] # Null /\ ~input[r].dryRun
      BY DEF Stamps
    <2>2. ControlOf(r) /\ pc[r] \in PcType
      BY DEF Control, IndexTypeOK, PcType
    <2> QED BY <2>1, <2>2 DEF ControlOf, PcType, Active, Over, Preparing,
                              Guarded, Has, Outcome
  <1> QED BY <1>1, IndexTypeCorrect, StampsHold, PTL

-----------------------------------------------------------------------------
(***************************************************************************)
(* How far a run has come, in the stores: the phases it has behind it.  A  *)
(* dry run passes "finishing" without having written anything.             *)
(***************************************************************************)
Stored(r) == (pc[r] = "finishing" /\ ~input[r].dryRun) \/ Has(r, "committed")

Linked(r) == pc[r] \in {"vectors", "adding"} \/ Stored(r)

Placed(r) == pc[r] = "edges" \/ Linked(r)

(* The edges the graph store keeps, once it has the batch's nodes.         *)
Kept(r) ==
  IF mode.graph = "neo4j" THEN Internal(content[r]) ELSE content[r].edges

ProgressOf(r) ==
  /\ Placed(r) => content[r].nodes \subseteq Present(nodes)
  /\ Linked(r) => Kept(r) \subseteq Present(edges)
  /\ Stored(r) /\ mode.vectors = "memory" =>
       content[r].vectors \subseteq Present(vectors)

Progress == \A r \in Run : ProgressOf(r)

(* No step empties a store, except LanceDB's delete.                       *)
LEMMA StoresGrow ==
  ASSUME IndexTypeOK, Control, NEW r \in Run,
         \/ LocalStep(r) \/ NodesStep(r) \/ EdgesStep(r)
         \/ VectorsStep(r) \/ WalStep(r)
  PROVE  /\ Present(nodes) \subseteq Present(nodes')
         /\ Present(edges) \subseteq Present(edges')
         /\ mode.vectors = "memory" => Present(vectors) \subseteq Present(vectors')
  <1>1. /\ nodes \in [NodeId -> Run \cup {Null}]
        /\ edges \in [EdgeKey -> Run \cup {Null}]
        /\ vectors \in [NodeId -> Run \cup {Null}]
        /\ r # Null
    BY NullAssumption DEF IndexTypeOK
  <1>2. Present(nodes) \subseteq Present(nodes')
    <2>1. ASSUME NEW keys, nodes' = Upsert(nodes, keys, r)
          PROVE  Present(nodes) \subseteq Present(nodes')
      BY <1>1, <2>1, UpsertGrows
    <2> QED BY <2>1, StoresStep
  <1>3. Present(edges) \subseteq Present(edges')
    <2>1. ASSUME NEW keys, edges' = Upsert(edges, keys, r)
          PROVE  Present(edges) \subseteq Present(edges')
      BY <1>1, <2>1, UpsertGrows
    <2> QED BY <2>1, StoresStep
  <1>4. ASSUME mode.vectors = "memory"
        PROVE  Present(vectors) \subseteq Present(vectors')
    <2>1. ASSUME NEW keys, vectors' = Upsert(vectors, keys, r)
          PROVE  Present(vectors) \subseteq Present(vectors')
      BY <1>1, <2>1, UpsertGrows
    <2> QED BY <1>4, <2>1, StoresStep
  <1> QED BY <1>2, <1>3, <1>4

(* A step by another run leaves the phase of q, and only adds to the       *)
(* stores.                                                                 *)
LEMMA OthersKeepProgress ==
  ASSUME IndexTypeOK, Control, NEW r \in Run, NEW q \in Run \ {r}, ProgressOf(q),
         mode' = mode,
         \/ LocalStep(r) \/ NodesStep(r) \/ EdgesStep(r)
         \/ VectorsStep(r) \/ WalStep(r)
  PROVE  ProgressOf(q)'
  <1>1. /\ batches'[q] = batches[q] /\ pc'[q] = pc[q]
        /\ input'[q] = input[q] /\ content'[q] = content[q]
    BY RowsStay
  <1>2. /\ Present(nodes) \subseteq Present(nodes)'
        /\ Present(edges) \subseteq Present(edges)'
        /\ mode.vectors = "memory" =>
             Present(vectors) \subseteq Present(vectors)'
    BY StoresGrow DEF Present
  <1>3. /\ Stored(q)' => Stored(q)
        /\ Linked(q)' => Linked(q)
        /\ Placed(q)' => Placed(q)
    BY <1>1 DEF Stored, Linked, Placed, Has
  <1>4. Kept(q)' = Kept(q)
    BY <1>1 DEF Kept, Internal
  <1> QED BY <1>1, <1>2, <1>3, <1>4 DEF ProgressOf

(* The phases of r: each is entered from the one before, by the upsert     *)
(* that completes it.                                                      *)
LEMMA Phases ==
  ASSUME IndexTypeOK, Control, NEW r \in Run,
         \/ LocalStep(r) \/ NodesStep(r) \/ EdgesStep(r)
         \/ VectorsStep(r) \/ WalStep(r)
  PROVE  /\ Placed(r)' => Placed(r) \/ UpsertNodes(r)
         /\ Linked(r)' => Linked(r) \/ UpsertEdges(r)
         /\ Stored(r)' => \/ Stored(r)
                          \/ /\ Linked(r)
                             /\ mode.vectors = "memory" => UpsertVectors(r)
         /\ Placed(r)' => content'[r] = content[r]
  <1> USE DEF PcType, Active, Over, Preparing, Guarded
  <1>1. /\ ControlOf(r) /\ r \in Run
        /\ pc \in [Run -> PcType]
        /\ input \in [Run -> Input \cup {Null}]
        /\ content \in [Run -> Snapshot \cup {Null}]
        /\ batches \in [Run -> BatchManifest \cup {Null}]
    BY DEF Control, IndexTypeOK, TypeOK
  <1>2. CASE LocalStep(r)
    <2>1. CASE \E in \in Input : Start(r, in)
      BY <1>1, <2>1 DEF Start, Goto, wal, Placed, Linked, Stored, ControlOf, Has
    <2>2. CASE \E s \in Snapshot : Read(r, s)
      BY <1>1, <2>2 DEF Read, Goto, wal, Placed, Linked, Stored, ControlOf, Has
    <2>3. CASE \/ Parse(r) \/ ExtractRig(r) \/ Embed(r) \/ PrepareThrows(r)
               \/ RecordThrows(r) \/ FinishThrows(r) \/ MarkFailedThrows(r)
               \/ Crash(r)
      BY <1>1, <2>3 DEF Parse, ExtractRig, Embed, PrepareThrows, RecordThrows,
         FinishThrows, MarkFailedThrows, Crash, Goto, wal, Placed, Linked,
         Stored, ControlOf, Has
    <2> QED BY <1>2, <2>1, <2>2, <2>3 DEF LocalStep
  <1>3. CASE NodesStep(r)
    BY <1>1, <1>3 DEF NodesStep, UpsertNodes, UpsertNodesThrows, Goto, wal,
                      Placed, Linked, Stored, ControlOf, Has
  <1>4. CASE EdgesStep(r)
    BY <1>1, <1>4 DEF EdgesStep, UpsertEdges, UpsertEdgesThrows, Goto, wal,
                      Placed, Linked, Stored, ControlOf, Has
  <1>5. CASE VectorsStep(r)
    <2>1. CASE UpsertVectors(r)
      BY <1>1, <2>1 DEF UpsertVectors, Goto, wal, Placed, Linked, Stored,
                        ControlOf, Has
    <2>2. CASE AddVectors(r) \/ UpsertVectorsThrows(r)
      BY <1>1, <2>2 DEF AddVectors, UpsertVectorsThrows, Goto, wal,
                 Placed, Linked, Stored, ControlOf, Has
    <2> QED BY <1>5, <2>1, <2>2 DEF VectorsStep
  <1>6. CASE WalStep(r)
    <2>1. CASE Record(r)
      <3>1. batches'[r].status = "pending"
        BY <2>1, <1>1 DEF Record, RecordBatch
      <3> QED BY <1>1, <2>1, <3>1 DEF Record, AfterRecord, Goto, Placed, Linked,
                                      Stored, Has
    <2>2. ASSUME NEW now \in Time, Finish(r, now)
          PROVE  /\ Stored(r)' => Stored(r)
                 /\ ~(pc'[r] \in {"edges", "vectors", "adding"})
                 /\ content'[r] = content[r]
      <3>1. batches'[r].status = Outcome(r)
        BY <2>2, TransitionMeans DEF Finish, Outcome, Status
      <3> QED BY <1>1, <2>2, <3>1 DEF Finish, Outcome, Goto, Stored, Has
    <2>3. ASSUME NEW now \in Time, MarkFailed(r, now)
          PROVE  /\ Stored(r)' => Stored(r)
                 /\ ~(pc'[r] \in {"edges", "vectors", "adding"})
                 /\ content'[r] = content[r]
      <3>1. batches'[r].status = "failed"
        BY <2>3, TransitionMeans DEF MarkFailed, Status
      <3> QED BY <1>1, <2>3, <3>1 DEF MarkFailed, Goto, Stored, Has
    <2> QED BY <1>6, <2>1, <2>2, <2>3 DEF WalStep, Placed, Linked
  <1> QED BY <1>2, <1>3, <1>4, <1>5, <1>6

LEMMA ProgressStep ==
  ASSUME IndexTypeOK, Control, Progress, IndexNext
  PROVE  Progress'
  <1>1. PICK r \in Run : \/ LocalStep(r) \/ NodesStep(r) \/ EdgesStep(r)
                         \/ VectorsStep(r) \/ WalStep(r)
    BY StepKinds
  <1>2. ASSUME NEW q \in Run \ {r} PROVE ProgressOf(q)'
    BY <1>1, OthersKeepProgress, ModeStays DEF Progress
  <1>3. /\ Present(nodes) \subseteq Present(nodes)'
        /\ Present(edges) \subseteq Present(edges)'
        /\ mode.vectors = "memory" =>
             Present(vectors) \subseteq Present(vectors)'
    BY <1>1, StoresGrow DEF Present
  <1>4. /\ Placed(r)' => Placed(r) \/ UpsertNodes(r)
        /\ Linked(r)' => Linked(r) \/ UpsertEdges(r)
        /\ Stored(r)' => \/ Stored(r)
                         \/ /\ Linked(r)
                            /\ mode.vectors = "memory" => UpsertVectors(r)
        /\ Placed(r)' => content'[r] = content[r]
    BY <1>1, Phases
  <1>5. /\ Stored(r)' => Linked(r)'
        /\ Linked(r)' => Placed(r)'
    BY DEF Linked, Placed, Stored
  <1>6. /\ ProgressOf(r) /\ r # Null
        /\ nodes \in [NodeId -> Run \cup {Null}]
        /\ edges \in [EdgeKey -> Run \cup {Null}]
        /\ vectors \in [NodeId -> Run \cup {Null}]
    BY NullAssumption DEF Progress, IndexTypeOK
  <1>7. Placed(r)' => content'[r].nodes \subseteq Present(nodes)'
    <2>1. CASE Placed(r)
      BY <1>3, <1>4, <1>6, <2>1 DEF ProgressOf
    <2>2. CASE UpsertNodes(r)
      <3>1. content[r] \in Snapshot
        BY <2>2 DEF UpsertNodes, Control, ControlOf, Active, Guarded
      <3>2. content[r].nodes \cap NodeId \subseteq Present(nodes')
        BY <1>6, <2>2, UpsertGrows DEF UpsertNodes
      <3> QED BY <1>4, <3>1, <3>2, SnapshotAssumption DEF Present
    <2> QED BY <1>4, <2>1, <2>2
  <1>8. Linked(r)' => Kept(r)' \subseteq Present(edges)'
    <2>1. CASE Linked(r)
      <3>1. Linked(r)' => Kept(r)' = Kept(r)
        BY <1>4, <1>5, ModeStays DEF Kept, Internal
      <3> QED BY <1>3, <1>6, <2>1, <3>1 DEF ProgressOf
    <2>2. CASE UpsertEdges(r)
      <3>1. /\ content[r] \in Snapshot /\ Placed(r)
            /\ content'[r] = content[r]
        BY <2>2 DEF UpsertEdges, Control, ControlOf, Active, Guarded, Placed
      <3>2. Kept(r) \subseteq Storable(content[r].edges)
        BY <1>6, <3>1 DEF ProgressOf, Kept, Internal, Storable
      <3>3. Storable(content[r].edges) \cap EdgeKey \subseteq Present(edges')
        BY <1>6, <2>2, UpsertGrows DEF UpsertEdges
      <3>4. Kept(r) \subseteq EdgeKey
        BY <3>1, SnapshotAssumption DEF Kept, Internal
      <3> QED BY <3>1, <3>2, <3>3, <3>4, ModeStays DEF Kept, Internal, Present
    <2> QED BY <1>4, <2>1, <2>2
  <1>9. ASSUME Stored(r)', mode.vectors = "memory"
        PROVE  content'[r].vectors \subseteq Present(vectors)'
    <2>1. CASE Stored(r)
      BY <1>3, <1>4, <1>5, <1>6, <1>9, <2>1 DEF ProgressOf
    <2>2. CASE UpsertVectors(r)
      <3>1. content[r] \in Snapshot
        BY <2>2 DEF UpsertVectors, Control, ControlOf, Active, Guarded
      <3>2. content[r].vectors \cap NodeId \subseteq Present(vectors')
        BY <1>6, <1>9, <2>2, UpsertGrows DEF UpsertVectors
      <3> QED BY <1>4, <1>5, <1>9, <3>1, <3>2, SnapshotAssumption DEF Present
    <2> QED BY <1>4, <1>9, <2>1, <2>2
  <1>10. ProgressOf(r)'
    BY <1>7, <1>8, <1>9, ModeStays DEF ProgressOf
  <1> QED BY <1>2, <1>10 DEF Progress

LEMMA ProgressHolds == IndexSpec => []Progress
  <1>1. IndexInit => Progress
    BY NullIsNoRecord, NullIsNoRow DEF IndexInit, Progress, ProgressOf, Placed, Linked, Stored,
                          Has, Init
  <1>2. IndexTypeOK /\ Control /\ Progress /\ [IndexNext]_indexVars => Progress'
    <2>1. CASE UNCHANGED indexVars
      BY <2>1 DEF indexVars, stores, wal, Progress, ProgressOf, Placed, Linked,
                  Stored, Has, Kept, Internal, Present
    <2> QED BY <2>1, ProgressStep
  <1> QED BY <1>1, <1>2, IndexTypeCorrect, PTL DEF IndexSpec

(* `committed` means that the graph holds every node and inner edge of the *)
(* batch, whatever the backends, the faults and the other runs.            *)
THEOREM CommittedGraphHolds == IndexSpec => []CommittedGraph
  <1>1. Progress => CommittedGraph
    BY DEF Progress, ProgressOf, Placed, Linked, Stored, CommittedGraph,
           GraphIsStored, Kept, Internal
  <1> QED BY <1>1, ProgressHolds, PTL

(* It means the same of the vectors as long as they are kept in memory.    *)
THEOREM CommittedVectorsHold == IndexSpec => []CommittedVectors
  <1>1. Progress => CommittedVectors
    BY DEF Progress, ProgressOf, Stored, CommittedVectors, CommittedRows
  <1> QED BY <1>1, ProgressHolds, PTL

-----------------------------------------------------------------------------
LEMMA DanglingStep ==
  ASSUME IndexTypeOK, Control, Stamps, Progress, NothingDangles, IndexNext
  PROVE  NothingDangles'
  <1>1. PICK r \in Run : \/ LocalStep(r) \/ NodesStep(r) \/ EdgesStep(r)
                         \/ VectorsStep(r) \/ WalStep(r)
    BY StepKinds
  <1>2. /\ nodes \in [NodeId -> Run \cup {Null}]
        /\ edges \in [EdgeKey -> Run \cup {Null}]
        /\ vectors \in [NodeId -> Run \cup {Null}]
        /\ nodes' \in [NodeId -> Run \cup {Null}]
        /\ r # Null /\ Null \notin Run
    BY NullAssumption, TypeStep DEF IndexTypeOK
  <1>3. \A n \in NodeId : nodes[n] # Null => nodes'[n] # Null
    BY <1>1, <1>2, StoresGrow DEF Present
  <1>4. pc[r] \in {"edges", "vectors", "adding"} =>
          /\ content[r].nodes \subseteq Present(nodes)
          /\ content[r].vectors \subseteq content[r].nodes
    BY VectorsHaveNodes DEF Progress, ProgressOf, Placed, Linked, Control,
                            ControlOf, Active, Guarded
  <1>5. ASSUME NEW n \in NodeId, vectors'[n] # Null
        PROVE  nodes'[n] # Null
    <2>1. vectors[n] # Null \/ (pc[r] \in {"vectors", "adding"} /\ n \in content[r].vectors)
      BY <1>1, <1>2, <1>5, StoresStep DEF Upsert
    <2> QED BY <1>3, <1>4, <2>1 DEF NothingDangles, Present
  <1>6. ASSUME NEW e \in EdgeKey, edges'[e] # Null,
               e \in Internal(content'[edges'[e]])
        PROVE  nodes'[e[1]] # Null /\ nodes'[e[2]] # Null
    <2>1. e[1] \in NodeId /\ e[2] \in NodeId
      BY DEF EdgeKey
    <2>2. CASE edges'[e] = edges[e]
      <3>1. edges[e] \in Run /\ Stamped(edges[e])
        BY <1>2, <1>6, <2>2 DEF Stamped
      <3>2. content'[edges[e]] = content[edges[e]]
        BY <1>1, <3>1, RowsStay DEF Stamps
      <3> QED BY <1>3, <1>6, <2>1, <2>2, <3>2 DEF NothingDangles
    <2>3. CASE edges'[e] # edges[e]
      <3>1. edges'[e] = r /\ pc[r] = "edges"
        BY <1>1, <1>2, <2>3, StoresStep DEF Upsert
      <3>2. content'[r] = content[r]
        BY <1>1, <3>1, RowsStay, NullIsNoRecord, NullIsNoRow DEF Control, ControlOf, Guarded, Has
      <3>3. e[1] \in content[r].nodes /\ e[2] \in content[r].nodes
        BY <1>6, <3>1, <3>2 DEF Internal
      <3> QED BY <1>3, <1>4, <2>1, <3>1, <3>3 DEF Present
    <2> QED BY <2>2, <2>3
  <1> QED BY <1>5, <1>6 DEF NothingDangles, Internal

(* Nothing dangles: every vector has its node and every inner edge both    *)
(* its ends, whatever fails and interleaves.                               *)
THEOREM NothingDanglesHolds == IndexSpec => []NothingDangles
  <1>1. IndexInit => NothingDangles
    BY DEF IndexInit, NothingDangles
  <1>2. /\ IndexTypeOK /\ Control /\ Stamps /\ Progress /\ NothingDangles
        /\ [IndexNext]_indexVars
        => NothingDangles'
    <2>1. CASE UNCHANGED indexVars
      BY <2>1 DEF indexVars, stores, wal, NothingDangles, Internal
    <2> QED BY <2>1, DanglingStep
  <1> QED BY <1>1, <1>2, IndexTypeCorrect, StampsHold, ProgressHolds, PTL DEF IndexSpec

-----------------------------------------------------------------------------
(* A run writes only keys that a committed batch with the same content has *)
(* in the stores already.                                                  *)
LEMMA RerunStep ==
  ASSUME IndexTypeOK, Control, Progress, IndexNext,
         NEW r \in Run, InMemory, IsRerun(r), pc'[r] # pc[r]
  PROVE  Keys' = Keys
  <1>1. PICK s \in Run : \/ LocalStep(s) \/ NodesStep(s) \/ EdgesStep(s)
                         \/ VectorsStep(s) \/ WalStep(s)
    BY StepKinds
  <1>2. s = r
    BY <1>1, RowsStay
  <1>3. PICK q \in Run : Has(q, "committed") /\ content[q] = content[r]
    BY DEF IsRerun
  <1>4. /\ content[r].nodes \subseteq Present(nodes)
        /\ content[r].edges \subseteq Present(edges)
        /\ content[r].vectors \subseteq Present(vectors)
    BY <1>3 DEF Progress, ProgressOf, Placed, Linked, Stored, Kept, InMemory
  <1>5. /\ nodes \in [NodeId -> Run \cup {Null}] /\ nodes' \in [NodeId -> Run \cup {Null}]
        /\ edges \in [EdgeKey -> Run \cup {Null}] /\ edges' \in [EdgeKey -> Run \cup {Null}]
        /\ vectors \in [NodeId -> Run \cup {Null}] /\ vectors' \in [NodeId -> Run \cup {Null}]
        /\ r # Null
    BY NullAssumption, TypeStep DEF IndexTypeOK
  <1>6. /\ Present(nodes) \subseteq Present(nodes')
        /\ Present(edges) \subseteq Present(edges')
        /\ Present(vectors) \subseteq Present(vectors')
    BY <1>1, StoresGrow DEF InMemory
  <1>7. Present(nodes') \subseteq Present(nodes)
    BY <1>1, <1>2, <1>4, <1>5, StoresStep DEF Upsert, Present
  <1>8. Present(edges') \subseteq Present(edges)
    BY <1>1, <1>2, <1>4, <1>5, StoresStep DEF Upsert, Present, Storable, InMemory
  <1>9. Present(vectors') \subseteq Present(vectors)
    BY <1>1, <1>2, <1>4, <1>5, StoresStep DEF Upsert, Present, InMemory
  <1> QED
    BY <1>6, <1>7, <1>8, <1>9 DEF Keys, Present

(* Indexing again what a committed batch holds adds and removes nothing in *)
(* the in-memory stores, wherever the second run stops.                    *)
THEOREM RerunAddsNothingHolds == IndexSpec => RerunAddsNothing
  <1>1. IndexTypeOK /\ Control /\ Progress /\ [IndexNext]_indexVars =>
          [\A r \in Run : InMemory /\ IsRerun(r) /\ pc'[r] # pc[r]
                            => Keys' = Keys]_indexVars
    BY RerunStep
  <1> QED BY <1>1, IndexTypeCorrect, ProgressHolds, PTL DEF IndexSpec, RerunAddsNothing

-----------------------------------------------------------------------------
(* The indexer calls the manifest store as its contract allows, so what    *)
(* the contract promises holds of every index run.                         *)
LEMMA CallsTheManifest ==
  ASSUME IndexTypeOK, Control, [IndexNext]_indexVars
  PROVE  [Next]_vars
  <1>1. CASE UNCHANGED indexVars
    BY <1>1 DEF indexVars, wal, vars
  <1>2. CASE IndexNext
    <2>1. PICK r \in Run : \/ LocalStep(r) \/ NodesStep(r) \/ EdgesStep(r)
                           \/ VectorsStep(r) \/ WalStep(r)
      BY <1>2, StepKinds
    <2>2. CASE ~WalStep(r)
      BY <2>1, <2>2 DEF LocalStep, Start, Read, Parse, ExtractRig, Embed,
         PrepareThrows, RecordThrows, FinishThrows, MarkFailedThrows, Crash,
         NodesStep, UpsertNodes, UpsertNodesThrows, EdgesStep, UpsertEdges,
         UpsertEdgesThrows, VectorsStep, UpsertVectors, AddVectors,
         UpsertVectorsThrows, wal, vars
    <2>3. CASE Record(r)
      <3>1. input[r] \in Input
        BY <2>3 DEF Record, Control, ControlOf
      <3>2. [run |-> input[r].run, status |-> "pending",
             createdAt |-> input[r].startedAt, committedAt |-> Null]
              \in BatchManifest
        BY <3>1 DEF Input, BatchManifest, Status
      <3> QED BY <2>3, <3>2 DEF Record, Next
    <2>4. ASSUME NEW now \in Time, Finish(r, now) \/ MarkFailed(r, now)
          PROVE  Next
      BY <2>4 DEF Finish, MarkFailed, Outcome, Status, Next
    <2> QED BY <2>1, <2>2, <2>3, <2>4 DEF WalStep
  <1> QED BY <1>1, <1>2

THEOREM KeepsTheContract == IndexSpec => Spec
  <1>1. IndexInit => Init
    BY DEF IndexInit
  <1> QED BY <1>1, CallsTheManifest, IndexTypeCorrect, PTL DEF IndexSpec, Spec

(* Overlapping, failing and crashing index runs leave an audit trail that  *)
(* explains every batch, and never touch a resolved one again.             *)
THEOREM RunsAreAudited ==
  IndexSpec => []AuditTrail /\ []CommitStamp /\ TerminalIsFinal
  <1> QED
    BY KeepsTheContract, AuditTrailHolds, CommitStampHolds, TerminalHolds, PTL

-----------------------------------------------------------------------------
(***************************************************************************)
(* Import paths: the walk over a specifier ends where counting says.       *)
(***************************************************************************)

LEMMA LeastNatural ==
  ASSUME NEW S \in SUBSET Nat, S # {}
  PROVE  \E n \in S : \A m \in S : n <= m
<1> DEFINE R == OpToRel(<, Nat)
<1>1. IsWellFoundedOn(R, Nat)
  BY NatLessThanWellFounded
<1>2. \A x, y \in Nat : <<x, y>> \in R <=> x < y
  BY DEF OpToRel
<1> HIDE DEF R
<1>3. PICK n \in S : \A m \in S : ~(<<m, n>> \in R)
  BY <1>1, WFMin
<1>4. \A m \in S : ~(m < n)
  BY <1>2, <1>3, Zenon
<1> QED
  BY <1>4

LEMMA SetInduction ==
  ASSUME NEW S, 0 \in S, \A n \in Nat : n \in S => n + 1 \in S
  PROVE  Nat \subseteq S
<1> SUFFICES ASSUME Nat \ S # {} PROVE FALSE
  OBVIOUS
<1>1. PICK n \in Nat \ S : \A m \in Nat \ S : n <= m
  BY LeastNatural
<1>2. n # 0 /\ n - 1 \in Nat
  BY <1>1
<1>3. n - 1 \in S
  BY <1>1, <1>2
<1> QED
  BY <1>1, <1>2, <1>3

-----------------------------------------------------------------------------
(* The walk is what its recursive definition says after each segment.      *)
LEMMA WalkedUnfolds ==
  ASSUME NEW s, Len(Whole(s)) \in Nat
  PROVE  /\ Walked(s)[0] = <<>>
         /\ \A k \in 1..Len(Whole(s)) : Walked(s)[k] = Walk(Walked(s)[k - 1], Whole(s)[k])
<1> DEFINE N == Len(Whole(s))
           Solves(f, n) ==
             f = [k \in 0..n |-> IF k = 0 THEN <<>> ELSE Walk(f[k - 1], Whole(s)[k])]
           S == {n \in Nat : \E f : Solves(f, n)}
<1>1. 0 \in S
  <2>1. Solves([k \in 0..0 |-> <<>>], 0)
    OBVIOUS
  <2> QED
    BY <2>1
<1>2. ASSUME NEW n \in Nat, n \in S
      PROVE  n + 1 \in S
  <2>1. PICK f : Solves(f, n)
    BY <1>2
  <2> DEFINE g == [k \in 0..(n + 1) |->
                     IF k <= n THEN f[k] ELSE Walk(f[n], Whole(s)[n + 1])]
  <2>2. \A k \in 0..(n + 1) :
          g[k] = IF k = 0 THEN <<>> ELSE Walk(g[k - 1], Whole(s)[k])
    BY <2>1
  <2>3. Solves(g, n + 1)
    BY <2>2
  <2> HIDE DEF g
  <2> QED
    BY <2>3
<1>3. PICK f : Solves(f, N)
  BY <1>1, <1>2, SetInduction
<1>4. Solves(Walked(s), N)
  BY <1>3 DEF Walked
<1> QED
  BY <1>4

LEMMA WholeTyped ==
  ASSUME ImportPathsAssumption, NEW s \in Specifier
  PROVE  /\ Whole(s) \in Seq(Segment \cup Dots) /\ Len(Whole(s)) \in Nat
         /\ Len(Whole(s)) >= 1 /\ DOMAIN Whole(s) = 1..Len(Whole(s))
         /\ \A k \in 1..Len(Whole(s)) : Whole(s)[k] \in Segment \cup Dots
         /\ Whole(s)[Len(Whole(s))] \in Dots => s.ext = "none"
         /\ s.ext \in Ext
<1>1. PICK n \in 1..MaxSegments : s.segs \in [1..n -> Segment \cup Dots]
  BY DEF Specifier
<1>2. s.ext \in Ext /\ (s.segs[Len(s.segs)] \in Dots => s.ext = "none")
  BY DEF Specifier, Seqs!Last
<1>3. n \in Nat /\ n >= 1
  BY DEF ImportPathsAssumption
<1>4. s.segs \in Seq(Segment \cup Dots) /\ Len(s.segs) = n
  BY <1>1, <1>3
<1>5. Dir \in Seq(Segment \cup Dots) /\ Len(Dir) \in Nat
  BY DEF ImportPathsAssumption
<1>6. /\ Whole(s) \in Seq(Segment \cup Dots) /\ Len(Whole(s)) = Len(Dir) + n
      /\ Whole(s)[Len(Dir) + n] = s.segs[n]
  BY <1>3, <1>4, <1>5 DEF Whole
<1> QED
  BY <1>2, <1>3, <1>4, <1>5, <1>6

-----------------------------------------------------------------------------
(* The depth after k segments.                                             *)
Depth(s, k) == Down(s, k) - Up(s, k)

LEMMA CountGrows ==
  ASSUME NEW k \in Nat, NEW A \in SUBSET Nat, NEW B \in SUBSET Nat,
         A \subseteq 1..k, B = A \/ B = A \cup {k + 1}
  PROVE  /\ Cardinality(A) \in Nat
         /\ Cardinality(B) = Cardinality(A) + IF B = A THEN 0 ELSE 1
<1>1. IsFiniteSet(A)
  <2>1. IsFiniteSet(1..k)
    BY FS_Interval
  <2> QED
    BY <2>1, FS_Subset
<1>2. Cardinality(A) \in Nat
  BY <1>1, FS_CardinalityType
<1>3. ASSUME B = A \cup {k + 1} PROVE B # A /\ Cardinality(B) = Cardinality(A) + 1
  <2>1. k + 1 \notin A
    OBVIOUS
  <2> QED
    BY <1>1, <1>3, <2>1, FS_AddElement
<1> QED
  BY <1>2, <1>3

LEMMA DepthSteps ==
  ASSUME NEW s
  PROVE  /\ Depth(s, 0) = 0
         /\ \A k \in Nat : Up(s, k) \in Nat /\ Down(s, k) \in Nat
         /\ \A k \in Nat : Depth(s, k) \in Int /\
              Depth(s, k + 1) = CASE Whole(s)[k + 1] = "." -> Depth(s, k)
                                  [] Whole(s)[k + 1] = ".." -> Depth(s, k) - 1
                                  [] OTHER -> Depth(s, k) + 1
<1> DEFINE U(k) == {j \in 1..k : Whole(s)[j] = ".."}
           D(k) == {j \in 1..k : Whole(s)[j] \notin Dots}
<1>1. \A k : Up(s, k) = Cardinality(U(k)) /\ Down(s, k) = Cardinality(D(k))
  BY DEF Up, Down
<1>2. Depth(s, 0) = 0
  <2>1. U(0) = {} /\ D(0) = {}
    OBVIOUS
  <2> QED
    BY <1>1, <2>1, FS_EmptySet DEF Depth
<1>3. ASSUME NEW k \in Nat
      PROVE  Up(s, k) \in Nat /\ Down(s, k) \in Nat /\ Depth(s, k) \in Int /\
              Depth(s, k + 1) = CASE Whole(s)[k + 1] = "." -> Depth(s, k)
                                  [] Whole(s)[k + 1] = ".." -> Depth(s, k) - 1
                                  [] OTHER -> Depth(s, k) + 1
  <2>1. /\ U(k) \in SUBSET Nat /\ U(k + 1) \in SUBSET Nat /\ U(k) \subseteq 1..k
        /\ D(k) \in SUBSET Nat /\ D(k + 1) \in SUBSET Nat /\ D(k) \subseteq 1..k
    OBVIOUS
  <2>2. U(k + 1) = IF Whole(s)[k + 1] = ".." THEN U(k) \cup {k + 1} ELSE U(k)
    OBVIOUS
  <2>3. D(k + 1) = IF Whole(s)[k + 1] \notin Dots THEN D(k) \cup {k + 1} ELSE D(k)
    OBVIOUS
  <2>4. k + 1 \notin U(k) /\ k + 1 \notin D(k)
    OBVIOUS
  <2> HIDE DEF U, D
  <2>5. /\ Cardinality(U(k)) \in Nat
        /\ Cardinality(U(k + 1)) = Cardinality(U(k)) + IF U(k + 1) = U(k) THEN 0 ELSE 1
    BY <2>1, <2>2, CountGrows
  <2>6. /\ Cardinality(D(k)) \in Nat
        /\ Cardinality(D(k + 1)) = Cardinality(D(k)) + IF D(k + 1) = D(k) THEN 0 ELSE 1
    BY <2>1, <2>3, CountGrows
  <2>7. (U(k + 1) = U(k) <=> Whole(s)[k + 1] # "..")
        /\ (D(k + 1) = D(k) <=> Whole(s)[k + 1] \in Dots)
    BY <2>2, <2>3, <2>4
  <2>8. Depth(s, k) = Cardinality(D(k)) - Cardinality(U(k))
        /\ Depth(s, k + 1) = Cardinality(D(k + 1)) - Cardinality(U(k + 1))
    BY <1>1 DEF Depth
  <2> QED
    BY <1>1, <2>5, <2>6, <2>7, <2>8 DEF Dots
<1> QED
  BY <1>2, <1>3

(***************************************************************************)
(* What the walk has after k segments: the names that stand, each at the   *)
(* depth it is reached at; or nothing, once it has climbed too far.        *)
(***************************************************************************)
StandsTo(s, i, k) ==
  Whole(s)[i] \notin Dots /\ \A j \in i..k : Depth(s, j) >= Depth(s, i)

Positions(s, k, pos) ==
  /\ pos \in [1..Depth(s, k) -> 1..k]
  /\ \A h \in 1..Depth(s, k) : Depth(s, pos[h]) = h
  /\ \A g, h \in 1..Depth(s, k) : g < h => pos[g] < pos[h]
  /\ \A i \in 1..k : StandsTo(s, i, k) <=> \E h \in 1..Depth(s, k) : i = pos[h]

Holding(s, k, pos) ==
  /\ Walked(s)[k] \in Seq(Segment) /\ Len(Walked(s)[k]) = Depth(s, k)
  /\ \A h \in 1..Depth(s, k) : Walked(s)[k][h] = Whole(s)[pos[h]]

Climbed(s, k) == \E j \in 1..k : Depth(s, j) < 0

WalkedTo(s, k) ==
  /\ Climbed(s, k) => Walked(s)[k] = Nowhere
  /\ ~Climbed(s, k) =>
       /\ Depth(s, k) \in Nat
       /\ \E pos : Positions(s, k, pos) /\ Holding(s, k, pos)

LEMMA WalkBegins ==
  ASSUME ImportPathsAssumption, NEW s \in Specifier
  PROVE  WalkedTo(s, 0)
<1>1. Walked(s)[0] = <<>> /\ Depth(s, 0) = 0 /\ 1..0 = {}
  BY WalkedUnfolds, WholeTyped, DepthSteps
<1> DEFINE pos == [h \in 1..0 |-> 1]
<1>2. Positions(s, 0, pos)
  BY <1>1 DEF Positions
<1>3. Holding(s, 0, pos)
  <2>1. <<>> \in Seq(Segment) /\ Len(<<>>) = 0
    OBVIOUS
  <2> QED
    BY <1>1, <2>1 DEF Holding
<1>4. ~Climbed(s, 0) /\ Depth(s, 0) \in Nat
  BY <1>1 DEF Climbed
<1> QED
  BY <1>2, <1>3, <1>4 DEF WalkedTo

LEMMA WalkIsLost ==
  ASSUME ImportPathsAssumption, NEW s \in Specifier, NEW k \in 0..(Len(Whole(s)) - 1),
         WalkedTo(s, k), Climbed(s, k)
  PROVE  WalkedTo(s, k + 1)
<1>1. k \in Nat /\ k + 1 \in 1..Len(Whole(s)) /\ (k + 1) - 1 = k
  BY WholeTyped
<1>2. Walked(s)[k + 1] = Walk(Walked(s)[k], Whole(s)[k + 1])
  BY <1>1, WalkedUnfolds, WholeTyped
<1>3. Climbed(s, k + 1)
  BY <1>1 DEF Climbed
<1> QED
  BY <1>2, <1>3 DEF WalkedTo, Walk

LEMMA WalkSteps ==
  ASSUME ImportPathsAssumption, NEW s \in Specifier, NEW k \in 0..(Len(Whole(s)) - 1),
         WalkedTo(s, k), ~Climbed(s, k)
  PROVE  WalkedTo(s, k + 1)
<1> DEFINE w == Whole(s)[k + 1]
           d == Depth(s, k)
           e == Depth(s, k + 1)
           p == Walked(s)[k]
<1>1. k \in Nat /\ k + 1 \in 1..Len(Whole(s)) /\ (k + 1) - 1 = k
  BY WholeTyped
<1>2. Walked(s)[k + 1] = Walk(p, w)
  BY <1>1, WalkedUnfolds, WholeTyped
<1>3. w \in Segment \cup Dots /\ Segment \cap Dots = {} /\ Dots = {".", ".."}
      /\ Nowhere \notin Seq(Segment)
  BY <1>1, WholeTyped DEF ImportPathsAssumption, Dots
<1>4. \A j \in Nat : Depth(s, j) \in Int
  BY DepthSteps
<1>5. e = CASE w = "." -> d [] w = ".." -> d - 1 [] OTHER -> d + 1
  BY <1>1, DepthSteps
<1>6. \A j \in 1..k : Depth(s, j) >= 0
  BY <1>4 DEF Climbed
<1>7. d \in Nat /\ \E pos : Positions(s, k, pos) /\ Holding(s, k, pos)
  BY DEF WalkedTo
<1>8. PICK pos : Positions(s, k, pos) /\ Holding(s, k, pos)
  BY <1>7
<1>9. /\ pos \in [1..d -> 1..k]
      /\ \A h \in 1..d : Depth(s, pos[h]) = h
      /\ \A g, h \in 1..d : g < h => pos[g] < pos[h]
      /\ \A i \in 1..k : StandsTo(s, i, k) <=> \E h \in 1..d : i = pos[h]
  BY <1>8 DEF Positions
<1>10. p \in Seq(Segment) /\ Len(p) = d /\ \A h \in 1..d : p[h] = Whole(s)[pos[h]]
  BY <1>8 DEF Holding
<1>11. Climbed(s, k + 1) <=> e < 0
  <2>1. \A j \in 1..(k + 1) : j \in 1..k \/ j = k + 1
    BY <1>1
  <2> QED
    BY <2>1, <1>1, <1>4, <1>6 DEF Climbed
<1>12. \A i \in 1..k : StandsTo(s, i, k + 1) <=> StandsTo(s, i, k) /\ e >= Depth(s, i)
  <2> SUFFICES ASSUME NEW i \in 1..k
               PROVE  StandsTo(s, i, k + 1) <=> StandsTo(s, i, k) /\ e >= Depth(s, i)
    OBVIOUS
  <2>1. \A j : j \in i..(k + 1) <=> j \in i..k \/ j = k + 1
    BY <1>1
  <2> QED
    BY <2>1 DEF StandsTo
<1>13. StandsTo(s, k + 1, k + 1) <=> w \notin Dots
  <2>1. (k + 1)..(k + 1) = {k + 1} /\ e >= e
    BY <1>1, <1>4
  <2> QED
    BY <2>1 DEF StandsTo
<1>14. \A i \in 1..k : StandsTo(s, i, k) => d >= Depth(s, i)
  BY <1>1 DEF StandsTo
<1> HIDE DEF w, d, e, p
<1>20. CASE w = "."
  <2>1. e = d /\ Walked(s)[k + 1] = p /\ ~Climbed(s, k + 1)
    <3>1. p # Nowhere
      BY <1>3, <1>10
    <3> QED
      BY <3>1, <1>2, <1>5, <1>7, <1>11, <1>20 DEF Walk
  <2>2. \A i \in 1..(k + 1) : StandsTo(s, i, k + 1) <=> \E h \in 1..d : i = pos[h]
    <3>1. \A i \in 1..k : StandsTo(s, i, k + 1) <=> StandsTo(s, i, k)
      BY <2>1, <1>12, <1>14
    <3>2. \A h \in 1..d : pos[h] # k + 1
      BY <1>1, <1>9
    <3> QED
      BY <3>1, <3>2, <1>1, <1>3, <1>9, <1>13, <1>20
  <2>3. pos \in [1..d -> 1..(k + 1)]
    BY <1>1, <1>9
  <2>4. Positions(s, k + 1, pos)
    BY <2>1, <2>2, <2>3, <1>9 DEF Positions, e
  <2>5. Holding(s, k + 1, pos)
    BY <2>1, <1>10 DEF Holding, e
  <2> QED
    BY <2>1, <2>4, <2>5, <1>7 DEF WalkedTo, e
<1>21. CASE w = ".."
  <2>1. e = d - 1 /\ Walked(s)[k + 1] = IF p = <<>> THEN Nowhere ELSE SubSeq(p, 1, d - 1)
    <3>1. p # Nowhere
      BY <1>3, <1>10
    <3> QED
      BY <3>1, <1>2, <1>5, <1>10, <1>21 DEF Walk, Seqs!Front
  <2>2. CASE d = 0
    <3>1. p = <<>>
      BY <2>2, <1>10
    <3>2. Climbed(s, k + 1)
      BY <2>1, <2>2, <1>11
    <3> QED
      BY <2>1, <3>1, <3>2 DEF WalkedTo
  <2>3. CASE d > 0
    <3>1. e \in Nat /\ e < d /\ p # <<>> /\ ~Climbed(s, k + 1)
      BY <2>1, <2>3, <1>7, <1>10, <1>11
    <3> DEFINE q == [h \in 1..e |-> pos[h]]
    <3>2. /\ q \in [1..e -> 1..(k + 1)]
          /\ \A h \in 1..e : q[h] = pos[h] /\ h \in 1..d
      BY <3>1, <1>1, <1>7, <1>9
    <3>3. \A i \in 1..(k + 1) : StandsTo(s, i, k + 1) <=> \E h \in 1..e : i = pos[h]
      <4>1. \A i \in 1..k : StandsTo(s, i, k + 1) <=> \E h \in 1..d : i = pos[h] /\ e >= h
        BY <1>9, <1>12
      <4>2. \A h \in 1..d : e >= h <=> h \in 1..e
        BY <3>1, <1>7
      <4>3. \A h \in 1..e : pos[h] # k + 1 /\ pos[h] \in 1..k
        BY <3>2, <1>1, <1>9
      <4> QED
        BY <4>1, <4>2, <4>3, <3>2, <1>1, <1>3, <1>13, <1>21
    <3> HIDE DEF q
    <3>4. Positions(s, k + 1, q)
      BY <3>2, <3>3, <1>9 DEF Positions, e
    <3>5. Walked(s)[k + 1] = SubSeq(p, 1, e)
      BY <2>1, <3>1
    <3>6. /\ SubSeq(p, 1, e) \in Seq(Segment) /\ Len(SubSeq(p, 1, e)) = e
          /\ \A h \in 1..e : SubSeq(p, 1, e)[h] = p[h]
      BY <3>1, <1>7, <1>10
    <3>7. Holding(s, k + 1, q)
      BY <3>2, <3>5, <3>6, <1>10 DEF Holding, e
    <3> QED
      BY <3>1, <3>4, <3>7 DEF WalkedTo, e
  <2> QED
    BY <2>2, <2>3, <1>7
<1>22. CASE w \notin Dots
  <2>1. e = d + 1 /\ Walked(s)[k + 1] = Append(p, w) /\ ~Climbed(s, k + 1) /\ e \in Nat /\ w \in Segment
    <3>1. p # Nowhere /\ w # "." /\ w # ".."
      BY <1>3, <1>10, <1>22
    <3> QED
      BY <3>1, <1>2, <1>3, <1>5, <1>7, <1>11, <1>22 DEF Walk
  <2> DEFINE q == [h \in 1..e |-> IF h = e THEN k + 1 ELSE pos[h]]
  <2>2. /\ q \in [1..e -> 1..(k + 1)] /\ q[e] = k + 1 /\ e \in 1..e
        /\ \A h \in 1..d : q[h] = pos[h] /\ h \in 1..e
        /\ \A h \in 1..e : h = e \/ h \in 1..d
    BY <2>1, <1>1, <1>7, <1>9
  <2> HIDE DEF q
  <2>3. \A i \in 1..(k + 1) : StandsTo(s, i, k + 1) <=> \E h \in 1..e : i = q[h]
    <3>1. \A i \in 1..k : StandsTo(s, i, k + 1) <=> StandsTo(s, i, k)
      <4>1. \A i \in 1..k : d >= Depth(s, i) => e >= Depth(s, i)
        <5> SUFFICES ASSUME NEW i \in 1..k, d >= Depth(s, i) PROVE e >= Depth(s, i)
          OBVIOUS
        <5>1. Depth(s, i) \in Int
          BY <1>4, <1>1
        <5> QED
          BY <5>1, <2>1, <1>7
      <4> QED
        BY <4>1, <1>12, <1>14
    <3>2. \A i \in 1..k : (\E h \in 1..d : i = pos[h]) <=> (\E h \in 1..e : i = q[h])
      <4> SUFFICES ASSUME NEW i \in 1..k
                   PROVE  (\E h \in 1..d : i = pos[h]) <=> (\E h \in 1..e : i = q[h])
        OBVIOUS
      <4>1. i # k + 1
        BY <1>1
      <4>2. ASSUME NEW h \in 1..d, i = pos[h] PROVE \E g \in 1..e : i = q[g]
        BY <4>2, <2>2
      <4>3. ASSUME NEW h \in 1..e, i = q[h] PROVE \E g \in 1..d : i = pos[g]
        <5>1. h # e
          BY <4>1, <4>3, <2>2
        <5>2. h \in 1..d
          BY <5>1, <2>2
        <5> QED
          BY <5>2, <4>3, <2>2
      <4> QED
        BY <4>2, <4>3
    <3>3. StandsTo(s, k + 1, k + 1) /\ \E h \in 1..e : k + 1 = q[h]
      BY <2>2, <1>13, <1>22
    <3>4. \A i \in 1..(k + 1) : i \in 1..k \/ i = k + 1
      BY <1>1
    <3> QED
      BY <3>1, <3>2, <3>3, <3>4, <1>9
  <2>4. \A h \in 1..e : Depth(s, q[h]) = h
    BY <2>1, <2>2, <1>9 DEF e
  <2>5. \A g, h \in 1..e : g < h => q[g] < q[h]
    <3> SUFFICES ASSUME NEW g \in 1..e, NEW h \in 1..e, g < h PROVE q[g] < q[h]
      OBVIOUS
    <3>1. g \in 1..d /\ q[g] = pos[g] /\ pos[g] \in 1..k
      BY <2>1, <2>2, <1>7, <1>9
    <3>2. CASE h = e
      BY <3>1, <3>2, <2>2, <1>1
    <3>3. CASE h \in 1..d
      <4>1. pos[g] < pos[h] /\ q[h] = pos[h]
        BY <3>1, <3>3, <2>2, <1>9
      <4> QED
        BY <4>1, <3>1
    <3> QED
      BY <3>2, <3>3, <2>2
  <2>6. Positions(s, k + 1, q)
    BY <2>2, <2>3, <2>4, <2>5 DEF Positions, e
  <2>7. /\ Append(p, w) \in Seq(Segment) /\ Len(Append(p, w)) = e /\ Append(p, w)[e] = w
        /\ \A h \in 1..d : Append(p, w)[h] = p[h]
    BY <2>1, <1>7, <1>10
  <2>8. Holding(s, k + 1, q)
    BY <2>1, <2>2, <2>7, <1>10 DEF Holding, e, w
  <2> QED
    BY <2>1, <2>6, <2>8 DEF WalkedTo, e
<1> QED
  BY <1>3, <1>20, <1>21, <1>22

LEMMA WalkArrives ==
  ASSUME ImportPathsAssumption, NEW s \in Specifier
  PROVE  WalkedTo(s, Len(Whole(s)))
<1> DEFINE N == Len(Whole(s))
           S == {k \in Nat : k <= N => WalkedTo(s, k)}
<1>1. N \in Nat
  BY WholeTyped
<1>2. 0 \in S
  BY WalkBegins
<1>3. ASSUME NEW k \in Nat, k \in S PROVE k + 1 \in S
  <2>1. k + 1 <= N => k \in 0..(N - 1) /\ WalkedTo(s, k)
    BY <1>1, <1>3
  <2> QED
    BY <2>1, WalkSteps, WalkIsLost
<1> HIDE DEF S
<1>4. N \in S
  BY <1>1, <1>2, <1>3, SetInduction
<1> QED
  BY <1>1, <1>4 DEF S

-----------------------------------------------------------------------------
(* The names that stand, counted, are the path walked to.                  *)
LEMMA PlacesCount ==
  ASSUME NEW d \in Nat, NEW N \in Nat, NEW pos \in [1..d -> 1..N],
         \A g, h \in 1..d : g < h => pos[g] < pos[h]
  PROVE  \A h \in 0..d : Cardinality({pos[g] : g \in 1..h}) = h
<1> DEFINE T(n) == {pos[g] : g \in 1..n}
           S == {n \in Nat : n <= d => IsFiniteSet(T(n)) /\ Cardinality(T(n)) = n}
<1>1. 0 \in S
  <2>1. T(0) = {}
    OBVIOUS
  <2> QED
    BY <2>1, FS_EmptySet
<1>2. ASSUME NEW n \in Nat, n \in S PROVE n + 1 \in S
  <2> SUFFICES ASSUME n + 1 <= d
               PROVE  IsFiniteSet(T(n + 1)) /\ Cardinality(T(n + 1)) = n + 1
    OBVIOUS
  <2>1. T(n + 1) = T(n) \cup {pos[n + 1]}
    <3>1. 1..(n + 1) = 1..n \cup {n + 1}
      OBVIOUS
    <3> QED
      BY <3>1
  <2>2. pos[n + 1] \notin T(n)
    <3>1. \A g \in 1..n : g \in 1..d /\ g < n + 1 /\ n + 1 \in 1..d
      OBVIOUS
    <3>2. \A g \in 1..n : pos[g] < pos[n + 1] /\ pos[g] \in Nat /\ pos[n + 1] \in Nat
      BY <3>1
    <3> QED
      BY <3>2
  <2>3. IsFiniteSet(T(n)) /\ Cardinality(T(n)) = n
    BY <1>2
  <2> HIDE DEF T
  <2>4. IsFiniteSet(T(n) \cup {pos[n + 1]})
        /\ Cardinality(T(n) \cup {pos[n + 1]}) = Cardinality(T(n)) + 1
    BY <2>2, <2>3, FS_AddElement
  <2> QED
    BY <2>1, <2>3, <2>4
<1> HIDE DEF S, T
<1>3. Nat \subseteq S
  BY <1>1, <1>2, SetInduction
<1>4. \A h \in 0..d : h \in S /\ h <= d
  BY <1>3
<1> QED
  BY <1>4 DEF S, T

LEMMA DestinationIsWalked ==
  ASSUME ImportPathsAssumption, NEW s \in Specifier, ~Climbed(s, Len(Whole(s)))
  PROVE  Destination(s) = Parts(s) /\ Parts(s) \in Seq(Segment)
<1> DEFINE N == Len(Whole(s))
           d == Depth(s, N)
           Standing(i) == {j \in 1..i : Stands(s, j)}
<1>1. N \in Nat /\ DOMAIN Whole(s) = 1..N
  BY WholeTyped
<1>2. d \in Nat /\ \E pos : Positions(s, N, pos) /\ Holding(s, N, pos)
  BY WalkArrives DEF WalkedTo
<1>3. PICK pos : Positions(s, N, pos) /\ Holding(s, N, pos)
  BY <1>2
<1>4. \A i : Stands(s, i) <=> StandsTo(s, i, N)
  BY DEF Stands, StandsTo, Depth
<1> HIDE DEF N, d
<1>5. /\ pos \in [1..d -> 1..N]
      /\ \A g, h \in 1..d : g < h => pos[g] < pos[h]
      /\ \A i \in 1..N : Stands(s, i) <=> \E h \in 1..d : i = pos[h]
  BY <1>3, <1>4 DEF Positions, d
<1>6. /\ Parts(s) \in Seq(Segment) /\ Len(Parts(s)) = d
      /\ \A h \in 1..d : Parts(s)[h] = Whole(s)[pos[h]]
  BY <1>3 DEF Holding, d, Parts, N
<1>12. \A h \in 0..d : Cardinality({pos[g] : g \in 1..h}) = h
  <2>1. d \in Nat
    BY <1>2 DEF d
  <2> QED
    BY <2>1, <1>1, <1>5, PlacesCount, ZenonT(40)
<1>7. ASSUME NEW h \in 1..d
      PROVE  Cardinality(Standing(pos[h])) = h
  <2>1. ASSUME NEW g \in 1..d PROVE pos[g] <= pos[h] <=> g <= h
    <3>1. pos[g] \in Nat /\ pos[h] \in Nat
      BY <1>5
    <3>2. (g < h => pos[g] < pos[h]) /\ (h < g => pos[h] < pos[g])
      BY <1>5
    <3> QED
      BY <3>1, <3>2
  <2>2. Standing(pos[h]) = {pos[g] : g \in 1..h}
    <3>1. \A j \in Standing(pos[h]) : \E g \in 1..h : j = pos[g]
      <4> SUFFICES ASSUME NEW j \in Standing(pos[h]) PROVE \E g \in 1..h : j = pos[g]
        OBVIOUS
      <4> HIDE DEF Standing
      <4>5. pos[h] \in 1..N
        BY <1>5
      <4>6. j \in 1..pos[h] /\ Stands(s, j)
        BY DEF Standing
      <4>1. j \in 1..N /\ Stands(s, j) /\ j <= pos[h]
        BY <4>5, <4>6, <1>1
      <4>2. PICK g \in 1..d : j = pos[g]
        BY <4>1, <1>5
      <4>3. g \in 1..h
        BY <4>1, <4>2, <2>1
      <4> QED
        BY <4>2, <4>3
    <3>2. \A g \in 1..h : pos[g] \in Standing(pos[h])
      <4> SUFFICES ASSUME NEW g \in 1..h PROVE pos[g] \in Standing(pos[h])
        OBVIOUS
      <4>1. g \in 1..d /\ pos[g] \in 1..N /\ pos[h] \in 1..N
        BY <1>2, <1>5 DEF d
      <4>2. Stands(s, pos[g]) /\ pos[g] <= pos[h]
        BY <4>1, <2>1, <1>5
      <4> QED
        BY <4>1, <4>2
    <3> QED
      BY <3>1, <3>2
  <2>3. h \in 0..d /\ d \in Nat
    BY <1>2 DEF d
  <2>4. Cardinality({pos[g] : g \in 1..h}) = h
    BY <2>3, <1>12
  <2> QED
    BY <2>2, <2>4
<1>8. Cardinality({i \in DOMAIN Whole(s) : Stands(s, i)}) = d
  <2>1. {i \in DOMAIN Whole(s) : Stands(s, i)} = {pos[g] : g \in 1..d}
    BY <1>1, <1>5
  <2>2. d \in 0..d /\ d \in Nat
    BY <1>2 DEF d
  <2> QED
    BY <2>1, <2>2, <1>12
<1>9. ASSUME NEW k \in 1..d
      PROVE  (CHOOSE i \in DOMAIN Whole(s) : Stands(s, i) /\ Cardinality(Standing(i)) = k) = pos[k]
  <2>1. pos[k] \in DOMAIN Whole(s) /\ Stands(s, pos[k]) /\ Cardinality(Standing(pos[k])) = k
    BY <1>1, <1>5, <1>7
  <2>2. ASSUME NEW i \in DOMAIN Whole(s), Stands(s, i), Cardinality(Standing(i)) = k
        PROVE  i = pos[k]
    <3>1. PICK h \in 1..d : i = pos[h]
      BY <2>2, <1>1, <1>5
    <3> QED
      BY <3>1, <2>2, <1>7
  <2> HIDE DEF Standing
  <2> QED
    BY <2>1, <2>2
<1>10. Destination(s) = [k \in 1..d |-> Whole(s)[pos[k]]]
  <2>1. Destination(s) = [k \in 1..Cardinality({i \in DOMAIN Whole(s) : Stands(s, i)}) |->
          Whole(s)[CHOOSE i \in DOMAIN Whole(s) : Stands(s, i) /\ Cardinality(Standing(i)) = k]]
    BY DEF Destination
  <2>2. Destination(s) = [k \in 1..d |->
          Whole(s)[CHOOSE i \in DOMAIN Whole(s) : Stands(s, i) /\ Cardinality(Standing(i)) = k]]
    BY <2>1, <1>8, Zenon
  <2> DEFINE Nth(k) == CHOOSE i \in DOMAIN Whole(s) : Stands(s, i) /\ Cardinality(Standing(i)) = k
  <2>3. \A k \in 1..d : Nth(k) = pos[k]
    BY <1>9
  <2>4. Destination(s) = [k \in 1..d |-> Whole(s)[Nth(k)]]
    BY <2>2
  <2> HIDE DEF Nth
  <2> QED
    BY <2>3, <2>4
<1>11. Parts(s) = [k \in 1..d |-> Whole(s)[pos[k]]]
  <2>1. Parts(s) = [k \in 1..d |-> Parts(s)[k]]
    BY <1>6
  <2> QED
    BY <2>1, <1>6
<1> QED
  BY <1>6, <1>10, <1>11

LEMMA ResolveIsNamed ==
  ASSUME ImportPathsAssumption, NEW s \in Specifier
  PROVE  /\ Names(s) => Resolve(s) = Named(s) /\ Named(s) # Nowhere
         /\ ~Names(s) => Resolve(s) = Nowhere
<1> DEFINE N == Len(Whole(s))
<1>1. /\ N \in Nat /\ N >= 1 /\ DOMAIN Whole(s) = 1..N
      /\ Whole(s)[N] \in Dots => s.ext = "none"
  BY WholeTyped
<1>2. Escapes(s) <=> Climbed(s, N)
  <2>1. \A k \in 1..N : Up(s, k) > Down(s, k) <=> Depth(s, k) < 0
    <3> SUFFICES ASSUME NEW k \in 1..N PROVE Up(s, k) > Down(s, k) <=> Depth(s, k) < 0
      OBVIOUS
    <3>1. Up(s, k) \in Nat /\ Down(s, k) \in Nat
      BY DepthSteps, <1>1
    <3> QED
      BY <3>1 DEF Depth
  <2> QED
    BY <2>1, <1>1 DEF Escapes, Climbed
<1>3. Climbed(s, N) => Parts(s) = Nowhere
  BY WalkArrives DEF WalkedTo, Parts
<1>4. ~Climbed(s, N) => Destination(s) = Parts(s) /\ Parts(s) \in Seq(Segment)
  BY DestinationIsWalked
<1>5. ToTypeScript(s.ext) # Nowhere => s.ext # "none" /\ ToTypeScript(s.ext) \in Ext
  BY DEF ToTypeScript, Ext
<1>6. ASSUME ~Climbed(s, N), s.ext # "none"
      PROVE  Parts(s) # <<>>
  <2>1. PICK pos : Positions(s, N, pos) /\ Holding(s, N, pos)
    BY <1>6, WalkArrives DEF WalkedTo
  <2>2. StandsTo(s, N, N)
    <3>1. N..N = {N} /\ Depth(s, N) \in Int
      BY <1>1, DepthSteps
    <3> QED
      BY <3>1, <1>1, <1>6 DEF StandsTo
  <2>3. \E h \in 1..Depth(s, N) : N = pos[h]
    BY <2>1, <2>2, <1>1 DEF Positions
  <2>4. Len(Parts(s)) = Depth(s, N) /\ Depth(s, N) # 0
    BY <2>1, <2>3 DEF Holding, Parts
  <2> QED
    BY <2>4
<1>7. Nowhere \notin Seq(Segment) /\ Nowhere \notin [segs: Seq(Segment), ext: Ext]
  BY DEF ImportPathsAssumption
<1> HIDE DEF N
<1>8. ASSUME Names(s)
      PROVE  Resolve(s) = Named(s) /\ Named(s) # Nowhere
  <2>1. /\ Relative(s) /\ ~Climbed(s, N) /\ ToTypeScript(s.ext) # Nowhere
        /\ s.ext # "none" /\ ToTypeScript(s.ext) \in Ext
    BY <1>2, <1>5, <1>8 DEF Names
  <2>2. Destination(s) = Parts(s) /\ Parts(s) \in Seq(Segment) /\ Parts(s) # <<>>
    BY <2>1, <1>4, <1>6
  <2>3. Named(s) = [segs |-> Parts(s), ext |-> ToTypeScript(s.ext)]
    BY <2>2 DEF Named
  <2>4. Named(s) \in [segs: Seq(Segment), ext: Ext]
    BY <2>1, <2>2, <2>3
  <2>5. Resolve(s) = [segs |-> Parts(s), ext |-> ToTypeScript(s.ext)]
    BY <2>1, <2>2, <1>7 DEF Resolve
  <2> QED
    BY <2>3, <2>4, <2>5, <1>7
<1>9. ASSUME ~Names(s) PROVE Resolve(s) = Nowhere
  BY <1>2, <1>3, <1>9 DEF Names, Resolve
<1> QED
  BY <1>8, <1>9

-----------------------------------------------------------------------------
(***************************************************************************)
(* The tree is well formed: parents come first, a subtree is contiguous,   *)
(* and what stands in what is what the grammar allows.                     *)
(***************************************************************************)
Tree ==
  /\ source \in Seq(Node) /\ Len(source) <= MaxSize
  /\ \A i \in Index :
       /\ source[i].parent < i
       /\ source[i].parent = 0 \/ source[i].parent \in Above(i)
       /\ Holds(ParentType(source[i]), source[i].type)
       /\ source[i].type \in Nameless <=> source[i].name = Top

ParserInv ==
  /\ ParserTypeOK /\ Tree /\ EdgesAreClosed
  /\ Stable(result) \subseteq Stable(Parsed)
  /\ fresh => result = Parsed

-----------------------------------------------------------------------------
(* A nonempty set of positions has a last one.                             *)
LEMMA InnermostIs ==
  ASSUME NEW n \in Nat, NEW S \in SUBSET (0..n), S # {}
  PROVE  Innermost(S) \in S /\ \A b \in S : b <= Innermost(S)
<1> DEFINE T == {n - x : x \in S}
<1>1. \A x \in S : x \in Nat /\ n - x \in Nat
  OBVIOUS
<1>2. T \in SUBSET Nat /\ T # {}
  BY <1>1
<1>3. PICK t \in T : \A u \in T : t <= u
  BY <1>2, LeastNatural
<1>4. PICK a \in S : t = n - a
  BY <1>3
<1>5. \A b \in S : n - a <= n - b
  BY <1>3, <1>4
<1>6. \E x \in S : \A b \in S : b <= x
  BY <1>1, <1>5
<1> QED
  BY <1>6 DEF Innermost

LEMMA InnermostIsUnique ==
  ASSUME NEW S \in SUBSET Nat, NEW m \in S, \A b \in S : b <= m
  PROVE  Innermost(S) = m
<1>1. Innermost(S) \in S /\ \A b \in S : b <= Innermost(S)
  BY DEF Innermost
<1>2. Innermost(S) <= m /\ m <= Innermost(S) /\ m \in Nat /\ Innermost(S) \in Nat
  BY <1>1
<1> QED
  BY <1>2

-----------------------------------------------------------------------------
(* What is above what.                                                     *)
LEMMA TreeTyped ==
  ASSUME Tree, NEW i \in Index
  PROVE  /\ i \in Nat /\ i >= 1 /\ i <= Len(source) /\ Len(source) \in Nat
         /\ Above(i) \subseteq Index /\ \A a \in Above(i) : a < i /\ a \in Nat
         /\ source[i] \in Node /\ source[i].parent \in Nat /\ source[i].parent < i
         /\ source[i].type \in Types
         /\ source[i].name \in Name \cup {Top}
<1>1. Len(source) \in Nat /\ Index = 1..Len(source)
  BY DEF Tree, Index
<1>2. source[i] \in Node
  BY <1>1 DEF Tree
<1> QED
  BY <1>1, <1>2 DEF Tree, Node, Above

LEMMA AboveNests ==
  ASSUME Tree, NEW c \in Index, NEW b \in Above(c), NEW a \in Above(b)
  PROVE  a \in Above(c)
<1>1. b \in Index /\ a \in Index /\ a < b /\ b < c
  BY TreeTyped
<1>2. \A x \in Index : source[x].parent \in Nat /\ x \in Nat
  BY TreeTyped
<1>3. a \in 1..(c - 1) /\ Index = 1..Len(source) /\ Len(source) \in Nat
  BY <1>1, <1>2, TreeTyped DEF Tree, Index
<1>4. ASSUME NEW x \in (a + 1)..c
      PROVE  source[x].parent >= a
  <2>1. CASE x <= b
    BY <2>1, <1>1, <1>2, <1>4 DEF Above
  <2>2. CASE x > b
    <3>1. x \in (b + 1)..c /\ x \in Index
      BY <2>2, <1>1, <1>2, <1>3
    <3>2. source[x].parent >= b /\ source[x].parent \in Nat
      BY <3>1, <1>2 DEF Above
    <3> QED
      BY <3>2, <1>1, <1>2
  <2> QED
    BY <2>1, <2>2, <1>1, <1>2
<1> QED
  BY <1>3, <1>4 DEF Above

LEMMA AboveIsAChain ==
  ASSUME Tree, NEW c \in Index, NEW b \in Above(c), NEW a \in Above(c), a < b
  PROVE  a \in Above(b)
<1>1. b \in Index /\ a \in Index /\ b < c
  BY TreeTyped
<1>2. \A x \in Index : x \in Nat /\ x >= 1
  BY TreeTyped
<1>3. a \in 1..(b - 1) /\ \A x \in (a + 1)..b : x \in (a + 1)..c
  BY <1>1, <1>2
<1> QED
  BY <1>3 DEF Above

LEMMA ParentIsInnermost ==
  ASSUME Tree, NEW i \in Index, NEW a \in Above(i)
  PROVE  /\ a <= source[i].parent /\ source[i].parent \in Above(i)
         /\ source[i].parent \in Index
<1>1. a >= 1 /\ a < i /\ a \in Nat /\ i \in Nat
  BY TreeTyped
<1>2. source[i].parent >= a /\ source[i].parent \in Nat
  BY <1>1, TreeTyped DEF Above
<1>3. source[i].parent # 0
  BY <1>1, <1>2
<1>4. source[i].parent \in Above(i)
  BY <1>3 DEF Tree
<1> QED
  BY <1>1, <1>2, <1>4, TreeTyped

-----------------------------------------------------------------------------
(* Where an insertion at i moves position k.                               *)
Past(i, k) == IF k < i THEN k ELSE k + 1

Edited(i, node) ==
  /\ source' \in Seq(Node) /\ Len(source') = Len(source) + 1
  /\ source'[i] = node
  /\ \A k \in Index : /\ source'[Past(i, k)].type = source[k].type
                      /\ source'[Past(i, k)].name = source[k].name
                      /\ source'[Past(i, k)].parent = Past(i, source[k].parent)

LEMMA Joined ==
  ASSUME NEW T, NEW C \in Seq(T), NEW B \in Seq(T)
  PROVE  /\ C \o B \in Seq(T) /\ Len(C \o B) = Len(C) + Len(B)
         /\ \A k \in 1..Len(C) : (C \o B)[k] = C[k]
         /\ \A k \in 1..Len(B) : (C \o B)[Len(C) + k] = B[k]
  OBVIOUS

LEMMA InsertMeans ==
  ASSUME Tree, ParserAssumption, NEW i \in 1..(Len(source) + 1), NEW node,
         node.type \in Types, node.name \in Name \cup {Top},
         node = [type |-> node.type, name |-> node.name, parent |-> node.parent],
         Insert(i, node), UNCHANGED language
  PROVE  node \in Node /\ node.parent \in 0..(i - 1) /\ Edited(i, node)
<1> DEFINE n == Len(source)
           A == SubSeq(source, 1, i - 1)
           B == Shifted(SubSeq(source, i, n), i)
<1>1. n \in Nat /\ n < MaxSize /\ MaxSize \in Nat /\ Index = 1..n /\ i \in Nat /\ i >= 1
      /\ source \in Seq(Node)
  BY DEF Tree, Insert, Index, ParserAssumption
<1>2. node.parent \in 0..(i - 1)
  <2>1. node.parent \in Chain(i - 1)
    BY DEF Insert
  <2>2. \A a \in Above(i - 1) : a \in 1..(i - 2)
    BY <1>1 DEF Above
  <2> QED
    BY <2>1, <2>2, <1>1 DEF Chain
<1>3. Types' = Types /\ Node' = Node
  BY DEF Types, Callables, Python, Node
<1>4. node \in Node
  <2>1. node.parent \in 0..MaxSize
    BY <1>1, <1>2
  <2> QED
    BY <2>1 DEF Node
<1>5. \A k \in 1..n : source[k] \in Node /\ source[k].parent < k /\ source[k].parent \in 0..n
  <2> SUFFICES ASSUME NEW k \in 1..n
               PROVE  source[k] \in Node /\ source[k].parent < k /\ source[k].parent \in 0..n
    OBVIOUS
  <2> HIDE DEF A, B
  <2>1. source[k] \in Node /\ source[k].parent \in Nat /\ source[k].parent < k /\ k \in Nat /\ k <= n
    BY <1>1, TreeTyped
  <2> QED
    BY <2>1, <1>1
<1>6. A \in Seq(Node) /\ Len(A) = i - 1 /\ \A k \in 1..(i - 1) : A[k] = source[k]
  BY <1>1
<1>7. /\ B \in Seq(Node) /\ Len(B) = n + 1 - i
      /\ \A k \in 1..(n + 1 - i) :
           B[k] = [source[k + i - 1] EXCEPT !.parent = Past(i, source[k + i - 1].parent)]
  <2> DEFINE S == SubSeq(source, i, n)
  <2>1. S \in Seq(Node) /\ Len(S) = n + 1 - i /\ DOMAIN S = 1..(n + 1 - i)
        /\ \A k \in 1..(n + 1 - i) : S[k] = source[k + i - 1]
    BY <1>1
  <2> HIDE DEF S
  <2>2. \A k \in 1..(n + 1 - i) :
          Shifted(S, i)[k] = [source[k + i - 1] EXCEPT !.parent = Past(i, source[k + i - 1].parent)]
    <3> SUFFICES ASSUME NEW k \in 1..(n + 1 - i)
                 PROVE  Shifted(S, i)[k] =
                          [source[k + i - 1] EXCEPT !.parent = Past(i, source[k + i - 1].parent)]
      OBVIOUS
    <3>1. S[k] = source[k + i - 1] /\ k + i - 1 \in 1..n /\ k \in DOMAIN S
      BY <2>1, <1>1
    <3>2. source[k + i - 1] \in Node
      BY <3>1, <1>5
    <3>3. [source[k + i - 1] EXCEPT !.parent = source[k + i - 1].parent] = source[k + i - 1]
      BY <3>2 DEF Node
    <3> QED
      BY <3>1, <3>3 DEF Shifted, Past
  <2>3. \A k \in 1..(n + 1 - i) : Shifted(S, i)[k] \in Node
    <3> SUFFICES ASSUME NEW k \in 1..(n + 1 - i) PROVE Shifted(S, i)[k] \in Node
      OBVIOUS
    <3>1. k + i - 1 \in 1..n
      BY <1>1
    <3>2. source[k + i - 1] \in Node /\ source[k + i - 1].parent \in 0..n
      BY <3>1, <1>5
    <3>3. \A p \in 0..n : Past(i, p) \in 0..MaxSize
      BY <1>1 DEF Past
    <3> QED
      BY <3>2, <3>3, <2>2 DEF Node
  <2>4. DOMAIN Shifted(S, i) = 1..(n + 1 - i) /\ n + 1 - i \in Nat
        /\ Shifted(S, i) = [k \in 1..(n + 1 - i) |-> Shifted(S, i)[k]]
    BY <2>1, <1>1 DEF Shifted
  <2>5. Shifted(S, i) \in [1..(n + 1 - i) -> Node]
    BY <2>3, <2>4
  <2>6. Shifted(S, i) \in Seq(Node) /\ Len(Shifted(S, i)) = n + 1 - i
    BY <2>4, <2>5
  <2> QED
    BY <2>2, <2>6 DEF S
<1> HIDE DEF A, B
<1>8. source' = A \o <<node>> \o B
  BY DEF Insert, A, B
<1>9. <<node>> \in Seq(Node) /\ Len(<<node>>) = 1 /\ <<node>>[1] = node
  BY <1>4
<1>10. A \o <<node>> \in Seq(Node) /\ Len(A \o <<node>>) = i
       /\ (A \o <<node>>)[i] = node /\ \A k \in 1..(i - 1) : (A \o <<node>>)[k] = source[k]
  BY <1>6, <1>9, <1>1
<1> DEFINE C == A \o <<node>>
<1>20. C \in Seq(Node) /\ Len(C) = i /\ C[i] = node /\ source' = C \o B
       /\ \A k \in 1..(i - 1) : C[k] = source[k]
  BY <1>8, <1>10
<1> HIDE DEF C
<1>11. source' \in Seq(Node) /\ Len(source') = n + 1 /\ source'[i] = node
       /\ \A k \in 1..(i - 1) : source'[k] = source[k]
  <2>1. /\ C \o B \in Seq(Node) /\ Len(C \o B) = Len(C) + Len(B)
        /\ \A k \in 1..Len(C) : (C \o B)[k] = C[k]
    <3>1. C \in Seq(Node) /\ B \in Seq(Node)
      BY <1>7, <1>20
    <3> QED
      BY ONLY <3>1, Joined
  <2>2. i \in 1..i /\ \A k \in 1..(i - 1) : k \in 1..i
    BY <1>1
  <2> QED
    BY <2>1, <2>2, <1>1, <1>7, <1>20
<1>12. \A k \in i..n : source'[k + 1] = [source[k] EXCEPT !.parent = Past(i, source[k].parent)]
  <2> SUFFICES ASSUME NEW k \in i..n
               PROVE  source'[k + 1] = [source[k] EXCEPT !.parent = Past(i, source[k].parent)]
    OBVIOUS
  <2>1. k + 1 - i \in 1..(n + 1 - i) /\ (k + 1 - i) + i - 1 = k
    BY <1>1
  <2>2. source'[k + 1] = B[k + 1 - i]
    <3>1. \A j \in 1..Len(B) : (C \o B)[Len(C) + j] = B[j]
      BY <1>7, <1>20, Joined
    <3>2. (C \o B)[i + (k + 1 - i)] = B[k + 1 - i]
      BY <3>1, <2>1, <1>7, <1>20
    <3>3. i + (k + 1 - i) = k + 1
      BY <1>1
    <3> QED
      BY <3>2, <3>3, <1>20
  <2> QED
    BY <2>1, <2>2, <1>7
<1>13. ASSUME NEW k \in Index
       PROVE  /\ source'[Past(i, k)].type = source[k].type
              /\ source'[Past(i, k)].name = source[k].name
              /\ source'[Past(i, k)].parent = Past(i, source[k].parent)
  <2>1. k \in 1..n /\ source[k] \in Node /\ source[k].parent < k /\ source[k].parent \in Nat
    BY <1>1, <1>5
  <2>2. CASE k < i
    BY <2>1, <2>2, <1>1, <1>11 DEF Past
  <2>3. CASE k >= i
    <3>1. source'[k + 1] = [source[k] EXCEPT !.parent = Past(i, source[k].parent)]
      BY <2>1, <2>3, <1>1, <1>12
    <3>2. Past(i, k) = k + 1
      BY <2>3, <2>1, <1>1 DEF Past
    <3> QED
      BY <3>1, <3>2, <2>1 DEF Node
  <2> QED
    BY <2>1, <2>2, <2>3, <1>1
<1> QED
  BY <1>2, <1>4, <1>11, <1>13 DEF Edited

LEMMA PastMeans ==
  ASSUME NEW n \in Nat, NEW i \in 1..(n + 1)
  PROVE  /\ \A k \in 0..n : Past(i, k) \in 0..(n + 1) /\ Past(i, k) # i /\ k <= Past(i, k)
         /\ \A k \in 1..n : Past(i, k) \in 1..(n + 1)
         /\ Past(i, 0) = 0
         /\ \A a, b \in 0..n : a <= b <=> Past(i, a) <= Past(i, b)
         /\ \A a, b \in 0..n : a < b <=> Past(i, a) < Past(i, b)
         /\ \A x \in 1..(n + 1) : x # i => \E k \in 1..n : x = Past(i, k)
<1>1. ASSUME NEW x \in 1..(n + 1), x # i
      PROVE  \E k \in 1..n : x = Past(i, k)
  <2>1. CASE x < i
    <3>1. x \in 1..n /\ x = Past(i, x)
      BY <2>1 DEF Past
    <3> QED
      BY <3>1
  <2>2. CASE x > i
    <3>1. x - 1 \in 1..n /\ x = Past(i, x - 1)
      BY <2>2 DEF Past
    <3> QED
      BY <3>1
  <2> QED
    BY <1>1, <2>1, <2>2
<1> QED
  BY <1>1 DEF Past

(* The new leaf is above nothing, and all else keeps what is above it.     *)
LEMMA AboveMoves ==
  ASSUME Tree, NEW i \in 1..(Len(source) + 1), NEW node, Edited(i, node),
         node.parent \in 0..(i - 1),
         i <= Len(source) => source[i].parent <= node.parent,
         NEW k \in Index
  PROVE  Above(Past(i, k))' = {Past(i, a) : a \in Above(k)}
<1> DEFINE n == Len(source)
           p(x) == source[x].parent
           q(x) == source'[x].parent
<1>1. n \in Nat /\ Index = 1..n /\ i \in 1..(n + 1) /\ k \in 1..n
  BY DEF Tree, Index
<1>2. \A x \in 1..n : p(x) \in 0..n /\ p(x) < x
  BY <1>1, TreeTyped
<1>3. (\A x \in 1..n : q(Past(i, x)) = Past(i, p(x))) /\ q(i) = node.parent
  BY <1>1 DEF Edited
<1>4. Above(Past(i, k))' = {a \in 1..(Past(i, k) - 1) : \A b \in (a + 1)..Past(i, k) : q(b) >= a}
  BY DEF Above
<1>5. Above(k) = {a \in 1..(k - 1) : \A b \in (a + 1)..k : p(b) >= a}
  BY DEF Above
<1> HIDE DEF p, q
<1>6. /\ \A x \in 0..n : Past(i, x) \in 0..(n + 1) /\ Past(i, x) # i
      /\ \A x \in 1..n : Past(i, x) \in 1..(n + 1)
      /\ \A x, y \in 0..n : x <= y <=> Past(i, x) <= Past(i, y)
      /\ \A x, y \in 0..n : x < y <=> Past(i, x) < Past(i, y)
      /\ \A x \in 1..(n + 1) : x # i => \E y \in 1..n : x = Past(i, y)
  BY <1>1, PastMeans
<1>7. i <= n => p(i) <= node.parent
  BY DEF p
<1>8. ASSUME NEW a \in Above(k)
      PROVE  Past(i, a) \in Above(Past(i, k))'
  <2>1. a \in 1..n /\ a < k /\ \A b \in (a + 1)..k : p(b) >= a
    BY <1>1, <1>5
  <2>2. Past(i, a) \in 1..(Past(i, k) - 1)
    BY <1>1, <1>6, <2>1
  <2>3. ASSUME NEW b \in (Past(i, a) + 1)..Past(i, k)
        PROVE  q(b) >= Past(i, a)
    <3>1. b \in 1..(n + 1)
      BY <1>1, <1>6, <2>1
    <3>2. CASE b = i
      <4>1. a < i /\ i <= k /\ Past(i, a) = a
        BY <3>2, <1>1, <2>1, <2>3 DEF Past
      <4>2. p(i) >= a /\ p(i) <= node.parent /\ p(i) \in 0..n
        BY <4>1, <1>1, <1>2, <1>7, <2>1
      <4> QED
        BY <4>1, <4>2, <3>2, <1>1, <1>3, <2>1
    <3>3. CASE b # i
      <4>1. PICK y \in 1..n : b = Past(i, y)
        BY <3>1, <3>3, <1>6
      <4>2. y \in (a + 1)..k
        <5>1. Past(i, a) < Past(i, y) /\ Past(i, y) <= Past(i, k)
          BY <4>1, <2>2, <2>3, <1>1, <1>6
        <5> QED
          BY <5>1, <2>1, <1>1, <1>6
      <4>3. a <= p(y) /\ p(y) \in 0..n /\ a \in 0..n
        BY <4>2, <2>1, <1>2, <1>1
      <4>4. Past(i, a) <= Past(i, p(y))
        BY <4>3, <1>6
      <4>5. q(b) = Past(i, p(y)) /\ Past(i, p(y)) \in Nat /\ Past(i, a) \in Nat
        BY <4>1, <4>3, <1>3, <1>6
      <4> QED
        BY <4>4, <4>5
    <3> QED
      BY <3>2, <3>3
  <2> QED
    BY <2>2, <2>3, <1>4
<1>9. ASSUME NEW x \in Above(Past(i, k))'
      PROVE  \E a \in Above(k) : x = Past(i, a)
  <2>1. x \in 1..(n + 1) /\ x < Past(i, k) /\ \A b \in (x + 1)..Past(i, k) : q(b) >= x
    BY <1>1, <1>4, <1>6
  <2>2. x # i
    <3> SUFFICES ASSUME x = i PROVE FALSE
      OBVIOUS
    <3>1. i <= k
      BY <2>1, <1>1 DEF Past
    <3>2. i \in 1..n /\ Past(i, i) = i + 1
      BY <3>1, <1>1 DEF Past
    <3>3. i + 1 \in (x + 1)..Past(i, k)
      BY <3>1, <2>1, <1>1 DEF Past
    <3>4. Past(i, p(i)) >= i
      BY <3>2, <3>3, <2>1, <1>3
    <3>5. p(i) < i /\ p(i) \in Nat
      BY <3>2, <1>2
    <3> QED
      BY <3>4, <3>5, <1>1 DEF Past
  <2>3. PICK a \in 1..n : x = Past(i, a)
    BY <2>1, <2>2, <1>6
  <2>4. a < k
    BY <2>1, <2>3, <1>1, <1>6
  <2>5. ASSUME NEW b \in (a + 1)..k
        PROVE  p(b) >= a
    <3>1. b \in 1..n /\ a < b /\ b <= k
      BY <2>3, <1>1
    <3>2. Past(i, b) \in (x + 1)..Past(i, k)
      BY <3>1, <2>3, <1>1, <1>6
    <3>3. Past(i, p(b)) >= Past(i, a) /\ p(b) \in 0..n
      BY <3>1, <3>2, <2>1, <2>3, <1>2, <1>3
    <3>4. a <= p(b)
      BY <3>3, <1>6, <2>3
    <3> QED
      BY <3>3, <3>4, <2>3
  <2> QED
    BY <2>3, <2>4, <2>5, <1>1, <1>5
<1> QED
  BY <1>8, <1>9

Grows(i, node) ==
  /\ node.type \in Types /\ node.name \in Name \cup {Top}
  /\ node = [type |-> node.type, name |-> node.name, parent |-> node.parent]
  /\ node.type \in Nameless <=> node.name = Top
  /\ Insert(i, node) /\ UNCHANGED language

(* Where a leaf may be put, in the terms of the lemmas above.              *)
LEMMA GrowsMeans ==
  ASSUME Tree, ParserAssumption, NEW i \in 1..(Len(source) + 1), NEW node, Grows(i, node)
  PROVE  /\ node \in Node /\ node.parent \in 0..(i - 1) /\ Edited(i, node)
         /\ i <= Len(source) => source[i].parent <= node.parent
         /\ node.parent = 0 \/ node.parent \in Above(i)'
<1> DEFINE n == Len(source)
<1>1. node \in Node /\ node.parent \in 0..(i - 1) /\ Edited(i, node)
  BY InsertMeans DEF Grows
<1>2. n \in Nat /\ Index = 1..n /\ i \in 1..(n + 1)
  BY DEF Tree, Index
<1>3. i <= n => source[i].parent <= node.parent
  <2> SUFFICES ASSUME i <= n PROVE source[i].parent <= node.parent
    OBVIOUS
  <2>1. source[i].parent \in {0, node.parent} \cup Above(node.parent)
    BY DEF Grows, Insert, Chain
  <2>2. \A a \in Above(node.parent) : a \in 1..(node.parent - 1)
    BY DEF Above
  <2> QED
    BY <2>1, <2>2, <1>1, <1>2
<1>4. ASSUME node.parent # 0
      PROVE  node.parent \in Above(i)'
  <2> DEFINE a == node.parent
  <2>1. a \in {i - 1} \cup Above(i - 1) /\ a \in 1..(i - 1)
    BY <1>1, <1>2, <1>4 DEF Grows, Insert, Chain
  <2>2. \A b \in (a + 1)..(i - 1) : source[b].parent >= a
    BY <2>1, <1>2 DEF Above
  <2>3. \A b \in 1..(i - 1) : source'[b].parent = source[b].parent
    <3> SUFFICES ASSUME NEW b \in 1..(i - 1) PROVE source'[b].parent = source[b].parent
      OBVIOUS
    <3>1. b \in Index /\ Past(i, b) = b
      BY <1>2 DEF Past
    <3>2. source[b].parent < b /\ source[b].parent \in Nat
      BY <3>1, TreeTyped
    <3>3. Past(i, source[b].parent) = source[b].parent
      BY <3>2, <1>2 DEF Past
    <3> QED
      BY <3>1, <3>3, <1>1 DEF Edited
  <2>4. source'[i].parent = a
    BY <1>1 DEF Edited
  <2>5. ASSUME NEW b \in (a + 1)..i
        PROVE  source'[b].parent >= a
    <3>1. CASE b = i
      BY <3>1, <2>4, <2>1
    <3>2. CASE b # i
      <4>1. b \in (a + 1)..(i - 1) /\ b \in 1..(i - 1)
        BY <3>2, <2>1, <2>5, <1>2
      <4> QED
        BY <4>1, <2>2, <2>3
    <3> QED
      BY <3>1, <3>2
  <2> QED
    BY <2>1, <2>5 DEF Above
<1> QED
  BY <1>1, <1>3, <1>4

LEMMA TreeGrows ==
  ASSUME Tree, ParserAssumption, NEW i \in 1..(Len(source) + 1), NEW node, Grows(i, node)
  PROVE  Tree'
<1> DEFINE n == Len(source)
<1>1. /\ node \in Node /\ node.parent \in 0..(i - 1) /\ Edited(i, node)
      /\ i <= n => source[i].parent <= node.parent
      /\ node.parent = 0 \/ node.parent \in Above(i)'
  BY GrowsMeans
<1>2. n \in Nat /\ Index = 1..n /\ i \in 1..(n + 1) /\ n < MaxSize /\ MaxSize \in Nat
  BY DEF Tree, Index, Grows, Insert, ParserAssumption
<1>3. Types' = Types /\ Node' = Node /\ Nameless' = Nameless
  BY DEF Types, Callables, Python, Node, Nameless, Grows
<1>4. source' \in Seq(Node') /\ Len(source') = n + 1 /\ n + 1 <= MaxSize /\ Index' = 1..(n + 1)
  <2>1. source' \in Seq(Node) /\ Len(source') = n + 1
    BY <1>1 DEF Edited
  <2>2. DOMAIN source' = 1..(n + 1)
    BY <2>1
  <2> QED
    BY <2>1, <2>2, <1>2, <1>3 DEF Index
<1>5. \A x, y : Holds(x, y)' <=> Holds(x, y)
  BY <1>3 DEF Holds, Python, Grows
<1>6. \A x \in 1..n : /\ source'[Past(i, x)].type = source[x].type
                      /\ source'[Past(i, x)].name = source[x].name
                      /\ source'[Past(i, x)].parent = Past(i, source[x].parent)
  BY <1>1, <1>2 DEF Edited
<1>7. /\ \A x \in 0..n : Past(i, x) \in 0..(n + 1) /\ Past(i, x) # i
      /\ \A x \in 1..n : Past(i, x) \in 1..(n + 1)
      /\ Past(i, 0) = 0
      /\ \A x, y \in 0..n : x < y <=> Past(i, x) < Past(i, y)
      /\ \A x \in 1..(n + 1) : x # i => \E y \in 1..n : x = Past(i, y)
  <2> HIDE DEF n
  <2>1. n \in Nat /\ i \in 1..(n + 1)
    BY <1>2
  <2> QED
    BY ONLY <2>1, PastMeans
<1> DEFINE Good(j) ==
      /\ source'[j].parent < j
      /\ source'[j].parent = 0 \/ source'[j].parent \in Above(j)'
      /\ Holds(IF source'[j].parent = 0 THEN "if" ELSE source'[source'[j].parent].type,
               source'[j].type)
      /\ source'[j].type \in Nameless <=> source'[j].name = Top
<1>8. Good(i)
  <2>1. source'[i] = node
    BY <1>1 DEF Edited
  <2>2. node.parent < i
    BY <1>1, <1>2
  <2>3. ASSUME node.parent # 0
        PROVE  source'[node.parent].type = source[node.parent].type
    <3>1. node.parent \in 1..n /\ Past(i, node.parent) = node.parent
      BY <2>3, <2>2, <1>1, <1>2 DEF Past
    <3> QED
      BY <3>1, <1>6
  <2>4. Holds(IF node.parent = 0 THEN "if" ELSE source[node.parent].type, node.type)
    BY DEF Grows, Insert, ParentType
  <2>5. node.type \in Nameless <=> node.name = Top
    BY DEF Grows
  <2> QED
    BY <2>1, <2>2, <2>3, <2>4, <2>5, <1>1
<1>9. ASSUME NEW x \in 1..n
      PROVE  Good(Past(i, x))
  <2> DEFINE p == source[x].parent
             j == Past(i, x)
  <2>1. p \in 0..n /\ p < x /\ x \in 0..n /\ x \in Index
    BY <1>2, TreeTyped
  <2>2. Past(i, p) < j
    BY <2>1, <1>7
  <2>3. Above(j)' = {Past(i, a) : a \in Above(x)}
    BY <2>1, <1>1, AboveMoves
  <2>4. p = 0 \/ p \in Above(x)
    BY <2>1 DEF Tree
  <2>5. Past(i, p) = 0 \/ Past(i, p) \in Above(j)'
    BY <2>3, <2>4, <1>7
  <2>6. Past(i, p) = 0 <=> p = 0
    BY <2>1, <1>2 DEF Past
  <2>7. p # 0 => source'[Past(i, p)].type = source[p].type
    <3>1. p # 0 => p \in 1..n
      BY <2>1, <1>2
    <3> QED
      BY <3>1, <1>6
  <2>8. Holds(IF p = 0 THEN "if" ELSE source[p].type, source[x].type)
        /\ (source[x].type \in Nameless <=> source[x].name = Top)
    BY <2>1 DEF Tree, ParentType
  <2>9. source'[j].type = source[x].type /\ source'[j].name = source[x].name
        /\ source'[j].parent = Past(i, p)
    BY <1>6
  <2> HIDE DEF p, j
  <2> QED
    BY <2>2, <2>5, <2>6, <2>7, <2>8, <2>9 DEF j
<1>10. \A j \in 1..(n + 1) : Good(j)
  BY <1>7, <1>8, <1>9
<1>11. ASSUME NEW j \in Index'
       PROVE  /\ source'[j].parent < j
              /\ source'[j].parent = 0 \/ source'[j].parent \in Above(j)'
              /\ Holds(ParentType(source[j]), source[j].type)'
              /\ source'[j].type \in Nameless' <=> source'[j].name = Top
  <2>1. Good(j)
    BY <1>4, <1>10
  <2>2. ParentType(source[j])' =
          IF source'[j].parent = 0 THEN "if" ELSE source'[source'[j].parent].type
    BY DEF ParentType
  <2>3. Holds(ParentType(source[j]), source[j].type)'
    BY <2>1, <2>2, <1>3 DEF Holds, Python, Grows
  <2> QED
    BY <2>1, <2>3, <1>3
<1> QED
  BY <1>2, <1>4, <1>11 DEF Tree

-----------------------------------------------------------------------------
(* A declaration keeps its identity when the file grows around it.         *)
LEMMA ClassesMove ==
  ASSUME Tree, ParserAssumption, NEW i \in 1..(Len(source) + 1), NEW node, Grows(i, node),
         NEW k \in Index
  PROVE  ClassOf(Past(i, k))' = ClassOf(k)
<1> DEFINE n == Len(source)
           C == Classes(k)
           D == Classes(Past(i, k))'
<1>1. /\ Edited(i, node) /\ node.parent \in 0..(i - 1)
      /\ i <= n => source[i].parent <= node.parent
  BY GrowsMeans
<1>2. n \in Nat /\ Index = 1..n /\ i \in 1..(n + 1)
  BY DEF Tree, Index
<1>3. Above(Past(i, k))' = {Past(i, a) : a \in Above(k)}
  BY <1>1, AboveMoves
<1>4. Above(k) \subseteq 1..n
  BY <1>2, TreeTyped
<1>5. \A a \in 1..n : /\ source'[Past(i, a)].type = source[a].type
                      /\ source'[Past(i, a)].name = source[a].name
  BY <1>1, <1>2 DEF Edited
<1>6. D = {Past(i, a) : a \in C}
  <2>1. D = {x \in Above(Past(i, k))' : source'[x].type = "class"}
    BY DEF Classes, Is
  <2>2. C = {a \in Above(k) : source[a].type = "class"}
    BY DEF Classes, Is
  <2> QED
    BY <2>1, <2>2, <1>3, <1>4, <1>5
<1>7. C \subseteq 1..n
  BY <1>4 DEF Classes
<1>8. ClassOf(Past(i, k))' = IF D = {} THEN Top ELSE source'[Innermost(D)].name
  BY DEF ClassOf, Innermost
<1>9. ClassOf(k) = IF C = {} THEN Top ELSE source[Innermost(C)].name
  BY DEF ClassOf
<1> HIDE DEF C, D
<1>10. CASE C = {}
  BY <1>10, <1>6, <1>8, <1>9
<1>11. CASE C # {}
  <2> DEFINE m == Innermost(C)
  <2>1. m \in C /\ \A b \in C : b <= m
    <3>1. C \in SUBSET (0..n)
      BY <1>7
    <3> QED
      BY <3>1, <1>2, <1>11, InnermostIs
  <2> HIDE DEF m
  <2>2. \A x, y \in 0..n : x <= y <=> Past(i, x) <= Past(i, y)
    <3> HIDE DEF n
    <3>1. n \in Nat /\ i \in 1..(n + 1)
      BY <1>2
    <3> QED
      BY ONLY <3>1, PastMeans
  <2>3. Past(i, m) \in D /\ \A b \in D : b <= Past(i, m)
    BY <2>1, <2>2, <1>6, <1>7
  <2>4. D \in SUBSET Nat
    <3>1. \A a \in 1..n : Past(i, a) \in Nat
      BY <1>2 DEF Past
    <3> QED
      BY <3>1, <1>6, <1>7
  <2>5. Innermost(D) = Past(i, m)
    BY <2>3, <2>4, InnermostIsUnique
  <2>6. D # {}
    BY <2>3
  <2> QED
    BY <2>1, <2>5, <2>6, <1>5, <1>7, <1>8, <1>9, <1>11 DEF m
<1> QED
  BY <1>10, <1>11

LEMMA DeclsMove ==
  ASSUME Tree, ParserAssumption, NEW i \in 1..(Len(source) + 1), NEW node, Grows(i, node),
         NEW d \in Decls
  PROVE  Past(i, d) \in Decls' /\ DeclId(Past(i, d))' = DeclId(d)
<1> DEFINE n == Len(source)
<1>1. /\ Edited(i, node) /\ node.parent \in 0..(i - 1) /\ node \in Node
      /\ i <= n => source[i].parent <= node.parent
  BY GrowsMeans
<1>2. n \in Nat /\ Index = 1..n /\ i \in 1..(n + 1) /\ d \in Index
  BY DEF Tree, Index, Decls
<1>3. Index' = 1..(n + 1)
  BY <1>1, <1>2 DEF Edited, Index
<1>4. ASSUME NEW k \in Index
      PROVE  /\ Past(i, k) \in Index' /\ source'[Past(i, k)].type = source[k].type
             /\ source'[Past(i, k)].name = source[k].name
             /\ ClassOf(Past(i, k))' = ClassOf(k)
             /\ Callable(Past(i, k))' <=> Callable(k)
  <2>1. Past(i, k) \in 1..(n + 1)
    BY <1>2 DEF Past
  <2>2. source'[Past(i, k)].type = source[k].type /\ source'[Past(i, k)].name = source[k].name
    BY <1>1 DEF Edited
  <2>3. ClassOf(Past(i, k))' = ClassOf(k)
    BY ClassesMove
  <2>4. Callable(Past(i, k))' <=>
          \/ source'[Past(i, k)].type = "function"
          \/ source'[Past(i, k)].type = "method" /\ ClassOf(Past(i, k))' # Top
    BY DEF Callable, Is
  <2>5. Callable(k) <=> \/ source[k].type = "function"
                        \/ source[k].type = "method" /\ ClassOf(k) # Top
    BY DEF Callable, Is
  <2> QED
    BY <2>1, <2>2, <2>3, <2>4, <2>5, <1>3
<1>5. Visited(Past(i, d))'
  <2>1. Above(Past(i, d))' = {Past(i, a) : a \in Above(d)}
    BY <1>1, <1>2, AboveMoves
  <2>2. \A a \in Above(d) : a \in Index /\ ~Callable(a)
    BY <1>2, TreeTyped DEF Decls, Visited
  <2>3. \A x \in Above(Past(i, d))' : ~Callable(x)'
    BY <2>1, <2>2, <1>4
  <2> QED
    BY <2>3 DEF Visited
<1>6. Past(i, d) \in Decls'
  <2>1. Callable(d) \/ source[d].type = "class"
    BY DEF Decls, Is
  <2>2. Callable(Past(i, d))' \/ source'[Past(i, d)].type = "class"
    BY <2>1, <1>2, <1>4
  <2> QED
    BY <2>2, <1>2, <1>4, <1>5 DEF Decls, Is
<1>7. Python' <=> Python
  BY DEF Python, Grows
<1>8. KindOf(Past(i, d))' = KindOf(d)
  <2>1. KindOf(Past(i, d))' =
         (CASE source'[Past(i, d)].type = "class" -> "Class"
            [] Callable(Past(i, d))' /\ (IF Python' THEN ClassOf(Past(i, d))' # Top
                                        ELSE source'[Past(i, d)].type = "method") -> "Method"
            [] OTHER -> "Function")
    BY DEF KindOf, Is
  <2>2. KindOf(d) =
         (CASE source[d].type = "class" -> "Class"
            [] Callable(d) /\ (IF Python THEN ClassOf(d) # Top
                                        ELSE source[d].type = "method") -> "Method"
            [] OTHER -> "Function")
    BY DEF KindOf, Is
  <2> QED
    BY <2>1, <2>2, <1>2, <1>4, <1>7
<1>9. DeclId(Past(i, d))' = DeclId(d)
  <2>1. DeclId(Past(i, d))' =
          Id(KindOf(Past(i, d))', IF KindOf(Past(i, d))' = "Method" THEN ClassOf(Past(i, d))' ELSE Top,
             source'[Past(i, d)].name)
    BY DEF DeclId, Id
  <2>2. DeclId(d) = Id(KindOf(d), IF KindOf(d) = "Method" THEN ClassOf(d) ELSE Top, source[d].name)
    BY DEF DeclId
  <2> QED
    BY <2>1, <2>2, <1>2, <1>4, <1>8
<1> QED
  BY <1>6, <1>9

-----------------------------------------------------------------------------
(* What a parse returns.                                                   *)
Kinds == {"File", "Class", "Function", "Method", "Block", "Import"}

LEMMA ParsedNodes ==
  /\ \A n \in Parsed.nodes : n.id.kind \in Kinds
  /\ Stable(Parsed) = {FileId} \cup {DeclId(d) : d \in Decls} \cup {ImportId(s) : s \in imports}
  /\ \A d \in Decls : DeclId(d) \in Ids(Parsed)
  /\ FileId \in Ids(Parsed)
<1>1. \A d : DeclId(d).kind \in {"Class", "Function", "Method"}
  BY DEF DeclId, Id, KindOf
<1>2. FileId.kind = "File" /\ \A s : ImportId(s).kind = "Import"
  BY DEF FileId, Id, ImportId
<1>3. Parsed.nodes = {Found(FileId, 0)} \cup DeclNodes \cup BlockNodes \cup ImportNodes
  BY DEF Parsed
<1>4. \A n \in DeclNodes : \E d \in Decls : n.id = DeclId(d)
  BY DEF DeclNodes, Found
<1>5. \A d \in Decls : \E n \in DeclNodes : n.id = DeclId(d)
  <2>1. \A d \in Decls : Found(DeclId(d), d) \in DeclNodes
    BY DEF DeclNodes
  <2>2. \A d : Found(DeclId(d), d).id = DeclId(d)
    BY DEF Found
  <2> QED
    BY <2>1, <2>2
<1>6. \A n \in BlockNodes : n.id.kind = "Block"
  BY DEF BlockNodes, Found, BlockId
<1>7. \A n \in ImportNodes : \E s \in imports : n.id = ImportId(s)
  BY DEF ImportNodes, Found
<1>8. \A s \in imports : \E n \in ImportNodes : n.id = ImportId(s)
  <2>1. \A s \in imports : Found(ImportId(s), 0) \in ImportNodes
    BY DEF ImportNodes
  <2>2. \A s : Found(ImportId(s), 0).id = ImportId(s)
    BY DEF Found
  <2> QED
    BY <2>1, <2>2
<1>9. Found(FileId, 0).id = FileId
  BY DEF Found
<1>10. \A n \in Parsed.nodes : n.id.kind \in Kinds
  BY <1>1, <1>2, <1>3, <1>4, <1>6, <1>7, <1>9 DEF Kinds
<1>11. \A id : id \in Ids(Parsed) <=> \E n \in Parsed.nodes : id = n.id
  BY DEF Ids
<1>12. \A d \in Decls : DeclId(d) \in Ids(Parsed)
  BY <1>3, <1>5, <1>11
<1>13. FileId \in Ids(Parsed)
  BY <1>3, <1>9, <1>11
<1>14. \A s \in imports : ImportId(s) \in Ids(Parsed)
  BY <1>3, <1>8, <1>11
<1>15. \A id : id \in Stable(Parsed) <=> id \in Ids(Parsed) /\ id.kind # "Block"
  BY DEF Stable
<1>16. \A id \in Stable(Parsed) :
         id \in {FileId} \cup {DeclId(d) : d \in Decls} \cup {ImportId(s) : s \in imports}
  BY <1>3, <1>4, <1>6, <1>7, <1>9, <1>11, <1>15
<1>17. \A id \in {FileId} \cup {DeclId(d) : d \in Decls} \cup {ImportId(s) : s \in imports} :
         id \in Stable(Parsed)
  BY <1>1, <1>2, <1>12, <1>13, <1>14, <1>15
<1> QED
  BY <1>10, <1>12, <1>13, <1>16, <1>17

LEMMA ParsedIsClosed ==
  \A e \in Parsed.edges : \/ e.dst.kind = "File"
                          \/ e.src \in Ids(Parsed) /\ e.dst \in Ids(Parsed)
<1>1. Parsed.edges = Contains \cup Calls \cup Imports
  BY DEF Parsed
<1>2. \A n \in DeclNodes \cup BlockNodes \cup ImportNodes : n.id \in Ids(Parsed)
  BY DEF Ids, Parsed
<1>3. ASSUME NEW e \in Contains
      PROVE  e.src \in Ids(Parsed) /\ e.dst \in Ids(Parsed)
  <2>1. CASE \E n \in DeclNodes : e = [src |-> FileId, type |-> "CONTAINS", dst |-> n.id]
    BY <2>1, <1>2, ParsedNodes
  <2>2. CASE \E n \in BlockNodes : e = [src |-> n.id.owner, type |-> "CONTAINS", dst |-> n.id]
    <3>1. PICK n \in BlockNodes : e = [src |-> n.id.owner, type |-> "CONTAINS", dst |-> n.id]
      BY <2>2
    <3>2. \E d \in Callers : n.id.owner = DeclId(d)
      BY DEF BlockNodes, Found, BlockId
    <3>3. n.id.owner \in Ids(Parsed)
      BY <3>2, ParsedNodes DEF Callers
    <3> QED
      BY <3>1, <3>3, <1>2
  <2> QED
    BY <2>1, <2>2 DEF Contains
<1>4. ASSUME NEW e \in Calls
      PROVE  e.src \in Ids(Parsed) /\ e.dst \in Ids(Parsed)
  <2>1. PICK d \in Callers : \E c \in Tabled(d) :
          e = [src |-> DeclId(d), type |-> "CALLS", dst |-> Callee(d, c)]
    BY DEF Calls
  <2>5. PICK c \in Tabled(d) : e = [src |-> DeclId(d), type |-> "CALLS", dst |-> Callee(d, c)]
    BY <2>1
  <2>2. InTable(Callee(d, c))
    BY DEF Tabled
  <2>3. Callee(d, c) \in Ids(Parsed)
    BY <2>2, <1>2 DEF InTable
  <2>4. DeclId(d) \in Ids(Parsed)
    BY ParsedNodes DEF Callers
  <2> QED
    BY <2>5, <2>3, <2>4
<1>5. ASSUME NEW e \in Imports
      PROVE  e.dst.kind = "File" \/ (e.src \in Ids(Parsed) /\ e.dst \in Ids(Parsed))
  <2>1. CASE e \in [src: {FileId}, type: {"CONTAINS", "IMPORTS"}, dst: {n.id : n \in ImportNodes}]
    BY <2>1, <1>2, ParsedNodes
  <2>2. CASE e \in [src: {FileId}, type: {"IMPORTS"}, dst: {OtherFileId(f) : f \in FileImports}]
    BY <2>2 DEF OtherFileId
  <2> QED
    BY <2>1, <2>2 DEF Imports
<1> QED
  BY <1>1, <1>3, <1>4, <1>5

(* A parse that changes nothing parses the same.                           *)
LEMMA SameParsed ==
  ASSUME UNCHANGED <<language, source, imports>>
  PROVE  Parsed' = Parsed
  BY DEF Parsed, DeclNodes, BlockNodes, ImportNodes, Contains, Calls, Imports, Decls,
     Callers, Visited, Callable, Classes, ClassOf, Is, Above, Index, Inside, KindOf,
     DeclId, FileId, BlocksOf, BlockTypes, Long, Ordinal, BlockId, Tabled, CallSites,
     Callee, InTable, FileImports, Python, Innermost, Leaves

-----------------------------------------------------------------------------
(***************************************************************************)
(* The invariant, and that every step keeps it.                            *)
(***************************************************************************)
LEMMA ParserStarts == ParserAssumption /\ ParserInit => ParserInv
<1> SUFFICES ASSUME ParserAssumption, ParserInit PROVE ParserInv
  OBVIOUS
<1>1. source = <<>> /\ Index = {} /\ Len(source) = 0 /\ source \in Seq(Node)
  BY DEF ParserInit, Index
<1>2. Tree
  BY <1>1 DEF Tree, ParserAssumption
<1>3. ParserTypeOK
  <2>1. result.nodes = {}
    BY DEF ParserInit, Nothing
  <2>2. language \in {"python", "typescript"} /\ fresh \in BOOLEAN /\ imports \subseteq Specifier
    BY DEF ParserInit
  <2> QED
    BY <1>1, <2>1, <2>2 DEF ParserTypeOK, ParserAssumption
<1>4. EdgesAreClosed /\ Stable(result) = {}
  BY DEF EdgesAreClosed, Stable, Ids, ParserInit, Nothing
<1> QED
  BY <1>2, <1>3, <1>4 DEF ParserInv, ParserInit

(* What a developer's edit leaves of the last parse.                       *)
LEMMA ResultStays ==
  ASSUME ParserInv, UNCHANGED result
  PROVE  /\ EdgesAreClosed' /\ Stable(result)' = Stable(result)
         /\ \A n \in result'.nodes : n.id.kind \in Kinds
  BY DEF ParserInv, ParserTypeOK, EdgesAreClosed, Stable, Ids, ToOtherFiles, Kinds

LEMMA InsertKeeps ==
  ASSUME ParserInv, ParserAssumption, NEW i \in 1..(Len(source) + 1), NEW node, Grows(i, node)
  PROVE  ParserInv'
<1>1. Tree /\ UNCHANGED <<language, imports, result>> /\ fresh' = FALSE
  BY DEF ParserInv, Grows, Insert
<1>2. Tree'
  BY <1>1, TreeGrows
<1>3. EdgesAreClosed' /\ Stable(result)' = Stable(result)
      /\ \A n \in result'.nodes : n.id.kind \in Kinds
  BY <1>1, ResultStays
<1>4. ParserTypeOK'
  <2>1. language' \in {"python", "typescript"} /\ imports' \subseteq Specifier /\ fresh' \in BOOLEAN
    BY <1>1 DEF ParserInv, ParserTypeOK
  <2>2. source' \in Seq(Node') /\ Len(source') <= MaxSize /\ \A j \in Index' : source'[j].parent < j
    BY <1>2 DEF Tree
  <2> QED
    BY <2>1, <2>2, <1>3 DEF ParserTypeOK, Kinds
<1>5. Stable(Parsed) \subseteq Stable(Parsed)'
  <2>1. Stable(Parsed) = {FileId} \cup {DeclId(d) : d \in Decls} \cup {ImportId(s) : s \in imports}
    BY ParsedNodes
  <2>2. Stable(Parsed)' =
          {FileId} \cup {DeclId(d)' : d \in Decls'} \cup {ImportId(s) : s \in imports'}
    <3>1. (Stable(Parsed) = {FileId} \cup {DeclId(d) : d \in Decls} \cup {ImportId(s) : s \in imports})'
      BY ParsedNodes, PTL
    <3> QED
      BY <3>1 DEF FileId, Id, ImportId
  <2>3. \A d \in Decls : \E e \in Decls' : DeclId(e)' = DeclId(d)
    BY <1>1, DeclsMove
  <2> QED
    BY <2>1, <2>2, <2>3, <1>1
<1> QED
  BY <1>1, <1>2, <1>3, <1>4, <1>5 DEF ParserInv

LEMMA ImportKeeps ==
  ASSUME ParserInv, ParserAssumption, Import, UNCHANGED language
  PROVE  ParserInv'
<1>1. /\ UNCHANGED <<language, source, result>> /\ fresh' = FALSE /\ source = <<>>
      /\ imports \subseteq imports' /\ imports' \subseteq Specifier
  BY DEF Import, ParserInv, ParserTypeOK
<1>2. Index = {} /\ Index' = {} /\ Decls = {} /\ Decls' = {}
  BY <1>1 DEF Index, Decls
<1>3. Tree'
  BY <1>1, <1>2 DEF ParserInv, Tree, Node, Types, Callables, Python
<1>4. EdgesAreClosed' /\ Stable(result)' = Stable(result)
      /\ \A n \in result'.nodes : n.id.kind \in Kinds
  BY <1>1, ResultStays
<1>5. ParserTypeOK'
  <2>1. language' \in {"python", "typescript"} /\ fresh' \in BOOLEAN
    BY <1>1 DEF ParserInv, ParserTypeOK
  <2>2. source' \in Seq(Node') /\ Len(source') <= MaxSize /\ \A j \in Index' : source'[j].parent < j
    BY <1>3 DEF Tree
  <2> QED
    BY <1>1, <2>1, <2>2, <1>4 DEF ParserTypeOK, Kinds
<1>6. Stable(Parsed) \subseteq Stable(Parsed)'
  <2>1. Stable(Parsed) = {FileId} \cup {DeclId(d) : d \in Decls} \cup {ImportId(s) : s \in imports}
    BY ParsedNodes
  <2>2. (Stable(Parsed) = {FileId} \cup {DeclId(d) : d \in Decls} \cup {ImportId(s) : s \in imports})'
    BY ParsedNodes, PTL
  <2>3. Stable(Parsed) = {FileId} \cup {ImportId(s) : s \in imports}
    BY <2>1, <1>2
  <2>4. Stable(Parsed)' = {FileId} \cup {ImportId(s) : s \in imports'}
    BY <2>2, <1>2 DEF FileId, Id, ImportId
  <2> QED
    BY <2>3, <2>4, <1>1
<1> QED
  BY <1>1, <1>3, <1>4, <1>5, <1>6 DEF ParserInv

LEMMA ParseKeeps ==
  ASSUME ParserInv, ParserAssumption, parseFile, UNCHANGED language
  PROVE  ParserInv'
<1>1. UNCHANGED <<language, source, imports>> /\ result' = Parsed /\ fresh' = TRUE
  BY DEF parseFile
<1>2. Parsed' = Parsed
  BY <1>1, SameParsed
<1>3. Tree'
  BY <1>1 DEF ParserInv, Tree, Node, Types, Callables, Python, Index, Above, Holds,
     ParentType, Nameless, Leaves
<1>4. EdgesAreClosed'
  BY <1>1, ParsedIsClosed DEF EdgesAreClosed, ToOtherFiles, Ids
<1>5. ParserTypeOK'
  <2>1. language' \in {"python", "typescript"} /\ fresh' \in BOOLEAN /\ imports' \subseteq Specifier
    BY <1>1 DEF ParserInv, ParserTypeOK
  <2>2. source' \in Seq(Node') /\ Len(source') <= MaxSize /\ \A j \in Index' : source'[j].parent < j
    BY <1>3 DEF Tree
  <2>3. \A n \in result'.nodes : n.id.kind \in Kinds
    BY <1>1, ParsedNodes
  <2> QED
    BY <2>1, <2>2, <2>3 DEF ParserTypeOK, Kinds
<1>6. Stable(result)' = Stable(Parsed)'
  BY <1>1, <1>2 DEF Stable, Ids
<1> QED
  BY <1>1, <1>2, <1>3, <1>4, <1>5, <1>6 DEF ParserInv

LEMMA NothingChanges ==
  ASSUME ParserInv, UNCHANGED parserVars
  PROVE  ParserInv'
<1>1. UNCHANGED <<language, source, imports, result, fresh>>
  BY DEF parserVars
<1>2. Parsed' = Parsed
  BY <1>1, SameParsed
<1>3. Tree'
  BY <1>1 DEF ParserInv, Tree, Node, Types, Callables, Python, Index, Above, Holds,
     ParentType, Nameless, Leaves
<1>4. EdgesAreClosed' /\ Stable(result)' = Stable(result)
      /\ \A n \in result'.nodes : n.id.kind \in Kinds
  BY <1>1, ResultStays
<1>5. ParserTypeOK'
  <2>1. language' \in {"python", "typescript"} /\ fresh' \in BOOLEAN /\ imports' \subseteq Specifier
    BY <1>1 DEF ParserInv, ParserTypeOK
  <2>2. source' \in Seq(Node') /\ Len(source') <= MaxSize /\ \A j \in Index' : source'[j].parent < j
    BY <1>3 DEF Tree
  <2> QED
    BY <2>1, <2>2, <1>4 DEF ParserTypeOK, Kinds
<1>6. Stable(Parsed)' = Stable(Parsed)
  BY <1>2 DEF Stable, Ids
<1> QED
  BY <1>1, <1>2, <1>3, <1>4, <1>5, <1>6 DEF ParserInv

LEMMA ParserSteps ==
  ASSUME ParserInv, ParserAssumption, [ParserNext]_parserVars
  PROVE  ParserInv' /\ (Stable(result) \subseteq Stable(result'))
<1>1. CASE UNCHANGED parserVars
  <2>1. result' = result
    BY <1>1 DEF parserVars
  <2> QED
    BY <1>1, <2>1, NothingChanges DEF Stable, Ids
<1>2. CASE UNCHANGED language /\ \E i \in 1..(Len(source) + 1), t \in Types, n \in Name \cup {Top} :
             \E p \in Chain(i - 1) :
               /\ t \in Nameless <=> n = Top
               /\ Insert(i, [type |-> t, name |-> n, parent |-> p])
  <2>1. PICK i \in 1..(Len(source) + 1), t \in Types, n \in Name \cup {Top} :
             \E p \in Chain(i - 1) :
               /\ t \in Nameless <=> n = Top
               /\ Insert(i, [type |-> t, name |-> n, parent |-> p])
    BY <1>2
  <2>2. PICK p : /\ t \in Nameless <=> n = Top
                 /\ Insert(i, [type |-> t, name |-> n, parent |-> p])
    BY <2>1
  <2>3. Grows(i, [type |-> t, name |-> n, parent |-> p])
    BY <2>1, <2>2, <1>2 DEF Grows
  <2>4. ParserInv'
    BY <2>3, InsertKeeps
  <2>5. result' = result
    BY <2>2 DEF Insert
  <2> QED
    BY <2>4, <2>5 DEF Stable, Ids
<1>3. CASE UNCHANGED language /\ Import
  <2>1. result' = result
    BY <1>3 DEF Import
  <2> QED
    BY <1>3, <2>1, ImportKeeps DEF Stable, Ids
<1>4. CASE UNCHANGED language /\ parseFile
  <2>1. result' = Parsed
    BY <1>4 DEF parseFile
  <2>2. Stable(result') = Stable(Parsed)
    BY <2>1 DEF Stable, Ids
  <2> QED
    BY <1>4, <2>2, ParseKeeps DEF ParserInv
<1> QED
  BY <1>1, <1>2, <1>3, <1>4 DEF ParserNext

LEMMA ParserInvHolds == ParserSpec => []ParserInv
<1>1. ParserInit => ParserInv
  BY ParserStarts, ParserAssumption
<1>2. ParserInv /\ [ParserNext]_parserVars => ParserInv'
  BY ParserSteps, ParserAssumption
<1> QED
  BY <1>1, <1>2, PTL DEF ParserSpec

(* Every edge of a parse joins two nodes of that parse, but for imports of *)
(* other files.                                                            *)
THEOREM WellFormedHolds == ParserSpec => []WellFormed
<1>1. ParserInv => WellFormed
  BY DEF ParserInv, WellFormed
<1> QED
  BY <1>1, ParserInvHolds, PTL

(* No edit, wherever it is made, changes an identity already given out to  *)
(* a declaration, a file or an import.                                     *)
THEOREM IdsAreStableHolds == ParserSpec => IdsAreStable
<1>1. ParserInv /\ [ParserNext]_parserVars => [Stable(result) \subseteq Stable(result')]_parserVars
  BY ParserSteps, ParserAssumption
<1> QED
  BY <1>1, ParserInvHolds, PTL DEF ParserSpec, IdsAreStable

-----------------------------------------------------------------------------
(* What is at the top of the file has nothing above it.                    *)
LEMMA TopIsBare ==
  ASSUME Tree, NEW i \in Index, source[i].parent = 0
  PROVE  Above(i) = {}
  BY ParentIsInnermost, TreeTyped

(* A file parsed with the regex parser and again with tree-sitter keeps    *)
(* the stable ids of its top-level declarations.                           *)
THEOREM ParsersAgreeHolds == ParserSpec => []ParsersAgree
<1>1. ASSUME ParserInv PROVE ParsersAgree
  <2> SUFFICES ASSUME fresh, NEW i \in RegexDecls PROVE RegexId(i) \in Ids(result)
    BY DEF ParsersAgree
  <2>1. Tree /\ result = Parsed
    BY <1>1 DEF ParserInv
  <2>2. i \in Index /\ source[i].parent = 0 /\ source[i].type \in {"function", "class"}
    BY DEF RegexDecls
  <2>3. Above(i) = {}
    BY <2>1, <2>2, TopIsBare
  <2>4. i \in Decls
    BY <2>2, <2>3 DEF Decls, Visited, Callable, Is
  <2>5. ClassOf(i) = Top
    BY <2>3 DEF ClassOf, Classes
  <2>6. KindOf(i) = IF source[i].type = "class" THEN "Class" ELSE "Function"
    BY <2>2, <2>5 DEF KindOf, Is
  <2>7. DeclId(i) = RegexId(i)
    BY <2>6 DEF DeclId, RegexId, Is
  <2> QED
    BY <2>1, <2>4, <2>7, ParsedNodes
<1> QED
  BY <1>1, ParserInvHolds, PTL

-----------------------------------------------------------------------------
(* The scope a name is bound in.                                           *)
LEMMA BoundInMeans ==
  ASSUME Tree, NEW t \in Index
  PROVE  /\ BoundIn(t) = 0 \/ (BoundIn(t) \in Above(t) /\ (Is(BoundIn(t), "if") => ~Python))
         /\ BoundIn(t) \in Nat
         /\ \A a \in Above(t) : (Is(a, "if") => ~Python) => a <= BoundIn(t)
<1> DEFINE S == {0} \cup {a \in Above(t) : Is(a, "if") => ~Python}
<1>1. Len(source) \in Nat /\ Index = 1..Len(source) /\ Above(t) \subseteq Index
  BY TreeTyped DEF Index, Tree
<1>2. S \in SUBSET (0..Len(source)) /\ S # {}
  BY <1>1
<1>3. BoundIn(t) = Innermost(S)
  BY DEF BoundIn
<1> HIDE DEF S
<1>4. BoundIn(t) \in S /\ \A b \in S : b <= BoundIn(t)
  BY <1>1, <1>2, <1>3, InnermostIs
<1> QED
  BY <1>1, <1>2, <1>4 DEF S

(* What is bound in a class is in that class's body, for the walk too.     *)
LEMMA MethodsAreInClass ==
  ASSUME Tree, ParserAssumption, NEW t \in Index, NEW class, MethodOf(class, t),
         Visited(t)
  PROVE  /\ class \in Above(t) /\ ClassOf(t) = source[class].name /\ t \in Decls
         /\ KindOf(t) = "Method" /\ Callable(t)
<1>1. /\ class = BoundIn(t) /\ class # 0 /\ source[class].type = "class"
      /\ source[t].type \in Callables
  BY DEF MethodOf, Is
<1>2. class \in Above(t) /\ class \in Index /\ class \in Nat
  BY <1>1, BoundInMeans, TreeTyped
<1>3. \A a \in Above(t) : a \in Nat /\ (source[a].type = "class" => a <= class)
  BY <1>1, BoundInMeans, TreeTyped DEF Is
<1>4. Innermost(Classes(t)) = class /\ Classes(t) # {}
  <2>1. Classes(t) \in SUBSET Nat /\ class \in Classes(t) /\ \A b \in Classes(t) : b <= class
    BY <1>1, <1>2, <1>3 DEF Classes, Is
  <2> QED
    BY <2>1, InnermostIsUnique
<1>5. ClassOf(t) = source[class].name
  BY <1>4 DEF ClassOf
<1>6. source[class].name # Top
  BY <1>1, <1>2 DEF Tree, Nameless
<1>7. ~Python => source[t].type = "method"
  <2> SUFFICES ASSUME ~Python PROVE source[t].type = "method"
    OBVIOUS
  <2>1. source[t].parent = class
    <3>1. class <= source[t].parent /\ source[t].parent \in Above(t)
      BY <1>2, ParentIsInnermost
    <3>2. source[t].parent <= class
      BY <1>1, <3>1, BoundInMeans
    <3> QED
      BY <3>1, <3>2, <1>2, TreeTyped
  <2>2. Holds("class", source[t].type)
    BY <2>1, <1>1, <1>2 DEF Tree, ParentType
  <2> QED
    BY <2>2, <1>1 DEF Holds, Callables
<1>8. Callable(t)
  BY <1>1, <1>5, <1>6, <1>7 DEF Callable, Is, Callables
<1>9. KindOf(t) = "Method"
  BY <1>1, <1>5, <1>6, <1>7, <1>8 DEF KindOf, Is, Callables
<1> QED
  BY <1>2, <1>5, <1>8, <1>9 DEF Decls

(* A call by name, wherever it is in d, means a function that is in the    *)
(* table under that name.                                                  *)
LEMMA NamesAreTabled ==
  ASSUME Tree, NEW d \in Callers, NEW c \in Index, d \in Above(c), Is(c, "call"),
         NEW t \in Meant(c) \cap Decls
  PROVE  DeclId(t) = Callee(d, c)
<1>1. t \in Index /\ source[t].type = "function" /\ source[t].name = source[c].name
      /\ BoundIn(t) \in Scopes(c) /\ Visited(t)
  BY DEF Meant, Is, Decls
<1>2. Callable(d) /\ d \in Index /\ source[d].type \in {"function", "method"}
  BY DEF Callers, Decls, Callable, Is
<1>3. ASSUME Python, NEW a \in Classes(t) PROVE FALSE
  <2> DEFINE b == BoundIn(t)
  <2>1. a \in Above(t) /\ a \in Nat /\ a >= 1 /\ source[a].type = "class"
    BY <1>1, TreeTyped DEF Classes, Is
  <2>2. a <= b /\ b \in Nat /\ b \in Above(t) /\ source[b].type # "if"
    BY <1>1, <1>3, <2>1, BoundInMeans DEF Is
  <2>3. b \in Index /\ source[b].type \in Types \ Leaves
    <3>1. b \in Index
      BY <1>1, <2>2, TreeTyped
    <3>2. source[b].type \notin Leaves
      <4>1. PICK x \in Index : source[x].parent = b
        <5>1. b + 1 \in Index /\ b + 1 <= t /\ b + 1 \in (b + 1)..t
          BY <1>1, <2>2, <3>1, TreeTyped DEF Tree, Index
        <5>2. source[b + 1].parent >= b /\ source[b + 1].parent < b + 1
              /\ source[b + 1].parent \in Nat
          BY <5>1, <2>2, TreeTyped DEF Above
        <5> QED
          BY <5>1, <5>2, <2>2
      <4>2. Holds(source[b].type, source[x].type)
        BY <4>1, <2>1, <2>2 DEF Tree, ParentType
      <4> QED
        BY <4>2, <1>3 DEF Holds
    <3> QED
      BY <3>1, <3>2, TreeTyped
  <2>4. source[b].type # "function"
    BY <1>1, <2>2 DEF Visited, Callable, Is
  <2>5. source[b].type \in {"class", "object"}
    BY <2>2, <2>3, <2>4, <1>3 DEF Types, Nameless, Leaves, Callables
  <2>6. b = BoundIn(c)
    BY <1>1, <2>1, <2>2, <2>5 DEF Scopes, Is
  <2>7. d <= b /\ d # b /\ b \in Above(c)
    BY <1>2, <2>1, <2>2, <2>5, <2>6, BoundInMeans DEF Is
  <2>8. d \in Above(b)
    BY <1>2, <2>2, <2>7, TreeTyped, AboveIsAChain
  <2>9. d \in Above(t)
    BY <1>1, <2>2, <2>8, AboveNests
  <2> QED
    BY <1>1, <1>2, <2>9 DEF Visited
<1>4. KindOf(t) = "Function"
  BY <1>1, <1>3 DEF KindOf, ClassOf, Is
<1> QED
  BY <1>1, <1>4 DEF DeclId, Callee

(* A call of this.f, wherever it is in d, means a method of d's own class. *)
LEMMA MethodsAreTabled ==
  ASSUME Tree, ParserAssumption, NEW d \in Callers, NEW c \in Index, d \in Above(c),
         Is(c, "this"), NEW t \in MeantByThis(c) \cap Decls
  PROVE  DeclId(t) = Callee(d, c) /\ KindOf(d) = "Method"
<1> DEFINE S == {a \in Above(c) : BindsThis(a)}
           m == Innermost(S)
           p == BoundIn(m)
<1>1. /\ t \in Index /\ source[t].name = source[c].name /\ Visited(t)
      /\ S # {} /\ MethodOf(p, m) /\ MethodOf(p, t)
  BY DEF MeantByThis, Decls
<1>2. Above(c) \subseteq 1..Len(source) /\ Len(source) \in Nat
  BY TreeTyped DEF Tree, Index
<1>3. m \in S /\ \A b \in S : b <= m
  <2>1. S \in SUBSET (0..Len(source))
    BY <1>2
  <2> QED
    BY <2>1, <1>1, <1>2, InnermostIs
<1>4. m \in Above(c) /\ m \in Index /\ m \in Nat /\ source[m].type \in Callables
  BY <1>3, TreeTyped DEF BindsThis
<1> HIDE DEF S, m
<1>5. /\ d \in Index /\ d \in Nat /\ Callable(d) /\ Visited(d)
      /\ source[d].type \in {"function", "method"} /\ source[d].type \in Callables
  <2>1. d \in Index /\ Callable(d) /\ Visited(d)
    BY DEF Callers, Decls
  <2>2. source[d].type \in {"function", "method"} /\ source[d].type \in Types
    BY <2>1, TreeTyped DEF Callable, Is
  <2> QED
    BY <2>1, <2>2, TreeTyped DEF Types, Nameless, Leaves
<1>6. /\ p \in Above(m) /\ p \in Above(t) /\ p \in Nat /\ p \in Index
      /\ source[p].type = "class"
  <2>1. p # 0 /\ source[p].type = "class" /\ BoundIn(t) = p
    BY <1>1 DEF MethodOf, Is
  <2>2. p \in Above(m) /\ p \in Above(t)
    BY <2>1, <1>1, <1>4, BoundInMeans
  <2> QED
    BY <2>1, <2>2, <1>4, TreeTyped
<1>7. ~(d < m)
  <2> SUFFICES ASSUME d < m PROVE FALSE
    OBVIOUS
  <2>1. d \in Above(m)
    BY <1>4, AboveIsAChain
  <2>2. d <= p /\ d # p
    BY <2>1, <1>4, <1>5, <1>6, BoundInMeans DEF Is
  <2>3. d \in Above(p)
    BY <2>1, <2>2, <1>4, <1>5, <1>6, AboveIsAChain
  <2>4. d \in Above(t)
    BY <2>3, <1>1, <1>6, AboveNests
  <2> QED
    BY <2>4, <1>1, <1>5 DEF Visited
<1>8. ~(m < d)
  <2> SUFFICES ASSUME m < d PROVE FALSE
    OBVIOUS
  <2>1. CASE Python
    <3>1. m \in Above(d)
      BY <1>4, AboveIsAChain
    <3>2. Callable(m)
      BY <1>4, <2>1 DEF Callable, Callables, Is
    <3> QED
      BY <3>1, <3>2, <1>5 DEF Visited
  <2>2. CASE ~Python
    <3>1. d \in S
      BY <2>2, <1>5 DEF S, BindsThis
    <3> QED
      BY <3>1, <1>3, <1>4, <1>5
  <2> QED
    BY <2>1, <2>2
<1>9. d = m
  BY <1>4, <1>5, <1>7, <1>8
<1>10. ClassOf(t) = source[p].name /\ KindOf(t) = "Method"
  BY <1>1, MethodsAreInClass
<1>11. ClassOf(d) = source[p].name /\ KindOf(d) = "Method"
  BY <1>1, <1>5, <1>9, MethodsAreInClass
<1>12. DeclId(t) = Id("Method", source[p].name, source[c].name)
  BY <1>1, <1>10 DEF DeclId
<1>13. Callee(d, c) = Id("Method", source[p].name, source[c].name)
  BY <1>11 DEF DeclId, Callee, Is, Id
<1> QED
  BY <1>11, <1>12, <1>13

(* No call between two declarations of the graph is lost, wherever the     *)
(* call is nested.                                                         *)
THEOREM CallsAreFoundHolds == ParserSpec => []CallsAreFound
<1>1. ASSUME ParserInv PROVE CallsAreFound
  <2> SUFFICES ASSUME fresh, NEW d \in Callers, NEW c \in Index, d \in Above(c),
                      source[c].type \in Leaves, NEW t \in Targets(c) \cap Decls,
                      DeclId(t) # DeclId(d)
               PROVE  [src |-> DeclId(d), type |-> "CALLS", dst |-> DeclId(t)] \in result.edges
    BY DEF CallsAreFound
  <2>1. Tree /\ result = Parsed
    BY <1>1 DEF ParserInv
  <2>2. DeclId(t) = Callee(d, c) /\ (Is(c, "call") \/ KindOf(d) = "Method")
    <3>1. CASE Is(c, "call")
      <4>1. t \in Meant(c) \cap Decls
        BY <3>1 DEF Targets
      <4> QED
        BY <4>1, <3>1, <2>1, NamesAreTabled
    <3>2. CASE Is(c, "this")
      <4>1. t \in MeantByThis(c) \cap Decls
        BY <3>2 DEF Targets, Is
      <4> QED
        BY <4>1, <3>2, <2>1, ParserAssumption, MethodsAreTabled
    <3> QED
      BY <3>1, <3>2 DEF Leaves, Is
  <2>3. InTable(Callee(d, c))
    <3>1. Found(DeclId(t), t) \in DeclNodes /\ Found(DeclId(t), t).id = DeclId(t)
      BY DEF DeclNodes, Found
    <3> QED
      BY <3>1, <2>2 DEF InTable
  <2>4. c \in Tabled(d)
    BY <2>2, <2>3 DEF Tabled, CallSites, Inside
  <2>5. [src |-> DeclId(d), type |-> "CALLS", dst |-> Callee(d, c)] \in Calls
    BY <2>4 DEF Calls
  <2> QED
    BY <2>1, <2>2, <2>5 DEF Parsed
<1> QED
  BY <1>1, ParserInvHolds, PTL

-----------------------------------------------------------------------------
(* The edges of a parse that lead to other files.                          *)
LEMMA OtherFilesMeans ==
  \A e : e \in Parsed.edges /\ e.dst.kind = "File" <=>
           \E f \in FileImports : e = [src |-> FileId, type |-> "IMPORTS", dst |-> OtherFileId(f)]
<1>1. Parsed.edges = Contains \cup Calls \cup Imports
  BY DEF Parsed
<1>2. ASSUME NEW e \in Contains PROVE e.dst.kind # "File"
  <2>1. \A n \in DeclNodes : n.id.kind # "File"
    BY DEF DeclNodes, Found, DeclId, Id, KindOf
  <2>2. \A n \in BlockNodes : n.id.kind # "File"
    BY DEF BlockNodes, Found, BlockId
  <2> QED
    BY <2>1, <2>2 DEF Contains
<1>3. ASSUME NEW e \in Calls PROVE e.dst.kind # "File"
  BY DEF Calls, Callee, Id
<1>4. ASSUME NEW e \in Imports, e.dst.kind = "File"
      PROVE  \E f \in FileImports : e = [src |-> FileId, type |-> "IMPORTS", dst |-> OtherFileId(f)]
  <2>1. \A n \in ImportNodes : n.id.kind = "Import"
    BY DEF ImportNodes, Found, ImportId
  <2>2. e \in [src: {FileId}, type: {"IMPORTS"}, dst: {OtherFileId(f) : f \in FileImports}]
    BY <1>4, <2>1 DEF Imports
  <2> QED
    BY <2>2
<1>5. ASSUME NEW f \in FileImports
      PROVE  LET e == [src |-> FileId, type |-> "IMPORTS", dst |-> OtherFileId(f)]
             IN  e \in Imports /\ e.dst.kind = "File"
  BY DEF Imports, OtherFileId
<1> QED
  BY <1>1, <1>2, <1>3, <1>4, <1>5

(* An import of a script is an edge to exactly the file its specifier      *)
(* leads to, however it climbs and descends.                               *)
THEOREM ReachesItsFileHolds == ParserSpec => []ReachesItsFile
<1>1. ASSUME ParserInv PROVE ReachesItsFile
  <2> DEFINE Paths == {e.dst.path : e \in ToOtherFiles}
             Expected == IF Python THEN {} ELSE {Named(s) : s \in {i \in imports : Names(i)}}
  <2> SUFFICES ASSUME fresh PROVE Paths = Expected
    BY DEF ReachesItsFile
  <2>1. result = Parsed /\ imports \subseteq Specifier
    BY <1>1 DEF ParserInv, ParserTypeOK
  <2>2. \A f : f \in Paths <=> f \in FileImports
    <3>1. ASSUME NEW f \in FileImports PROVE f \in Paths
      <4> DEFINE e == [src |-> FileId, type |-> "IMPORTS", dst |-> OtherFileId(f)]
      <4>1. e \in Parsed.edges /\ e.dst.kind = "File"
        BY OtherFilesMeans
      <4>2. e \in ToOtherFiles /\ e.dst.path = f
        BY <4>1, <2>1 DEF ToOtherFiles, OtherFileId
      <4> QED
        BY <4>2
    <3>2. ASSUME NEW e \in ToOtherFiles PROVE e.dst.path \in FileImports
      <4>1. e \in Parsed.edges /\ e.dst.kind = "File"
        BY <2>1 DEF ToOtherFiles
      <4>2. PICK f \in FileImports :
              e = [src |-> FileId, type |-> "IMPORTS", dst |-> OtherFileId(f)]
        BY <4>1, OtherFilesMeans
      <4> QED
        BY <4>2 DEF OtherFileId
    <3> QED
      BY <3>1, <3>2
  <2>3. \A f : f \in FileImports <=> f \in Expected
    <3>1. CASE Python
      BY <3>1 DEF FileImports
    <3>2. CASE ~Python
      <4>1. \A s \in imports : /\ Names(s) => Resolve(s) = Named(s) /\ Named(s) # Nowhere
                               /\ ~Names(s) => Resolve(s) = Nowhere
        BY <2>1, ImportPathsAssumption, ResolveIsNamed
      <4>2. FileImports = {Resolve(s) : s \in imports} \ {Nowhere}
        BY <3>2 DEF FileImports
      <4>3. Expected = {Named(s) : s \in {i \in imports : Names(i)}}
        BY <3>2
      <4> QED
        BY <4>1, <4>2, <4>3
    <3> QED
      BY <3>1, <3>2
  <2> HIDE DEF Paths, Expected
  <2> QED
    BY <2>2, <2>3
<1> QED
  BY <1>1, ParserInvHolds, PTL
=============================================================================
