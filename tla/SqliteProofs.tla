----------------------------- MODULE SqliteProofs -----------------------------
(***************************************************************************)
(* The SQLite backend implements the contract of ManifestStore, for any    *)
(* processes, batches and runs: what its transactions commit are whole     *)
(* calls.  The invariant says what an open transaction has in hand: on a   *)
(* snapshot that is still the newest, the committed rows plus what the     *)
(* call did so far; on an older one it will be refused.                    *)
(***************************************************************************)
EXTENDS SqliteManifest, TLAPS

Rows == [batches: [Batch -> Manifest!BatchManifest \cup {Null}],
         events: Seq(Manifest!BatchEvent),
         ingestions: [IndexRun -> Manifest!IngestionManifest \cup {Null}]]

Stamped == [op: {"transition"}, batch: Batch, to: Manifest!Status,
            from: Manifest!Status, at: Time]

Tx == [stage: Stage, call: Calls \cup Stamped \cup {NoCall}, snapshot: Nat,
       rows: Rows \cup {Null}]

(* The call may go on: what its SELECT was checked for still holds.        *)
Selected(c) ==
  \/ /\ c.op = "transition" /\ c.batch \in Batch /\ c.to \in Manifest!Status
     /\ db.batches[c.batch] # Null
     /\ Manifest!CanTransition(db.batches[c.batch].status, c.to)
  \/ /\ c.op = "finish" /\ c.run \in IndexRun /\ c.at \in Time
     /\ db.ingestions[c.run] # Null

BatchWritten(c, rows) ==
  \/ /\ c.op = "record" /\ c.batch \in Batch /\ c.row \in Manifest!BatchManifest
     /\ db.batches[c.batch] = Null
     /\ rows.batches = [db.batches EXCEPT ![c.batch] = c.row]
  \/ /\ c.op = "transition" /\ c.batch \in Batch /\ c.to \in Manifest!Status
     /\ c.at \in Time
     /\ db.batches[c.batch] # Null /\ c.from = db.batches[c.batch].status
     /\ Manifest!CanTransition(c.from, c.to)
     /\ rows.batches = [db.batches EXCEPT
                          ![c.batch] = Manifest!Moved(db.batches[c.batch], c.to, c.at)]

RunFinished(c, rows) ==
  /\ c.op = "finish" /\ c.run \in IndexRun /\ c.at \in Time
  /\ db.ingestions[c.run] # Null
  /\ rows.ingestions = [db.ingestions EXCEPT ![c.run].finishedAt = c.at]

Holding == {"updated", "logged"}

InHand(t) ==
  /\ t.stage = "selected" /\ t.snapshot = version => t.rows = db /\ Selected(t.call)
  /\ t.stage = "updated" =>
       /\ BatchWritten(t.call, t.rows)
       /\ t.rows.events = db.events /\ t.rows.ingestions = db.ingestions
  /\ t.stage = "logged" =>
       \/ /\ BatchWritten(t.call, t.rows)
          /\ t.rows.events = Append(db.events, EventOf(t.call))
          /\ t.rows.ingestions = db.ingestions
       \/ /\ RunFinished(t.call, t.rows)
          /\ t.rows.batches = db.batches /\ t.rows.events = db.events

Inv ==
  /\ db \in Rows /\ version \in 0..MaxCommits
  /\ writer \in Process \cup {Null}
  /\ tx \in [Process -> Tx]
  /\ \A p \in Process :
       /\ tx[p].snapshot <= version
       /\ tx[p].stage # "idle" => tx[p].rows \in Rows /\ tx[p].snapshot < MaxCommits
       /\ tx[p].stage \in Holding <=> writer = p
       /\ tx[p].stage \in Holding => tx[p].snapshot = version
       /\ InHand(tx[p])

(* The rows a transaction commits are typed.                               *)
LEMMA MovedIsTyped ==
  ASSUME NEW row \in Manifest!BatchManifest, NEW to \in Manifest!Status, NEW now \in Time
  PROVE  Manifest!Moved(row, to, now) \in Manifest!BatchManifest
  BY DEF Manifest!Moved, Manifest!CommittedAt, Manifest!BatchManifest

(* Replacing one table of typed rows.                                      *)
LEMMA OneTable ==
  ASSUME NEW r \in Rows, NEW v
  PROVE  /\ [r EXCEPT !.batches = v] =
              [batches |-> v, events |-> r.events, ingestions |-> r.ingestions]
         /\ [r EXCEPT !.events = v] =
              [batches |-> r.batches, events |-> v, ingestions |-> r.ingestions]
         /\ [r EXCEPT !.ingestions = v] =
              [batches |-> r.batches, events |-> r.events, ingestions |-> v]
  BY DEF Rows

(* A step that leaves the committed rows alone and moves one transaction.  *)
LEMMA TxStep ==
  ASSUME Inv, NEW p \in Process, NEW t \in Tx, UNCHANGED <<db, version>>,
         tx' = [tx EXCEPT ![p] = t],
         t.snapshot <= version,
         t.stage # "idle" => t.rows \in Rows /\ t.snapshot < MaxCommits,
         t.stage \in Holding => t.snapshot = version,
         InHand(t),
         \/ /\ writer' = p /\ writer \in {p, Null} /\ t.stage \in Holding
         \/ /\ writer' = (IF writer = p THEN Null ELSE writer)
            /\ t.stage \notin Holding
  PROVE  Inv'
<1>1. \A q \in Process : tx'[q] = IF q = p THEN t ELSE tx[q]
  BY DEF Inv
<1>2. tx' \in [Process -> Tx] /\ writer' \in Process \cup {Null}
  BY DEF Inv
<1>3. ASSUME NEW q \in Process, q # p
      PROVE  InHand(tx[q])' /\ tx'[q] = tx[q]
  <2>1. tx'[q] = tx[q] /\ db' = db /\ version' = version
    BY <1>1, <1>3
  <2>2. InHand(tx[q])
    BY DEF Inv
  <2> QED
    BY <2>1, <2>2 DEF InHand, Selected, BatchWritten, RunFinished
<1>4. InHand(t)'
  BY DEF InHand, Selected, BatchWritten, RunFinished
<1>5. \A q \in Process : tx'[q].stage \in Holding <=> writer' = q
  BY <1>1, SqliteAssumption DEF Inv
<1> QED
  BY <1>1, <1>2, <1>3, <1>4, <1>5 DEF Inv

LEMMA InsertBatchKeeps ==
  ASSUME Inv, NEW p \in Process, NEW b \in Batch, NEW m \in Manifest!BatchManifest,
         InsertBatch(p, b, m)
  PROVE  Inv' /\ UNCHANGED db
<1> DEFINE call == [op |-> "record", batch |-> b, row |-> m]
           rows == [db EXCEPT !.batches[b] = m]
           t == [stage |-> "updated", call |-> call, snapshot |-> version, rows |-> rows]
<1>1. /\ tx' = [tx EXCEPT ![p] = t] /\ writer' = p /\ writer = Null
      /\ version < MaxCommits /\ db.batches[b] = Null
      /\ UNCHANGED <<db, version>>
  BY DEF InsertBatch, Enter, At, MayWrite
<1>2. rows = [batches |-> [db.batches EXCEPT ![b] = m], events |-> db.events,
              ingestions |-> db.ingestions] /\ rows \in Rows
  <2>1. db \in Rows
    BY DEF Inv
  <2>2. [db.batches EXCEPT ![b] = m] \in [Batch -> Manifest!BatchManifest \cup {Null}]
    BY <2>1 DEF Rows
  <2>3. rows = [batches |-> [db.batches EXCEPT ![b] = m], events |-> db.events,
                ingestions |-> db.ingestions]
    BY <2>1 DEF Rows
  <2> QED
    BY <2>1, <2>2, <2>3 DEF Rows
<1>3. call \in Calls
  BY DEF Calls
<1>4. version \in Nat
  BY SqliteAssumption DEF Inv
<1>5. t \in Tx
  BY <1>2, <1>3, <1>4 DEF Tx, Stage
<1>6. InHand(t)
  BY <1>1, <1>2 DEF InHand, BatchWritten
<1> HIDE DEF call, rows
<1>7. /\ t.snapshot <= version /\ t.rows \in Rows /\ t.snapshot < MaxCommits
      /\ t.snapshot = version /\ t.stage \in Holding
  BY <1>1, <1>2, <1>4 DEF Holding
<1> HIDE DEF t
<1> QED
  BY <1>1, <1>5, <1>6, <1>7, TxStep

LEMMA SelectKeeps ==
  ASSUME Inv, NEW p \in Process,
         \/ \E b \in Batch, to \in Manifest!Status : SelectBatch(p, b, to)
         \/ \E i \in IndexRun, at \in Time : SelectIngestion(p, i, at)
  PROVE  Inv' /\ UNCHANGED db
<1> DEFINE Enters(call) ==
             /\ tx' = [tx EXCEPT ![p] = [stage |-> "selected", call |-> call,
                                         snapshot |-> version, rows |-> db]]
             /\ tx[p].stage = "idle" /\ version < MaxCommits
             /\ Selected(call) /\ UNCHANGED <<db, version, writer>>
<1>1. PICK call \in Calls : Enters(call)
  <2>1. ASSUME NEW b \in Batch, NEW to \in Manifest!Status, SelectBatch(p, b, to)
        PROVE  \E call \in Calls : Enters(call)
    <3>1. [op |-> "transition", batch |-> b, to |-> to] \in Calls
      BY DEF Calls
    <3>2. Enters([op |-> "transition", batch |-> b, to |-> to])
      BY <2>1 DEF SelectBatch, Enter, At, Selected
    <3> QED
      BY <3>1, <3>2
  <2>2. ASSUME NEW i \in IndexRun, NEW at \in Time, SelectIngestion(p, i, at)
        PROVE  \E call \in Calls : Enters(call)
    <3>1. [op |-> "finish", run |-> i, at |-> at] \in Calls
      BY DEF Calls
    <3>2. Enters([op |-> "finish", run |-> i, at |-> at])
      BY <2>2 DEF SelectIngestion, Enter, At, Selected
    <3> QED
      BY <3>1, <3>2
  <2> QED
    BY <2>1, <2>2
<1> DEFINE t == [stage |-> "selected", call |-> call, snapshot |-> version, rows |-> db]
<1>2. t \in Tx /\ version \in Nat
  BY SqliteAssumption DEF Tx, Stage, Inv
<1>3. InHand(t)
  BY <1>1 DEF InHand
<1>4. /\ t.snapshot <= version /\ t.rows \in Rows /\ t.snapshot < MaxCommits
      /\ t.snapshot = version /\ t.stage \notin Holding
  BY <1>1, <1>2 DEF Holding, Inv
<1>5. writer # p
  BY <1>1 DEF Inv, Holding
<1> HIDE DEF t
<1> QED
  BY <1>1, <1>2, <1>3, <1>4, <1>5, TxStep DEF t

(* A write on the newest snapshot finds what the SELECT saw.               *)
LEMMA WriterSeesNow ==
  ASSUME Inv, NEW p \in Process, tx[p].stage = "selected", MayWrite(p, tx[p].snapshot)
  PROVE  /\ tx[p].rows = db /\ Selected(tx[p].call) /\ db \in Rows
         /\ tx[p].snapshot = version /\ version < MaxCommits /\ version \in Nat
         /\ writer = Null
         /\ tx[p] \in Tx
  BY SqliteAssumption DEF Inv, MayWrite, InHand

LEMMA UpdateBatchKeeps ==
  ASSUME Inv, NEW p \in Process, NEW now \in Time, UpdateBatch(p, now)
  PROVE  Inv' /\ UNCHANGED db
<1> DEFINE c == tx[p].call
           row == Manifest!Moved(db.batches[c.batch], c.to, now)
           call == [op |-> "transition", batch |-> c.batch, to |-> c.to,
                    from |-> db.batches[c.batch].status, at |-> now]
           rows == [batches |-> [db.batches EXCEPT ![c.batch] = row],
                    events |-> db.events, ingestions |-> db.ingestions]
           t == [stage |-> "updated", call |-> call, snapshot |-> version, rows |-> rows]
<1>1. /\ tx[p].stage = "selected" /\ c.op = "transition"
      /\ writer' = p /\ UNCHANGED <<db, version>>
      /\ tx[p].rows = db /\ Selected(c) /\ db \in Rows
      /\ tx[p].snapshot = version /\ version < MaxCommits /\ version \in Nat
      /\ writer = Null /\ tx[p] \in Tx
  BY WriterSeesNow DEF UpdateBatch
<1>2. /\ c.batch \in Batch /\ c.to \in Manifest!Status
      /\ db.batches[c.batch] # Null /\ db.batches[c.batch] \in Manifest!BatchManifest
      /\ Manifest!CanTransition(db.batches[c.batch].status, c.to)
  BY <1>1 DEF Selected, Rows
<1>3. row \in Manifest!BatchManifest
  BY <1>2, MovedIsTyped
<1>4. rows \in Rows
  <2>1. [db.batches EXCEPT ![c.batch] = row] \in [Batch -> Manifest!BatchManifest \cup {Null}]
    BY <1>1, <1>3 DEF Rows
  <2> QED
    BY <1>1, <2>1 DEF Rows
<1>5. call \in Stamped
  BY <1>2 DEF Stamped, Manifest!BatchManifest
<1>6. tx' = [tx EXCEPT ![p] = t]
  <2>1. rows = [db EXCEPT !.batches = [db.batches EXCEPT ![c.batch] = row]]
    BY <1>1, OneTable
  <2>2. tx[p] = [stage |-> "selected", call |-> c, snapshot |-> version, rows |-> db]
    BY <1>1 DEF Tx
  <2>3. tx' = [tx EXCEPT ![p] = [stage |-> "updated", call |-> call, snapshot |-> version,
                  rows |-> [db EXCEPT !.batches =
                              [db.batches EXCEPT ![c.batch] = row]]]]
    BY <1>1, <2>2 DEF UpdateBatch, Proceed, At
  <2> QED
    BY <2>1, <2>3
<1>7. t \in Tx
  BY <1>1, <1>4, <1>5 DEF Tx, Stage
<1>8. BatchWritten(call, rows)
  BY <1>2 DEF BatchWritten
<1>9. InHand(t)
  BY <1>8 DEF InHand
<1> HIDE DEF c, row, call, rows
<1>10. /\ t.snapshot <= version /\ t.rows \in Rows /\ t.snapshot < MaxCommits
       /\ t.snapshot = version /\ t.stage \in Holding
  BY <1>1, <1>4 DEF Holding
<1> HIDE DEF t
<1> QED
  BY <1>1, <1>6, <1>7, <1>9, <1>10, TxStep

LEMMA UpdateIngestionKeeps ==
  ASSUME Inv, NEW p \in Process, UpdateIngestion(p)
  PROVE  Inv' /\ UNCHANGED db
<1> DEFINE c == tx[p].call
           row == [db.ingestions[c.run] EXCEPT !.finishedAt = c.at]
           rows == [batches |-> db.batches, events |-> db.events,
                    ingestions |-> [db.ingestions EXCEPT ![c.run] = row]]
           t == [stage |-> "logged", call |-> c, snapshot |-> version, rows |-> rows]
<1>1. /\ tx[p].stage = "selected" /\ c.op = "finish"
      /\ writer' = p /\ UNCHANGED <<db, version>>
      /\ tx[p].rows = db /\ Selected(c) /\ db \in Rows
      /\ tx[p].snapshot = version /\ version < MaxCommits /\ version \in Nat
      /\ writer = Null /\ tx[p] \in Tx
  BY WriterSeesNow DEF UpdateIngestion
<1>2. /\ c.run \in IndexRun /\ c.at \in Time /\ db.ingestions[c.run] # Null
      /\ db.ingestions[c.run] \in Manifest!IngestionManifest
  BY <1>1 DEF Selected, Rows
<1>3. row \in Manifest!IngestionManifest
  BY <1>2 DEF Manifest!IngestionManifest
<1>4. rows \in Rows
  <2>1. [db.ingestions EXCEPT ![c.run] = row]
          \in [IndexRun -> Manifest!IngestionManifest \cup {Null}]
    BY <1>1, <1>3 DEF Rows
  <2> QED
    BY <1>1, <2>1 DEF Rows
<1>6. tx' = [tx EXCEPT ![p] = t]
  <2>1. rows = [db EXCEPT !.ingestions = [db.ingestions EXCEPT ![c.run] = row]]
    BY <1>1, OneTable
  <2>2. tx[p] = [stage |-> "selected", call |-> c, snapshot |-> version, rows |-> db]
    BY <1>1 DEF Tx
  <2>3. tx' = [tx EXCEPT ![p] = [stage |-> "logged", call |-> c, snapshot |-> version,
                  rows |-> [db EXCEPT !.ingestions =
                              [db.ingestions EXCEPT ![c.run] = row]]]]
    BY <1>1, <2>2 DEF UpdateIngestion, Proceed, At
  <2> QED
    BY <2>1, <2>3
<1>7. t \in Tx
  BY <1>1, <1>4 DEF Tx, Stage
<1>8. RunFinished(c, rows)
  BY <1>1, <1>2 DEF RunFinished
<1>9. InHand(t)
  BY <1>8 DEF InHand
<1> HIDE DEF c, row, rows
<1>10. /\ t.snapshot <= version /\ t.rows \in Rows /\ t.snapshot < MaxCommits
       /\ t.snapshot = version /\ t.stage \in Holding
  BY <1>1, <1>4 DEF Holding
<1> HIDE DEF t
<1> QED
  BY <1>1, <1>6, <1>7, <1>9, <1>10, TxStep

LEMMA InsertEventKeeps ==
  ASSUME Inv, NEW p \in Process, InsertEvent(p)
  PROVE  Inv' /\ UNCHANGED db
<1> DEFINE c == tx[p].call
           old == tx[p].rows
           rows == [batches |-> old.batches, events |-> Append(old.events, EventOf(c)),
                    ingestions |-> old.ingestions]
           t == [stage |-> "logged", call |-> c, snapshot |-> version, rows |-> rows]
<1>1. /\ tx[p].stage = "updated" /\ tx[p] \in Tx /\ old \in Rows
      /\ UNCHANGED <<db, version, writer>> /\ writer = p
      /\ tx[p].snapshot = version /\ version < MaxCommits /\ version \in Nat
      /\ BatchWritten(c, old) /\ old.events = db.events /\ old.ingestions = db.ingestions
  BY SqliteAssumption DEF InsertEvent, Inv, Holding, InHand
<1>2. EventOf(c) \in Manifest!BatchEvent
  <2>1. CASE c.op = "record"
    BY <1>1, <2>1 DEF EventOf, BatchWritten, Manifest!Event, Manifest!BatchEvent,
                      Manifest!BatchManifest
  <2>2. CASE c.op = "transition"
    BY <1>1, <2>2 DEF EventOf, BatchWritten, Manifest!Event, Manifest!BatchEvent,
                      Manifest!CanTransition, Manifest!Status
  <2> QED
    BY <1>1, <2>1, <2>2 DEF BatchWritten
<1>3. rows \in Rows
  <2>1. Append(old.events, EventOf(c)) \in Seq(Manifest!BatchEvent)
    BY <1>1, <1>2 DEF Rows
  <2> QED
    BY <1>1, <2>1 DEF Rows
<1>4. tx' = [tx EXCEPT ![p] = t]
  <2>1. rows = [old EXCEPT !.events = Append(old.events, EventOf(c))]
    <3>1. old \in Rows
      BY <1>1
    <3> DEFINE log == Append(old.events, EventOf(c))
    <3> HIDE DEF old, log
    <3>2. [old EXCEPT !.events = log] =
            [batches |-> old.batches, events |-> log, ingestions |-> old.ingestions]
      BY <3>1, OneTable
    <3> QED
      BY <3>2 DEF log
  <2>2. tx[p] = [stage |-> "updated", call |-> c, snapshot |-> version, rows |-> old]
    BY <1>1 DEF Tx
  <2>3. tx' = [tx EXCEPT ![p] = [stage |-> "logged", call |-> c, snapshot |-> version,
                  rows |-> [old EXCEPT !.events = Append(old.events, EventOf(c))]]]
    BY <1>1, <2>2 DEF InsertEvent, Proceed, At
  <2> QED
    BY <2>1, <2>3
<1>5. t \in Tx
  BY <1>1, <1>3 DEF Tx, Stage
<1>6. BatchWritten(c, rows)
  BY <1>1 DEF BatchWritten
<1>7. InHand(t)
  BY <1>1, <1>6 DEF InHand
<1> HIDE DEF c, old, rows
<1>8. /\ t.snapshot <= version /\ t.rows \in Rows /\ t.snapshot < MaxCommits
      /\ t.snapshot = version /\ t.stage \in Holding
  BY <1>1, <1>3 DEF Holding
<1> HIDE DEF t
<1> QED
  BY <1>1, <1>4, <1>5, <1>7, <1>8, TxStep

LEMMA AbandonKeeps ==
  ASSUME Inv, NEW p \in Process, Abandon(p)
  PROVE  Inv' /\ UNCHANGED db
<1>1. Idle \in Tx /\ version \in Nat /\ MaxCommits \in Nat
  BY SqliteAssumption DEF Idle, Tx, Stage, Inv
<1>2. InHand(Idle) /\ Idle.stage = "idle" /\ Idle.stage \notin Holding /\ Idle.snapshot = 0
  BY DEF Idle, InHand, Holding
<1>3. /\ UNCHANGED <<db, version>> /\ tx' = [tx EXCEPT ![p] = Idle]
      /\ writer' = (IF writer = p THEN Null ELSE writer)
  BY DEF Abandon, LockAfterAbandon
<1>4. Idle.snapshot <= version
  BY <1>1, <1>2
<1> HIDE DEF Idle
<1> QED
  BY <1>1, <1>2, <1>3, <1>4, TxStep

(* A step that publishes new rows: the lock is free after it, and every    *)
(* other open transaction has lost its snapshot.                           *)
LEMMA PublishKeeps ==
  ASSUME Inv, NEW p \in Process, db' \in Rows, version < MaxCommits,
         version' = version + 1, writer \in {p, Null}, writer' = Null,
         \/ tx' = [tx EXCEPT ![p] = Idle]
         \/ UNCHANGED tx /\ tx[p].stage = "idle"
  PROVE  Inv'
<1>1. version \in Nat /\ MaxCommits \in Nat /\ version' \in 0..MaxCommits /\ version < version'
  BY SqliteAssumption DEF Inv
<1>2. Idle \in Tx /\ Idle.snapshot = 0 /\ Idle.stage = "idle"
  BY DEF Idle, Tx, Stage
<1>3. ASSUME NEW q \in Process
      PROVE  /\ tx'[q] \in Tx /\ tx'[q].snapshot <= version /\ tx'[q].stage \notin Holding
             /\ tx'[q].stage # "idle" => tx'[q].rows \in Rows /\ tx'[q].snapshot < MaxCommits
  <2>1. tx \in [Process -> Tx] /\ tx[q].snapshot <= version
        /\ (tx[q].stage # "idle" => tx[q].rows \in Rows /\ tx[q].snapshot < MaxCommits)
        /\ (tx[q].stage \in Holding => writer = q)
    BY DEF Inv
  <2>2. CASE q = p
    <3>1. tx'[p] = Idle \/ (tx'[p] = tx[p] /\ tx[p].stage = "idle")
      BY <2>1
    <3> HIDE DEF Idle
    <3> QED
      BY <1>1, <1>2, <2>1, <2>2, <3>1 DEF Holding
  <2>3. CASE q # p
    BY <2>1, <2>3, SqliteAssumption
  <2> QED
    BY <2>2, <2>3
<1>4. tx' \in [Process -> Tx]
  BY <1>2, <1>3 DEF Inv
<1>5. ASSUME NEW q \in Process
      PROVE  InHand(tx[q])' /\ tx'[q].snapshot <= version'
  <2>1. tx'[q].snapshot \in Nat
    BY <1>3 DEF Tx
  <2>2. tx'[q].snapshot # version' /\ tx'[q].snapshot <= version'
    BY <1>1, <1>3, <2>1
  <2>3. tx'[q].stage \notin {"updated", "logged"}
    BY <1>3 DEF Holding
  <2> QED
    BY <2>2, <2>3 DEF InHand
<1> QED
  BY <1>1, <1>3, <1>4, <1>5, SqliteAssumption DEF Inv

(* COMMIT publishes one whole call.                                        *)
LEMMA CommitKeeps ==
  ASSUME Inv, NEW p \in Process, Commit(p)
  PROVE  Inv' /\ [Manifest!Next]_(Manifest!vars)
<1> DEFINE c == tx[p].call
           rows == tx[p].rows
<1>1. /\ tx[p].stage = "logged" /\ writer = p /\ rows \in Rows
      /\ tx[p].snapshot = version /\ version < MaxCommits
      /\ db' = rows /\ version' = version + 1 /\ writer' = Null
      /\ tx' = [tx EXCEPT ![p] = Idle]
      /\ InHand(tx[p])
  BY DEF Commit, Inv, Holding
<1>2. Inv'
  BY <1>1, PublishKeeps
<1>3. \/ /\ BatchWritten(c, rows)
         /\ rows.events = Append(db.events, EventOf(c))
         /\ rows.ingestions = db.ingestions
      \/ /\ RunFinished(c, rows)
         /\ rows.batches = db.batches /\ rows.events = db.events
  BY <1>1 DEF InHand
<1>4. CASE /\ BatchWritten(c, rows)
           /\ rows.events = Append(db.events, EventOf(c))
           /\ rows.ingestions = db.ingestions
  <2>1. CASE c.op = "record"
    <3>1. /\ c.batch \in Batch /\ c.row \in Manifest!BatchManifest
          /\ Manifest!RecordBatch(c.batch, c.row)
      BY <1>1, <1>4, <2>1 DEF BatchWritten, EventOf, Manifest!RecordBatch
    <3> QED
      BY <1>2, <3>1 DEF Manifest!Next
  <2>2. CASE c.op = "transition"
    <3>1. /\ c.batch \in Batch /\ c.to \in Manifest!Status /\ c.at \in Time
          /\ Manifest!TransitionBatch(c.batch, c.to, c.at)
      BY <1>1, <1>4, <2>2 DEF BatchWritten, EventOf, Manifest!TransitionBatch
    <3> QED
      BY <1>2, <3>1 DEF Manifest!Next
  <2> QED
    BY <1>4, <2>1, <2>2 DEF BatchWritten
<1>5. CASE /\ RunFinished(c, rows)
           /\ rows.batches = db.batches /\ rows.events = db.events
  <2>1. c.run \in IndexRun /\ c.at \in Time /\ Manifest!FinishIngestion(c.run, c.at)
    BY <1>1, <1>5 DEF RunFinished, Manifest!FinishIngestion
  <2> QED
    BY <1>2, <2>1 DEF Manifest!Next
<1> QED
  BY <1>3, <1>4, <1>5

LEMMA RecordIngestionKeeps ==
  ASSUME Inv, NEW p \in Process, NEW i \in IndexRun, NEW m \in Manifest!IngestionManifest,
         RecordIngestion(p, i, m)
  PROVE  Inv' /\ [Manifest!Next]_(Manifest!vars)
<1>1. /\ tx[p].stage = "idle" /\ version < MaxCommits /\ writer = Null
      /\ db' = [db EXCEPT !.ingestions[i] = m] /\ version' = version + 1
      /\ UNCHANGED <<writer, tx>> /\ db \in Rows
  BY DEF RecordIngestion, MayWrite, Inv
<1>2. db' = [batches |-> db.batches, events |-> db.events,
             ingestions |-> [db.ingestions EXCEPT ![i] = m]]
  BY <1>1 DEF Rows
<1>3. db' \in Rows
  BY <1>1, <1>2 DEF Rows
<1>4. Inv'
  BY <1>1, <1>3, PublishKeeps
<1>5. Manifest!RecordIngestion(i, m)
  BY <1>2 DEF Manifest!RecordIngestion
<1> QED
  BY <1>4, <1>5 DEF Manifest!Next

LEMMA InitHolds == Init => Inv /\ Manifest!Init
<1> SUFFICES ASSUME Init PROVE Inv /\ Manifest!Init
  OBVIOUS
<1>1. db \in Rows /\ Manifest!Init
  BY DEF Init, Rows, Manifest!Init
<1>2. Idle \in Tx /\ Idle.snapshot = 0 /\ Idle.stage = "idle" /\ InHand(Idle)
  BY DEF Idle, Tx, Stage, InHand
<1>3. version = 0 /\ writer = Null /\ tx = [q \in Process |-> Idle]
  BY DEF Init
<1> HIDE DEF Idle
<1> QED
  BY <1>1, <1>2, <1>3, SqliteAssumption DEF Inv, Holding

(* Every step of a process is a whole call of the contract, or nothing that *)
(* another process can see.                                                *)
LEMMA NextKeeps ==
  ASSUME Inv, [Next]_vars
  PROVE  Inv' /\ [Manifest!Next]_(Manifest!vars)
<1>1. CASE UNCHANGED vars
  <2>1. Inv'
    BY <1>1 DEF vars, Inv, InHand, Selected, BatchWritten, RunFinished
  <2> QED
    BY <1>1, <2>1 DEF vars, Manifest!vars
<1>2. ASSUME NEW p \in Process, Start(p) \/ Step(p) \/ Crash(p)
      PROVE  Inv' /\ [Manifest!Next]_(Manifest!vars)
  <2>1. CASE \E b \in Batch, m \in Manifest!BatchManifest : InsertBatch(p, b, m)
    BY <2>1, InsertBatchKeeps DEF Manifest!vars
  <2>2. CASE \/ \E b \in Batch, to \in Manifest!Status : SelectBatch(p, b, to)
             \/ \E i \in IndexRun, at \in Time : SelectIngestion(p, i, at)
    BY <2>2, SelectKeeps DEF Manifest!vars
  <2>3. CASE \E i \in IndexRun, m \in Manifest!IngestionManifest : RecordIngestion(p, i, m)
    BY <2>3, RecordIngestionKeeps
  <2>4. CASE \E now \in Time : UpdateBatch(p, now)
    BY <2>4, UpdateBatchKeeps DEF Manifest!vars
  <2>5. CASE InsertEvent(p)
    BY <2>5, InsertEventKeeps DEF Manifest!vars
  <2>6. CASE UpdateIngestion(p)
    BY <2>6, UpdateIngestionKeeps DEF Manifest!vars
  <2>7. CASE Commit(p)
    BY <2>7, CommitKeeps
  <2>8. CASE Busy(p) \/ Crash(p)
    BY <2>8, AbandonKeeps DEF Busy, Crash, Manifest!vars
  <2> QED
    BY <1>2, <2>1, <2>2, <2>3, <2>4, <2>5, <2>6, <2>7, <2>8 DEF Start, Step
<1> QED
  BY <1>1, <1>2 DEF Next

THEOREM InvHolds == Spec => []Inv
<1>1. Init => Inv
  BY InitHolds
<1>2. Inv /\ [Next]_vars => Inv'
  BY NextKeeps
<1> QED
  BY <1>1, <1>2, PTL DEF Spec

(* The rows, the lock and the transactions keep their types.               *)
THEOREM TypeCorrect == Spec => []TypeOK
<1>1. Inv => TypeOK
  BY DEF Inv, TypeOK, Rows, Tx
<1> QED
  BY <1>1, InvHolds, PTL

(* SqliteManifestStore implements the manifest contract: another process,  *)
(* or the next one after a crash, sees changes only by whole method calls  *)
(* (sqlite.ts wraps recordBatch, transitionBatch and finishIngestion in a  *)
(* transaction each).                                                      *)
THEOREM RefinesHolds == Spec => Refines
<1>1. Init => Manifest!Init
  BY InitHolds
<1>2. Inv /\ [Next]_vars => [Manifest!Next]_(Manifest!vars)
  BY NextKeeps
<1> QED
  BY <1>1, <1>2, InvHolds, PTL DEF Spec, Refines, Manifest!Spec
=============================================================================
