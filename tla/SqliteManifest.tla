---------------------------- MODULE SqliteManifest ----------------------------
(***************************************************************************)
(* SqliteManifestStore (sqlite.ts): one database file shared by the        *)
(* processes that opened it.  better-sqlite3 is synchronous, so the        *)
(* statements of one call never interleave with another call of the same   *)
(* process; they do interleave with the other processes, and a process can *)
(* die between any two of them.                                            *)
(*                                                                         *)
(* SQLite itself (WAL journal, deferred transactions) is external: BEGIN   *)
(* is deferred, the first read fixes a snapshot, the first write needs the *)
(* one write lock and a snapshot that is still the newest                  *)
(* (SQLITE_BUSY_SNAPSHOT otherwise), COMMIT publishes the working copy,    *)
(* and a process that dies leaves the last committed state.                *)
(***************************************************************************)
EXTENDS Naturals, Sequences

CONSTANTS Batch, IndexRun, Time, Identity, Null,
          Process,      \* the processes that opened the database file
          MaxCommits    \* bound: commits in one behaviour

ASSUME SqliteAssumption == Null \notin Process /\ MaxCommits \in Nat

VARIABLES db,        \* the last committed rows
          version,   \* how many transactions have committed
          writer,    \* the process holding the write lock, or Null
          tx         \* the open transaction of each process

vars == <<db, version, writer, tx>>

Manifest == INSTANCE ManifestStore
              WITH batches <- db.batches, events <- db.events,
                   ingestions <- db.ingestions

Stage == {"idle", "selected", "updated", "logged"}

NoCall == [op |-> "none"]

Calls ==
  [op: {"record"}, batch: Batch, row: Manifest!BatchManifest]
    \cup [op: {"transition"}, batch: Batch, to: Manifest!Status]
    \cup [op: {"finish"}, run: IndexRun, at: Time]

Idle == [stage |-> "idle", call |-> NoCall, snapshot |-> 0, rows |-> Null]

Init ==
  /\ db = [batches |-> [b \in Batch |-> Null], events |-> <<>>,
           ingestions |-> [i \in IndexRun |-> Null]]
  /\ version = 0
  /\ writer = Null
  /\ tx = [p \in Process |-> Idle]

(* A write statement goes through on the newest snapshot with the lock     *)
(* free; every other attempt ends in Busy.                                 *)
MayWrite(p, snapshot) == writer = Null /\ snapshot = version

At(p, snapshot, stage, call, rows) ==
  tx' = [tx EXCEPT ![p] = [stage |-> stage, call |-> call,
                           snapshot |-> snapshot, rows |-> rows]]

Enter(p, stage, call, rows) == At(p, version, stage, call, rows)

Proceed(p, stage, call, rows) == At(p, tx[p].snapshot, stage, call, rows)

(***************************************************************************)
(* recordBatch: the INSERT is the transaction's first statement, so its    *)
(* snapshot is the newest one.  A duplicate primary key throws before      *)
(* anything was written, so that call is no step at all.                   *)
(***************************************************************************)
InsertBatch(p, b, m) ==
  /\ tx[p].stage = "idle" /\ version < MaxCommits
  /\ MayWrite(p, version)
  /\ db.batches[b] = Null
  /\ writer' = p
  /\ Enter(p, "updated", [op |-> "record", batch |-> b, row |-> m],
           [db EXCEPT !.batches[b] = m])
  /\ UNCHANGED <<db, version>>

(* transitionBatch: the SELECT and the state machine's check.  An unknown  *)
(* batch or an illegal transition throws before any write.                 *)
SelectBatch(p, b, to) ==
  /\ tx[p].stage = "idle" /\ version < MaxCommits
  /\ db.batches[b] # Null
  /\ Manifest!CanTransition(db.batches[b].status, to)
  /\ Enter(p, "selected", [op |-> "transition", batch |-> b, to |-> to], db)
  /\ UNCHANGED <<db, version, writer>>

(* The same method without its transaction: the UPDATE commits by itself.  *)
UnwrappedUpdate(p, now) ==
  LET c == tx[p].call
      row == Manifest!Moved(db.batches[c.batch], c.to, now) IN
  /\ tx[p].stage = "selected" /\ c.op = "transition"
  /\ MayWrite(p, version)
  /\ db' = [db EXCEPT !.batches[c.batch] = row]
  /\ version' = version + 1
  /\ Enter(p, "updated", [op |-> "transition", batch |-> c.batch, to |-> c.to,
                          from |-> db.batches[c.batch].status, at |-> now],
           [db EXCEPT !.batches[c.batch] = row])
  /\ UNCHANGED writer

(* transitionBatch: the clock is read and the row updated in the snapshot. *)
UpdateBatch(p, now) ==
  LET c == tx[p].call
      rows == tx[p].rows IN
  /\ tx[p].stage = "selected" /\ c.op = "transition"
  /\ MayWrite(p, tx[p].snapshot)
  /\ writer' = p
  /\ Proceed(p, "updated", [op |-> "transition", batch |-> c.batch, to |-> c.to,
                            from |-> rows.batches[c.batch].status, at |-> now],
             [rows EXCEPT !.batches[c.batch] = Manifest!Moved(@, c.to, now)])
  /\ UNCHANGED <<db, version>>

(* Both methods: the batch_event row, in the same transaction.             *)
EventOf(c) ==
  IF c.op = "record" THEN Manifest!Event(c.batch, Null, c.row.status, c.row.createdAt)
                     ELSE Manifest!Event(c.batch, c.from, c.to, c.at)

InsertEvent(p) ==
  LET c == tx[p].call IN
  /\ tx[p].stage = "updated"
  /\ Proceed(p, "logged", c, [tx[p].rows EXCEPT !.events = Append(@, EventOf(c))])
  /\ UNCHANGED <<db, version, writer>>

(* recordIngestion: one statement outside a transaction (autocommit).      *)
RecordIngestion(p, i, m) ==
  /\ tx[p].stage = "idle" /\ version < MaxCommits
  /\ MayWrite(p, version)
  /\ db' = [db EXCEPT !.ingestions[i] = m]
  /\ version' = version + 1
  /\ UNCHANGED <<writer, tx>>

(* finishIngestion: SELECT (an unknown run throws), then UPDATE.           *)
SelectIngestion(p, i, at) ==
  /\ tx[p].stage = "idle" /\ version < MaxCommits
  /\ db.ingestions[i] # Null
  /\ Enter(p, "selected", [op |-> "finish", run |-> i, at |-> at], db)
  /\ UNCHANGED <<db, version, writer>>

UpdateIngestion(p) ==
  LET c == tx[p].call IN
  /\ tx[p].stage = "selected" /\ c.op = "finish"
  /\ MayWrite(p, tx[p].snapshot)
  /\ writer' = p
  /\ Proceed(p, "logged", c, [tx[p].rows EXCEPT !.ingestions[c.run].finishedAt = c.at])
  /\ UNCHANGED <<db, version>>

Commit(p) ==
  /\ tx[p].stage = "logged"
  /\ db' = tx[p].rows
  /\ version' = version + 1
  /\ writer' = Null
  /\ tx' = [tx EXCEPT ![p] = Idle]

LockAfterAbandon(p) == IF writer = p THEN Null ELSE writer

Abandon(p) ==
  /\ writer' = LockAfterAbandon(p)
  /\ tx' = [tx EXCEPT ![p] = Idle]
  /\ UNCHANGED <<db, version>>

(* The UPDATE throws, and better-sqlite3 rolls back: SQLITE_BUSY after the *)
(* lock timeout, or SQLITE_BUSY_SNAPSHOT at once when another process has  *)
(* committed since the SELECT.                                             *)
Busy(p) ==
  /\ tx[p].stage = "selected" /\ ~MayWrite(p, tx[p].snapshot)
  /\ Abandon(p)

(* A statement fails on I/O, or the process dies and another one takes its *)
(* place: either way the open transaction is gone.                         *)
Crash(p) ==
  /\ tx[p].stage # "idle"
  /\ Abandon(p)

(* The calls if they took a busy database for a reason to try again.       *)
RetryingStep(p) ==
  \/ \E now \in Time : UpdateBatch(p, now)
  \/ InsertEvent(p)
  \/ UpdateIngestion(p)
  \/ Commit(p)

Step(p) ==
  \/ \E now \in Time : UpdateBatch(p, now)
  \/ InsertEvent(p)
  \/ UpdateIngestion(p)
  \/ Commit(p)
  \/ Busy(p)

Start(p) ==
  \/ \E b \in Batch, m \in Manifest!BatchManifest : InsertBatch(p, b, m)
  \/ \E b \in Batch, to \in Manifest!Status : SelectBatch(p, b, to)
  \/ \E i \in IndexRun, m \in Manifest!IngestionManifest :
       RecordIngestion(p, i, m)
  \/ \E i \in IndexRun, at \in Time : SelectIngestion(p, i, at)

Next == \E p \in Process : Start(p) \/ Step(p) \/ Crash(p)

(* A call that was made runs on: the thread is inside native code until    *)
(* the transaction commits or throws.  Nobody has to make a call.          *)
Spec == Init /\ [][Next]_vars /\ \A p \in Process : WF_vars(Step(p))

-----------------------------------------------------------------------------
TypeOK ==
  /\ db \in [batches: [Batch -> Manifest!BatchManifest \cup {Null}],
             events: Seq(Manifest!BatchEvent),
             ingestions: [IndexRun -> Manifest!IngestionManifest \cup {Null}]]
  /\ version \in 0..MaxCommits
  /\ writer \in Process \cup {Null}
  /\ \A p \in Process : tx[p].stage \in Stage

(* The durable unit of manifest-store.ts: what other processes (and the    *)
(* next process after a crash) see changes only by whole method calls.     *)
Refines == Manifest!Spec

(* Every call ends: of two deferred transactions that have both read and   *)
(* now want to write, the loser is told, and waits for nobody.             *)
CallsReturn == \A p \in Process : tx[p].stage # "idle" ~> tx[p].stage = "idle"

=============================================================================
