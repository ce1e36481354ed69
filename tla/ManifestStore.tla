---------------------------- MODULE ManifestStore ----------------------------
(***************************************************************************)
(* The manifest/WAL contract of @codesoul/manifest-store and its in-memory *)
(* implementation (memory.ts): every method runs to completion inside one  *)
(* turn of the event loop, so each call is one atomic step.  A call that   *)
(* throws (duplicate batch, unknown batch, illegal transition) changes     *)
(* nothing and is a stuttering step.                                       *)
(*                                                                         *)
(* Hashes, counts, paths and messages are left out: no property tells two  *)
(* of them apart.  SqliteManifest refines this module.                     *)
(***************************************************************************)
EXTENDS Naturals, Sequences

CONSTANTS Batch,      \* batch ids
          IndexRun,   \* index run ids
          Time,       \* the instants a clock reading can return
          Identity,   \* embedder / reranker / tokenizer identities
          Null        \* a missing row, and SQL's NULL

Status == {"pending", "committed", "failed", "dry_run"}

BatchManifest == [run: IndexRun, status: Status,
                  createdAt: Time, committedAt: Time \cup {Null}]

IngestionManifest == [identity: Identity, finishedAt: Time \cup {Null}]

BatchEvent == [batch: Batch, from: Status \cup {Null}, to: Status, at: Time]

ASSUME TimesAreNumbers == Time \subseteq Nat

ASSUME NullIsNoRow ==
  /\ Null \notin Time /\ Null \notin Status /\ Null \notin BatchManifest
  /\ Null \notin IngestionManifest /\ Null \notin IndexRun

VARIABLES batches,     \* the batch_manifest rows by batch id
          events,      \* the batch_event rows; the event id is the position
          ingestions   \* the ingestion_manifest rows by index run id

vars == <<batches, events, ingestions>>

(***************************************************************************)
(* transitions.ts: pending is the only status a batch can leave.           *)
(***************************************************************************)
ReopenableTransition(from, to) == from # to

CanTransition(from, to) ==
  from = "pending" /\ to \in Status \ {"pending"}

(* The commit instant a transition leaves in the row: only a commit stamps. *)
UnstampedCommit(old, to, now) == old

CommittedAt(old, to, now) == IF to = "committed" THEN now ELSE old

Moved(row, to, now) ==
  [row EXCEPT !.status = to,
              !.committedAt = CommittedAt(row.committedAt, to, now)]

SwappedEvent(b, from, to, now) ==
  [batch |-> b, from |-> to, to |-> from, at |-> now]

Event(b, from, to, now) == [batch |-> b, from |-> from, to |-> to, at |-> now]

(***************************************************************************)
(* The methods.                                                            *)
(***************************************************************************)
Init == /\ batches = [b \in Batch |-> Null]
        /\ events = <<>>
        /\ ingestions = [i \in IndexRun |-> Null]

UpsertBatch(b, m) ==
  /\ batches' = [batches EXCEPT ![b] = m]
  /\ events' = Append(events, Event(b, Null, m.status, m.createdAt))
  /\ Len(events) < 4
  /\ UNCHANGED ingestions

RecordBatch(b, m) ==
  /\ batches[b] = Null
  /\ batches' = [batches EXCEPT ![b] = m]
  /\ events' = Append(events, Event(b, Null, m.status, m.createdAt))
  /\ UNCHANGED ingestions

TransitionBatch(b, to, now) ==
  /\ batches[b] # Null
  /\ CanTransition(batches[b].status, to)
  /\ batches' = [batches EXCEPT ![b] = Moved(batches[b], to, now)]
  /\ events' = Append(events, Event(b, batches[b].status, to, now))
  /\ UNCHANGED ingestions

RecordIngestion(i, m) ==
  /\ ingestions' = [ingestions EXCEPT ![i] = m]
  /\ UNCHANGED <<batches, events>>

FinishIngestion(i, now) ==
  /\ ingestions[i] # Null
  /\ ingestions' = [ingestions EXCEPT ![i].finishedAt = now]
  /\ UNCHANGED <<batches, events>>

Next ==
  \/ \E b \in Batch, m \in BatchManifest : RecordBatch(b, m)
  \/ \E b \in Batch, to \in Status, now \in Time : TransitionBatch(b, to, now)
  \/ \E i \in IndexRun, m \in IngestionManifest : RecordIngestion(i, m)
  \/ \E i \in IndexRun, now \in Time : FinishIngestion(i, now)

Spec == Init /\ [][Next]_vars

-----------------------------------------------------------------------------
(* Type correctness. *)
TypeOK ==
  /\ batches \in [Batch -> BatchManifest \cup {Null}]
  /\ events \in Seq(BatchEvent)
  /\ ingestions \in [IndexRun -> IngestionManifest \cup {Null}]

(* The audit trail explains every row: a batch exists exactly when it has  *)
(* an event, and the last event of a batch names the status of its row     *)
(* (manifest-store.ts: "append-only history of status transitions").       *)
LastEvent(b, k) == /\ events[k].batch = b
                   /\ \A j \in DOMAIN events : j > k => events[j].batch # b

StatusIsLastEvent ==
  \A b \in Batch :
    IF batches[b] = Null
    THEN \A k \in DOMAIN events : events[k].batch # b
    ELSE \E k \in DOMAIN events :
           LastEvent(b, k) /\ events[k].to = batches[b].status

(* Two events of one batch are its creation as pending and the one         *)
(* transition that resolved it, in that order: the history has no gap, no  *)
(* second creation and no second resolution.                               *)
AtMostOneResolution ==
  \A j, k \in DOMAIN events :
    j < k /\ events[j].batch = events[k].batch =>
      /\ events[j].from = Null /\ events[j].to = "pending"
      /\ events[k].from = "pending"

LegalSteps ==
  \A k \in DOMAIN events :
    events[k].from = Null \/ CanTransition(events[k].from, events[k].to)

AuditTrail == StatusIsLastEvent /\ AtMostOneResolution /\ LegalSteps

(* A commit in the trail and the row's committedAt are the same instant    *)
(* (the transition stamps both from one clock reading).                    *)
CommitStamp ==
  \A k \in DOMAIN events :
    events[k].from = "pending" /\ events[k].to = "committed" =>
      batches[events[k].batch].committedAt = events[k].at

(* A resolved batch never changes again, whatever is called.               *)
Resolved(b) == batches[b] # Null /\ batches[b].status # "pending"

TerminalIsFinal ==
  [][\A b \in Batch : Resolved(b) => batches'[b] = batches[b]]_vars
=============================================================================
