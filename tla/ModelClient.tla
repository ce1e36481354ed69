----------------------------- MODULE ModelClient -----------------------------
(***************************************************************************)
(* The HTTP adapters of the two models: HttpEmbedder and HttpReranker, the *)
(* Fallback wrappers around them, and the model server they talk to        *)
(* (workers/model-server), which may be redeployed with another model at   *)
(* any time and may be as slow as it likes.  The latency wrappers pass     *)
(* results and errors through and are left out.                            *)
(*                                                                         *)
(* The network is external: a request is answered at most once, the answer *)
(* has headers and a body that arrive separately, and either can fail.  A  *)
(* model is an identity (id, revision and dimension).                      *)
(***************************************************************************)
EXTENDS Naturals

CONSTANTS Call,         \* calls of embed / rerank
          Kind,         \* which of the two a call is
          Model,        \* the models a server may run
          Pinned,       \* the one the adapter of a kind is configured for
          Mock,         \* the fallback's model
          HasFallback,  \* calls through FallbackEmbedder / FallbackReranker
          TimeoutTicks, \* timeoutMs, in ticks of the model's clock
          Null

(* What can be wrong with a reply, beside its model: the status line, the  *)
(* JSON, the schema, the number of results, the length of a vector.        *)
Kinds == {"embedder", "reranker"}

Garbled == {"status", "json", "schema"}
Defects(k) == Garbled \cup {"none", "count"}
                \cup (IF k = "embedder" THEN {"length"} ELSE {})

ASSUME ModelClientAssumption ==
  /\ Kind \in [Call -> Kinds]
  /\ Pinned \in [Kinds -> Model] /\ Mock \notin Model
  /\ HasFallback \in [Call -> BOOLEAN]
  /\ TimeoutTicks \in Nat \ {0}
  /\ Null \notin Model /\ Null # Mock

VARIABLES server,  \* the model it runs for each kind
          pc,      \* each call: where it is
          age,     \* ticks since its request was sent
          reply,   \* what the server has sent: its model and a defect
          outcome  \* the tag and the producer of the result, or the error

vars == <<server, pc, age, reply, outcome>>

Reply == [model: Model, defect: Defects("embedder")]
Result == [tag: Model \cup {Mock}, producer: Model \cup {Mock}]
Errors == [error: {"unavailable", "incompatible", "other"}]

InRequest == {"fetching", "body"}
Running == {"sources", "fallback"} \cup InRequest

Init ==
  /\ server \in [Kinds -> Model]
  /\ pc = [c \in Call |-> "idle"]
  /\ age = [c \in Call |-> 0]
  /\ reply = [c \in Call |-> Null]
  /\ outcome = [c \in Call |-> Null]

Goto(c, l) == pc' = [pc EXCEPT ![c] = l]

Settle(c, l, o) ==
  /\ Goto(c, l)
  /\ outcome' = [outcome EXCEPT ![c] = o]

(* The wrapper's catch: only an outage is answered by the fallback.        *)
AnyError(error) == TRUE

FallsBackOn(error) == error = "unavailable"

Fail(c, error) ==
  IF HasFallback[c] /\ FallsBackOn(error)
  THEN Goto(c, "fallback") /\ UNCHANGED outcome
  ELSE Settle(c, "threw", [error |-> error])

(***************************************************************************)
(* Sending the request.  No inputs, no request; the reranker first reads   *)
(* the text of every candidate.                                            *)
(***************************************************************************)
BeginEmpty(c) ==
  /\ pc[c] = "idle"
  /\ Goto(c, "returned")
  /\ UNCHANGED <<server, age, reply, outcome>>

Begin(c) ==
  /\ pc[c] = "idle"
  /\ Goto(c, IF Kind[c] = "reranker" THEN "sources" ELSE "fetching")
  /\ UNCHANGED <<server, age, reply, outcome>>

ReadSources(c) ==
  /\ pc[c] = "sources"
  /\ \/ Goto(c, "fetching") /\ UNCHANGED outcome
     \/ Fail(c, "other")
  /\ UNCHANGED <<server, age, reply>>

(***************************************************************************)
(* The server: it answers with its own identity, whatever it was asked.    *)
(***************************************************************************)
Serve(c) ==
  /\ pc[c] = "fetching" /\ reply[c] = Null
  /\ \E defect \in Defects(Kind[c]) :
       reply' = [reply EXCEPT ![c] = [model |-> server[Kind[c]], defect |-> defect]]
  /\ UNCHANGED <<server, pc, age, outcome>>

Redeploy(k, m) ==
  /\ server' = [server EXCEPT ![k] = m]
  /\ UNCHANGED <<pc, age, reply, outcome>>

(***************************************************************************)
(* Waiting for the headers, under the timer.                               *)
(***************************************************************************)
Headers(c) ==
  /\ pc[c] = "fetching" /\ reply[c] # Null
  /\ IF reply[c].defect = "status"
     THEN Fail(c, "unavailable")
     ELSE Goto(c, "body") /\ UNCHANGED outcome
  /\ UNCHANGED <<server, age, reply>>

(* An outage: whatever was sent of an answer is lost with the request.     *)
Lose(c) ==
  /\ Fail(c, "unavailable")
  /\ reply' = [reply EXCEPT ![c] = Null]
  /\ UNCHANGED <<server, age>>

NetworkError(c) == pc[c] = "fetching" /\ Lose(c)

TimerDue(c) == pc[c] = "fetching" /\ age[c] = TimeoutTicks

TimerOnAnswerOnly(c) ==
  /\ TimerDue(c) /\ reply[c] # Null
  /\ Lose(c)

Timeout(c) == TimerDue(c) /\ Lose(c)

(***************************************************************************)
(* Waiting for the body, without the timer: it was cleared with the        *)
(* headers.  Then the checks, identity before count before vectors.        *)
(***************************************************************************)
Decoded(r) == r.defect \notin Garbled

TrustTheServer(c) == FALSE

Foreign(c) == Decoded(reply[c]) /\ reply[c].model # Pinned[Kind[c]]

(* Another model's vectors must never be mixed in; another model's scores  *)
(* are only a broken reranker.                                             *)
ErrorOf(c) ==
  CASE Foreign(c) /\ Kind[c] = "embedder"           -> "incompatible"
    [] ~Foreign(c) /\ reply[c].defect = "length"    -> "incompatible"
    [] OTHER                                        -> "unavailable"

Answer(c) ==
  /\ pc[c] = "body"
  /\ IF Foreign(c) \/ reply[c].defect # "none"
     THEN Fail(c, ErrorOf(c))
     ELSE Settle(c, "returned",
                 [tag |-> Pinned[Kind[c]], producer |-> reply[c].model])
  /\ UNCHANGED <<server, age, reply>>

BodyBreaks(c) == pc[c] = "body" /\ Lose(c)

(***************************************************************************)
(* The mock answers in its own name.                                       *)
(***************************************************************************)
FallBack(c) ==
  /\ pc[c] = "fallback"
  /\ Settle(c, "returned", [tag |-> Mock, producer |-> Mock])
  /\ UNCHANGED <<server, age, reply>>

(* Time passes, but not past a timer that is due.                          *)
Tick ==
  /\ \A c \in Call : ~TimerDue(c)
  /\ \E c \in Call : pc[c] \in InRequest /\ age[c] <= TimeoutTicks
  /\ age' = [c \in Call |-> IF pc[c] \in InRequest /\ age[c] <= TimeoutTicks
                            THEN age[c] + 1 ELSE age[c]]
  /\ UNCHANGED <<server, pc, reply, outcome>>

Client(c) == \/ ReadSources(c) \/ Headers(c) \/ Timeout(c) \/ NetworkError(c)
             \/ FallBack(c)

Next ==
  \/ \E c \in Call : \/ BeginEmpty(c) \/ Begin(c) \/ Serve(c) \/ Client(c)
                     \/ Answer(c) \/ BodyBreaks(c)
  \/ \E k \in Kinds, m \in Model : Redeploy(k, m)
  \/ Tick

(* Time passes and due timers fire; the server may never answer, but a     *)
(* body that has begun ends or breaks (undici's own inactivity limit).     *)
Spec == /\ Init /\ [][Next]_vars /\ WF_vars(Tick)
        /\ \A c \in Call : /\ WF_vars(ReadSources(c)) /\ WF_vars(FallBack(c))
                           /\ WF_vars(Timeout(c))
                           /\ WF_vars(Answer(c) \/ BodyBreaks(c))

-----------------------------------------------------------------------------
TypeOK ==
  /\ server \in [Kinds -> Model]
  /\ pc \in [Call -> Running \cup {"idle", "returned", "threw"}]
  /\ age \in [Call -> 0..(TimeoutTicks + 1)]
  /\ reply \in [Call -> Reply \cup {Null}]
  /\ outcome \in [Call -> Result \cup Errors \cup {Null}]

(* A result carries the name of the model that computed it, whatever the   *)
(* server was redeployed to between two calls and whichever wrapper        *)
(* answered (fallback-embedder.ts:34, "a downstream LanceDB check still    *)
(* has truthful identity to compare against").                             *)
TagsAreTruthful ==
  \A c \in Call : pc[c] = "returned" /\ outcome[c] # Null =>
    outcome[c].tag = outcome[c].producer

(* A healthy embedder on the wrong model is an error for the caller, never *)
(* an occasion for the fallback (fallback-embedder.ts:28): a call that has *)
(* read such an answer neither returns nor goes to the mock.               *)
WrongModelIsRefused ==
  \A c \in Call : Kind[c] = "embedder" /\ pc[c] \in {"fallback", "returned"} =>
    reply[c] = Null \/ ~Foreign(c)

(* No call waits forever for a server that does not answer.                *)
CallsSettle == \A c \in Call : pc[c] \in Running ~> pc[c] \notin Running
=============================================================================
