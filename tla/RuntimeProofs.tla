---------------------------- MODULE RuntimeProofs ----------------------------
(***************************************************************************)
(* What is proved of the runtime a command is given, for any runs, command *)
(* lines, environments, places, models and calls.                          *)
(*                                                                         *)
(* Clients of the model server: only outages fall back, and what an outage *)
(* leaves of an answer is nothing or undecodable; that is what keeps a     *)
(* wrong model's answer away from the fallback.                            *)
(*                                                                         *)
(* Stores: the data stores hold exactly what the command lines asked to be *)
(* written to them, and a query reads the stores its command line names.   *)
(***************************************************************************)
EXTENDS ModelClient, Wiring, TLAPS


(* Nothing is left of a call that has not sent its request; a call that    *)
(* still runs has no outcome.                                              *)
NotSent ==
  \A c \in Call :
    /\ pc[c] \in {"idle", "sources"} => reply[c] = Null
    /\ pc[c] \in Running \cup {"idle"} => outcome[c] = Null

Inv == TypeOK /\ NotSent /\ TagsAreTruthful /\ WrongModelIsRefused

(* An error's call goes to the fallback or throws.                         *)
LEMMA FailEnds ==
  ASSUME NEW c \in Call, NEW error \in {"unavailable", "incompatible", "other"},
         TypeOK, Fail(c, error)
  PROVE  \/ /\ error = "unavailable" /\ pc' = [pc EXCEPT ![c] = "fallback"]
            /\ outcome' = outcome
         \/ /\ pc' = [pc EXCEPT ![c] = "threw"]
            /\ outcome' = [outcome EXCEPT ![c] = [error |-> error]]
  BY DEF Fail, FallsBackOn, Settle, Goto

LEMMA ErrorsAreTyped ==
  ASSUME NEW c \in Call
  PROVE  /\ ErrorOf(c) \in {"unavailable", "incompatible", "other"}
         /\ Foreign(c) /\ Kind[c] = "embedder" => ErrorOf(c) = "incompatible"
  BY DEF ErrorOf

(* A call that fails, with whatever is left of its answer.                 *)
LEMMA FailKeeps ==
  ASSUME NEW c \in Call, NEW error \in {"unavailable", "incompatible", "other"},
         Inv, pc[c] \in Running, Fail(c, error),
         UNCHANGED <<server, age>>,
         \/ reply' = reply
         \/ reply' = [reply EXCEPT ![c] = Null],
         \/ error # "unavailable"
         \/ reply'[c] = Null
         \/ Kind[c] # "embedder" \/ ~Foreign(c)
  PROVE  Inv'
<1> USE DEF Inv, TypeOK, Running, InRequest
<1>1. CASE /\ error = "unavailable" /\ pc' = [pc EXCEPT ![c] = "fallback"]
           /\ outcome' = outcome
  <2>1. TypeOK'
    BY <1>1
  <2>2. NotSent'
    BY <1>1 DEF NotSent
  <2>3. TagsAreTruthful'
    BY <1>1 DEF TagsAreTruthful
  <2>4. WrongModelIsRefused'
    BY <1>1 DEF WrongModelIsRefused, Foreign, Decoded
  <2> QED
    BY <2>1, <2>2, <2>3, <2>4
<1>2. CASE /\ pc' = [pc EXCEPT ![c] = "threw"]
           /\ outcome' = [outcome EXCEPT ![c] = [error |-> error]]
  <2>1. TypeOK'
    BY <1>2 DEF Errors
  <2>2. NotSent'
    BY <1>2 DEF NotSent
  <2>3. TagsAreTruthful'
    BY <1>2 DEF TagsAreTruthful
  <2>4. WrongModelIsRefused'
    BY <1>2 DEF WrongModelIsRefused, Foreign, Decoded
  <2> QED
    BY <2>1, <2>2, <2>3, <2>4
<1> QED
  BY <1>1, <1>2, FailEnds

(* A call that returns a result in the name of its producer.               *)
LEMMA ResultKeeps ==
  ASSUME NEW c \in Call, NEW m \in Model \cup {Mock},
         Inv, pc[c] \in Running,
         Settle(c, "returned", [tag |-> m, producer |-> m]),
         Kind[c] = "embedder" => reply[c] = Null \/ ~Foreign(c),
         UNCHANGED <<server, age, reply>>
  PROVE  Inv'
<1> USE DEF Inv, Settle, Goto, TypeOK, Running, InRequest
<1>1. TypeOK'
  BY DEF Result
<1>2. NotSent'
  BY DEF NotSent
<1>3. TagsAreTruthful'
  BY DEF TagsAreTruthful
<1>4. WrongModelIsRefused'
  BY DEF WrongModelIsRefused, Foreign, Decoded
<1> QED
  BY <1>1, <1>2, <1>3, <1>4

LEMMA InvStart ==
  Init => Inv
  BY ModelClientAssumption
  DEF Init, Inv, TypeOK, NotSent, TagsAreTruthful, WrongModelIsRefused,
      Running, InRequest

LEMMA InvStep ==
  Inv /\ [Next]_vars => Inv'
<1> SUFFICES ASSUME Inv, [Next]_vars
             PROVE  Inv'
  OBVIOUS
<1> USE ModelClientAssumption DEF Inv, TypeOK
<1>1. ASSUME NEW c \in Call, BeginEmpty(c)
      PROVE  Inv'
  BY <1>1 DEF BeginEmpty, Goto, NotSent, TagsAreTruthful, WrongModelIsRefused,
              Running, InRequest, Foreign, Decoded
<1>2. ASSUME NEW c \in Call, Begin(c)
      PROVE  Inv'
  BY <1>2 DEF Begin, Goto, NotSent, TagsAreTruthful, WrongModelIsRefused,
              Running, InRequest, Foreign, Decoded
<1>3. ASSUME NEW c \in Call, ReadSources(c)
      PROVE  Inv'
  <2>1. CASE Goto(c, "fetching") /\ UNCHANGED outcome
    BY <1>3, <2>1 DEF ReadSources, Goto, NotSent, TagsAreTruthful,
                      WrongModelIsRefused, Running, InRequest, Foreign, Decoded
  <2>2. CASE Fail(c, "other")
    BY <1>3, <2>2, FailKeeps DEF ReadSources, Running
  <2> QED
    BY <1>3, <2>1, <2>2 DEF ReadSources
<1>4. ASSUME NEW c \in Call, Serve(c)
      PROVE  Inv'
  <2> PICK defect \in Defects(Kind[c]) :
        reply' = [reply EXCEPT ![c] = [model |-> server[Kind[c]], defect |-> defect]]
    BY <1>4 DEF Serve
  <2>1. reply' \in [Call -> Reply \cup {Null}]
    BY DEF Reply, Defects
  <2> QED
    BY <1>4, <2>1 DEF Serve, NotSent, TagsAreTruthful, WrongModelIsRefused,
                      Running, InRequest, Foreign, Decoded
<1>5. ASSUME NEW k \in Kinds, NEW m \in Model, Redeploy(k, m)
      PROVE  Inv'
  BY <1>5 DEF Redeploy, NotSent, TagsAreTruthful, WrongModelIsRefused, Foreign, Decoded
<1>6. ASSUME NEW c \in Call, Headers(c)
      PROVE  Inv'
  <2>1. CASE reply[c].defect = "status"
    <3>1. ~Foreign(c)
      BY <2>1 DEF Foreign, Decoded, Garbled
    <3> QED
      BY <1>6, <2>1, <3>1, FailKeeps DEF Headers, Running, InRequest
  <2>2. CASE reply[c].defect # "status"
    BY <1>6, <2>2 DEF Headers, Goto, NotSent, TagsAreTruthful,
                      WrongModelIsRefused, Running, InRequest, Foreign, Decoded
  <2> QED
    BY <2>1, <2>2
<1>7. ASSUME NEW c \in Call, pc[c] \in InRequest, Lose(c)
      PROVE  Inv'
  BY <1>7, FailKeeps DEF Lose, Running
<1>8. ASSUME NEW c \in Call, Answer(c)
      PROVE  Inv'
  <2>1. CASE Foreign(c) \/ reply[c].defect # "none"
    BY <1>8, <2>1, FailKeeps, ErrorsAreTyped DEF Answer, Running, InRequest
  <2>2. CASE ~Foreign(c) /\ reply[c].defect = "none"
    <3>1. reply[c].model = Pinned[Kind[c]]
      BY <2>2 DEF Foreign, Decoded, Garbled
    <3>2. Settle(c, "returned", 
                 [tag |-> Pinned[Kind[c]], producer |-> Pinned[Kind[c]]])
      BY <1>8, <2>2, <3>1 DEF Answer
    <3> QED
      BY <1>8, <2>2, <3>2, ResultKeeps DEF Answer, Running, InRequest
  <2> QED
    BY <2>1, <2>2
<1>9. ASSUME NEW c \in Call, FallBack(c)
      PROVE  Inv'
  BY <1>9, ResultKeeps DEF FallBack, Running, WrongModelIsRefused
<1>10. CASE Tick
  <2>1. age' \in [Call -> 0..(TimeoutTicks + 1)]
    BY <1>10 DEF Tick
  <2> QED
    BY <1>10, <2>1 DEF Tick, NotSent, TagsAreTruthful, WrongModelIsRefused,
                       Foreign, Decoded
<1>11. CASE UNCHANGED vars
  BY <1>11 DEF vars, NotSent, TagsAreTruthful, WrongModelIsRefused, Foreign, Decoded
<1> QED
  BY <1>1, <1>2, <1>3, <1>4, <1>5, <1>6, <1>7, <1>8, <1>9, <1>10, <1>11
  DEF Next, Client, NetworkError, Timeout, TimerDue, BodyBreaks, InRequest

LEMMA Invariant == Spec => []Inv
<1>1. Init /\ [][Next]_vars => []Inv
  BY InvStart, InvStep, PTL
<1> QED
  BY <1>1, PTL DEF Spec

(* Every call is in a known state, its clock within its bound.             *)
THEOREM TypeCorrect == Spec => []TypeOK
  BY Invariant, PTL DEF Inv

(* A result always carries the name of the model that computed it.         *)
THEOREM TagsAreTruthfulHolds == Spec => []TagsAreTruthful
  BY Invariant, PTL DEF Inv

(* The embedder never answers from, nor falls back on, a wrong model.      *)
THEOREM WrongModelIsRefusedHolds == Spec => []WrongModelIsRefused
  BY Invariant, PTL DEF Inv

-----------------------------------------------------------------------------

DataStores == {"graphStore", "vectorStore"}

(* What a process reads is what was asked to be there.                     *)
AsTold == graph = told.graph /\ rows = told.rows /\ BatchesAreKept

WiringInv == WiringTypeOK /\ AsTold /\ QueriesFindRuns

(* The flag, or else the profile, decides where an index run writes.       *)
LEMMA IndexAsks ==
  ASSUME NEW o \in Options, NEW f \in Stores
  PROVE  /\ IndexConfig(o)[f] \in Modes
         /\ IndexConfig(o)[f] = "other" <=> Asks(o, f)
<1>1. /\ f \in Field /\ f \in Stores
      /\ o.flag \in [Field -> Modes \cup {Unset}]
      /\ o.profile \in {Unset, "local-persist", "misspelt"}
      /\ Unset \notin Modes /\ Unset # "local-persist" /\ Unset # "misspelt"
  BY WiringAssumption DEF Field
<1>2. Default[f] = "default" /\ NoProfile[f] = Unset /\ LocalPersist[f] = "other"
  BY <1>1 DEF Default, NoProfile, LocalPersist
<1>3. Expanded(o)[f] = Or(o.flag[f], Or(ProfileOf(o)[f], "default"))
  BY <1>1, <1>2 DEF Expanded
<1>4. CASE Changed(o, Field) \/ o.profile # Unset
  <2>1. IndexConfig(o)[f] = Or(o.flag[f], Or(ProfileOf(o)[f], "default"))
    BY <1>3, <1>4 DEF IndexConfig
  <2> QED
    BY <1>1, <1>2, <2>1 DEF Or, ProfileOf, Asks, Modes
<1>5. CASE ~Changed(o, Field) /\ o.profile = Unset
  <2>1. IndexConfig(o)[f] = "default"
    BY <1>2, <1>5 DEF IndexConfig
  <2>2. o.flag[f] \in {Unset, "default"}
    BY <1>1, <1>2, <1>5 DEF Changed
  <2> QED
    BY <1>1, <1>5, <2>1, <2>2 DEF Asks, Modes
<1> QED
  BY <1>4, <1>5

(* A query reads where its flags say.                                      *)
LEMMA QueryAsks ==
  ASSUME NEW o \in Options, NEW f \in DataStores
  PROVE  /\ QueryConfig(o)[f] \in Modes
         /\ QueryConfig(o)[f] = "other" <=> o.flag[f] = "other"
<1>1. /\ f \in Field /\ f \in QueryFields
      /\ o.flag \in [Field -> Modes \cup {Unset}]
      /\ Unset \notin Modes
  BY WiringAssumption DEF Field, Stores, DataStores, QueryFields
<1>2. Default[f] = "default"
  BY <1>1 DEF Default
<1>3. Flags(o)[f] = Or(o.flag[f], "default")
  BY <1>1, <1>2 DEF Flags
<1>4. CASE Changed(o, QueryFields)
  BY <1>1, <1>3, <1>4 DEF QueryConfig, Or, Modes
<1>5. CASE ~Changed(o, QueryFields)
  <2>1. o.flag[f] \in {Unset, "default"}
    BY <1>1, <1>2, <1>5 DEF Changed
  <2> QED
    BY <1>1, <1>2, <1>5, <2>1 DEF QueryConfig, Modes
<1> QED
  BY <1>4, <1>5

(* A run writes its data where its command line says.                      *)
LEMMA WritesWhereAsked ==
  ASSUME NEW o \in Options, NEW f \in Stores
  PROVE  Backends(IndexConfig(o))[f] = AskedPlace(o, f)
<1>2. /\ IndexConfig(o)[f] \in Modes
      /\ IndexConfig(o)[f] = "other" <=> Asks(o, f)
  BY IndexAsks
<1> QED
  BY <1>2 DEF Backends, AskedPlace, Modes

(* A query reads at the one place its environment has for a store it names *)
(* and in the process otherwise.                                           *)
LEMMA ReadsWhereAsked ==
  ASSUME NEW o \in Options, NEW f \in DataStores, env \in Env, Wires(QueryConfig(o))
  PROVE  IF o.flag[f] = "other"
         THEN Backends(QueryConfig(o))[f] = env.at[f] /\ env.at[f] \in Place
         ELSE Backends(QueryConfig(o))[f] = Unset
<1>1. f \in Stores /\ f \in Credentials /\ f # "manifestStore"
  BY DEF DataStores, Stores, Credentials, Field
<1>2. /\ QueryConfig(o)[f] \in Modes
      /\ QueryConfig(o)[f] = "other" <=> o.flag[f] = "other"
  BY QueryAsks
<1>3. env.at \in [Credentials -> Place \cup {Unset}]
  BY WiringAssumption
<1> QED
  BY <1>1, <1>2, <1>3 DEF Backends, Wires, Modes

LEMMA StampedIsTyped ==
  ASSUME NEW held \in GraphType, NEW place, NEW r \in Run, NEW nodes
  PROVE  Stamped(held, place, r, nodes) \in GraphType
  BY DEF Stamped, GraphType

LEMMA ReplacedIsTyped ==
  ASSUME NEW S, NEW held \in [Place -> SUBSET S], NEW place, NEW gone, NEW added \in SUBSET S
  PROVE  Replaced(held, place, gone, added) \in [Place -> SUBSET S]
  BY DEF Replaced

(* What a run leaves in the stores, and what was asked of it.              *)
LEMMA RunsAsTold ==
  ASSUME NEW o \in Options, NEW r \in Run, WiringTypeOK, AsTold,
         NEW reached, NEW nodes \in SUBSET Node, NEW vectored \in SUBSET nodes, NEW gone,
         Runs(o, r, Backends(IndexConfig(o)), reached, nodes, vectored, gone)
  PROVE  /\ AsTold'
         /\ graph' \in GraphType /\ rows' \in RowsType /\ batches' \in BatchesType
         /\ told' \in [graph: GraphType, rows: RowsType, batches: BatchesType]
<1> DEFINE at == Backends(IndexConfig(o))
           stamped == IF Did(o, reached, "graph") THEN nodes ELSE {}
           added == IF Did(o, reached, "vectors") THEN vectored ELSE {}
           recorded == IF Did(o, reached, "record") THEN {r} ELSE {}
<1>1. /\ graph' = Stamped(graph, at["graphStore"], r, stamped)
      /\ rows' = Replaced(rows, at["vectorStore"], gone, added)
      /\ batches' = Replaced(batches, at["manifestStore"], {}, recorded)
      /\ told' = [graph |-> Stamped(told.graph, AskedPlace(o, "graphStore"), r, stamped),
                  rows |-> Replaced(told.rows, AskedPlace(o, "vectorStore"), gone, added),
                  batches |-> Replaced(told.batches, AskedPlace(o, "manifestStore"), {}, recorded)]
  BY DEF Runs
<1>2. /\ at["graphStore"] = AskedPlace(o, "graphStore")
      /\ at["vectorStore"] = AskedPlace(o, "vectorStore")
      /\ at["manifestStore"] = AskedPlace(o, "manifestStore")
  BY WritesWhereAsked DEF Stores
<1>3. added \in SUBSET Node /\ recorded \in SUBSET Run
  OBVIOUS
<1> HIDE DEF at, stamped, added, recorded
<1>4. AsTold'
  BY <1>1, <1>2 DEF AsTold, BatchesAreKept
<1>5. graph' \in GraphType
  BY <1>1, StampedIsTyped DEF WiringTypeOK
<1>6. rows' \in RowsType
  BY <1>1, <1>3, ReplacedIsTyped DEF WiringTypeOK, RowsType
<1>7. batches' \in BatchesType
  BY <1>1, <1>3, ReplacedIsTyped DEF WiringTypeOK, BatchesType
<1>8. told' \in [graph: GraphType, rows: RowsType, batches: BatchesType]
  BY <1>1, <1>4, <1>5, <1>6, <1>7 DEF AsTold, BatchesAreKept
<1> QED
  BY <1>4, <1>5, <1>6, <1>7, <1>8

LEMMA IndexIsTold ==
  ASSUME NEW o \in Options, NEW r \in Run, WiringInv, Index(o, r)
  PROVE  WiringInv'
<1> DEFINE config == IndexConfig(o)
<1>1. ASSUME NEW threw \in BOOLEAN,
             last' = [None EXCEPT !.command = "index", !.threw = threw]
      PROVE  /\ QueriesFindRuns'
             /\ last' \in Processes
  <2>1. QueriesFindRuns'
    BY <1>1 DEF None, NoNodes, QueriesFindRuns, GraphTold, Sought, RowsTold
  <2> QED
    BY <1>1, <2>1 DEF Processes, None, NoNodes
<1>2. CASE ~Wires(config)
  <2>1. last' = [None EXCEPT !.command = "index", !.threw = TRUE]
    BY <1>2 DEF Index
  <2> QED
    BY <1>1, <1>2, <2>1 DEF Index, disk, WiringInv, WiringTypeOK, AsTold, BatchesAreKept
<1>3. CASE Wires(config)
  <2>1. PICK reached \in 0..Len(Steps(o)),
             nodes \in SUBSET Node, vectored \in SUBSET Node, gone \in SUBSET Node :
          /\ vectored \subseteq nodes
          /\ Runs(o, r, Backends(config), reached, nodes, vectored, gone)
    BY <1>3 DEF Index
  <2>3. last' = [None EXCEPT !.command = "index", !.threw = reached < Len(Steps(o))]
    BY <2>1 DEF Runs
  <2>4. (reached < Len(Steps(o))) \in BOOLEAN
    OBVIOUS
  <2>5. env' = env
    BY DEF Index
  <2> QED
    BY <1>1, <2>1, <2>3, <2>4, <2>5, RunsAsTold DEF WiringInv, WiringTypeOK
<1> QED
  BY <1>2, <1>3

(* What a query reads is what was asked to be there.                       *)
LEMMA ReadsAsTold ==
  ASSUME NEW o \in Options, WiringTypeOK, AsTold, Wires(QueryConfig(o)),
         UNCHANGED <<env, disk, told>>,
         last'.asked = {f \in Stores : o.flag[f] = "other"}
  PROVE  /\ GraphOf(QueryConfig(o)) = GraphTold'
         /\ RowsOf(QueryConfig(o)) = RowsTold'
         /\ GraphTold' \in [Node -> Run \cup {Unset}] /\ RowsTold' \in SUBSET Node
<1> DEFINE config == QueryConfig(o)
<1>1. Unset \notin Place
  BY WiringAssumption
<1>2. /\ GraphOf(config) = GraphTold'
      /\ GraphTold' \in [Node -> Run \cup {Unset}]
  <2>1. IF o.flag["graphStore"] = "other"
        THEN Backends(config)["graphStore"] = env.at["graphStore"]
             /\ env.at["graphStore"] \in Place
        ELSE Backends(config)["graphStore"] = Unset
    BY ReadsWhereAsked DEF DataStores, WiringTypeOK
  <2>2. "graphStore" \in last'.asked <=> o.flag["graphStore"] = "other"
    BY DEF Stores
  <2> QED
    BY <1>1, <2>1, <2>2 DEF GraphOf, GraphTold, AsTold, disk, NoNodes, WiringTypeOK, GraphType
<1>3. /\ RowsOf(config) = RowsTold'
      /\ RowsTold' \in SUBSET Node
  <2>1. IF o.flag["vectorStore"] = "other"
        THEN Backends(config)["vectorStore"] = env.at["vectorStore"]
             /\ env.at["vectorStore"] \in Place
        ELSE Backends(config)["vectorStore"] = Unset
    BY ReadsWhereAsked DEF DataStores, WiringTypeOK
  <2>2. "vectorStore" \in last'.asked <=> o.flag["vectorStore"] = "other"
    BY DEF Stores
  <2> QED
    BY <1>1, <2>1, <2>2 DEF RowsOf, RowsTold, AsTold, disk, WiringTypeOK, RowsType
<1> QED
  BY <1>2, <1>3

(* Exact and semantic hits are found, neighbors of hits may be.            *)
LEMMA QueryFinds ==
  ASSUME NEW o \in Options, WiringInv, Query(o)
  PROVE  WiringInv'
<1> DEFINE config == QueryConfig(o)
           process == [None EXCEPT !.command = "query",
                                   !.asked = {f \in Stores : o.flag[f] = "other"}]
<1>1. UNCHANGED <<env, disk, told>>
  BY DEF Query
<1>2. process \in Processes
  BY DEF Processes, None, NoNodes
<1>3. CASE last' = [process EXCEPT !.threw = TRUE]
  <2>1. last' \in Processes
    BY <1>2, <1>3 DEF Processes
  <2>2. QueriesFindRuns'
    BY <1>3 DEF None, QueriesFindRuns
  <2> QED
    BY <1>1, <2>1, <2>2 DEF disk, WiringInv, WiringTypeOK, AsTold, BatchesAreKept
<1>4. CASE last' # [process EXCEPT !.threw = TRUE]
  <2>1. /\ Wires(config)
        /\ \E named, neighbors \in SUBSET Node, blind \in Blind(config) :
             last' = [process EXCEPT
                        !.named = named, !.blind = blind,
                        !.found = Finds(config, named, blind, neighbors)]
    BY <1>4 DEF Query
  <2>2. PICK named \in SUBSET Node, neighbors \in SUBSET Node,
             blind \in Blind(config) :
               last' = [process EXCEPT
                          !.named = named, !.blind = blind,
                          !.found = Finds(config, named, blind, neighbors)]
    BY <2>1
  <2>3. blind \in BOOLEAN
    BY DEF Blind
  <2>4. /\ last'.asked = {f \in Stores : o.flag[f] = "other"}
        /\ last'.named = named /\ last'.blind = blind
        /\ last'.found = Finds(config, named, blind, neighbors)
    BY <2>2 DEF None
  <2>5. /\ GraphOf(config) = GraphTold' /\ RowsOf(config) = RowsTold'
        /\ GraphTold' \in [Node -> Run \cup {Unset}] /\ RowsTold' \in SUBSET Node
    BY <1>1, <2>1, <2>4, ReadsAsTold DEF WiringInv
  <2>6. Sought' = named \cup IF blind THEN {} ELSE RowsTold'
    BY <2>4 DEF Sought
  <2> DEFINE base == Sought' \cap {n \in Node : GraphTold'[n] # Unset}
             found == base \cup IF base = {} THEN {}
                                ELSE neighbors \cap {n \in Node : GraphTold'[n] # Unset}
  <2>7. last'.found = [n \in Node |-> IF n \in found THEN GraphTold'[n] ELSE Unset]
    BY <2>4, <2>5, <2>6 DEF Finds, In
  <2>8. Sought' \subseteq Node
    BY <2>5, <2>6
  <2>9. last' \in Processes
    BY <1>2, <2>2, <2>3, <2>4, <2>5, <2>7 DEF Processes
  <2>10. QueriesFindRuns'
    <3>1. \A n \in Node : last'.found[n] \in {Unset, GraphTold'[n]}
      BY <2>7
    <3>2. \A n \in Sought' : last'.found[n] = GraphTold'[n]
      BY <2>7, <2>8
    <3>3. (\A n \in Sought' : GraphTold'[n] = Unset) => last'.found = NoNodes
      BY <2>7 DEF NoNodes
    <3> QED
      BY <3>1, <3>2, <3>3 DEF QueriesFindRuns, NoNodes
  <2> QED
    BY <1>1, <2>9, <2>10 DEF disk, WiringInv, WiringTypeOK, AsTold, BatchesAreKept
<1> QED
  BY <1>3, <1>4

(* The default stores are the process's own.                               *)
LEMMA ShowFindsNothing ==
  ASSUME NEW command \in {"inspect", "graph export", "doctor"}, WiringInv, Show(command)
  PROVE  WiringInv'
<1>1. GraphOf(Default) = NoNodes
  BY DEF GraphOf, Backends, Default, Field, Stores
<1>2. last' = [None EXCEPT !.command = command, !.found = NoNodes]
  BY <1>1 DEF Show
<1>3. QueriesFindRuns'
  BY <1>2 DEF None, NoNodes, QueriesFindRuns, GraphTold, Sought, RowsTold
<1>4. last' \in Processes
  BY <1>2 DEF None, NoNodes, Processes
<1> QED
  BY <1>3, <1>4 DEF Show, disk, WiringInv, WiringTypeOK, AsTold, BatchesAreKept

LEMMA WiringInvariant == WiringSpec => []WiringInv
<1>1. WiringInit => WiringInv
  <2> SUFFICES ASSUME WiringInit PROVE WiringInv
    OBVIOUS
  <2>1. WiringTypeOK /\ AsTold
    BY DEF WiringInit, None, NoNodes, Processes, WiringTypeOK, GraphType, RowsType,
              BatchesType, AsTold, BatchesAreKept
  <2>2. QueriesFindRuns
    BY DEF WiringInit, None, QueriesFindRuns
  <2> QED
    BY <2>1, <2>2 DEF WiringInv
<1>2. WiringInv /\ [WiringNext]_wiringVars => WiringInv'
  <2> SUFFICES ASSUME WiringInv, [WiringNext]_wiringVars PROVE WiringInv'
    OBVIOUS
  <2>1. CASE UNCHANGED wiringVars
    BY <2>1 DEF wiringVars, disk, WiringInv, WiringTypeOK, AsTold, BatchesAreKept,
                QueriesFindRuns, GraphTold, RowsTold, Sought
  <2>2. ASSUME NEW e \in Env, SetEnv(e) PROVE WiringInv'
    <3>1. QueriesFindRuns'
      BY <2>2 DEF SetEnv, None, QueriesFindRuns
    <3>2. last' \in Processes
      BY <2>2 DEF SetEnv, None, NoNodes, Processes
    <3> QED
      BY <2>2, <3>1, <3>2 DEF SetEnv, disk, WiringInv, WiringTypeOK, AsTold, BatchesAreKept
  <2>3. ASSUME NEW o \in Options, Query(o) PROVE WiringInv'
    BY <2>3, QueryFinds
  <2>4. ASSUME NEW o \in Options, NEW r \in Run, Index(o, r) PROVE WiringInv'
    BY <2>4, IndexIsTold
  <2>5. CASE Inspect \/ GraphExport \/ Doctor
    BY <2>5, ShowFindsNothing DEF Inspect, GraphExport, Doctor
  <2> QED
    BY <2>1, <2>2, <2>3, <2>4, <2>5 DEF WiringNext
<1> QED
  BY <1>1, <1>2, PTL DEF WiringSpec

(* For any runs, nodes, command lines, environments and places: what a     *)
(* query finds is what the runs told to write where it is told to read     *)
(* last wrote there, and all of it that it names or has vectors for; no    *)
(* other command finds anything; and each manifest database has the        *)
(* batches of the runs told to record them there, however they stopped.    *)
THEOREM NothingIsSwappedHolds == WiringSpec => []NothingIsSwapped
<1>1. WiringInv => NothingIsSwapped
  BY DEF WiringInv, AsTold, NothingIsSwapped
<1> QED
  BY <1>1, WiringInvariant, PTL
==============================================================================
