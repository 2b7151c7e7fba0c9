------------------------- MODULE PipelineExecution -------------------------
(***************************************************************************)
(* Execution of one pipeline (Pipeline::execute): the thread that runs it, *)
(* the sessions of its nodes, demultiplexing and gathering, the queue of   *)
(* finished sessions, the deferred ones, and the callbacks of the          *)
(* asynchronous inferences.                                                *)
(* (pipeline.cpp, node.cpp, dl_node.cpp, dlnodesession.cpp,                *)
(* nodesession.cpp, nodesessionmetadata.cpp, nodeinputhandler.cpp,         *)
(* gathernodeinputhandler.cpp, gatherexitnodeinputhandler, custom_node.cpp,*)
(* customnodesession.cpp, entry_node.cpp, exit_node.cpp)                   *)
(*                                                                         *)
(* A tensor is a term that says how it was computed, so that the response  *)
(* can be compared with the composition of the nodes.  One tensor flows    *)
(* along each connection.  All DL nodes use one model; the streams of its  *)
(* queue are shared with requests that are not part of this pipeline.      *)
(***************************************************************************)
EXTENDS PipelineValidation

CONSTANTS
    Graphs,             \* the pipelines
    Streams,            \* streams of the model's inference queue
    DEMULTIPLY_LIMIT,   \* largest number of shards
    MaxShards           \* bound: largest first dimension a node may produce

ASSUME StreamsAssumption == Streams \in Nat \ {0}
ASSUME LimitAssumption == DEMULTIPLY_LIMIT \in Nat /\ MaxShards \in Nat

ASSUME GraphsAssumption == \A g \in Graphs : IsGraph(g)

VARIABLES
    graph,              \* the pipeline
    stage,              \* where the executing thread is
    finishedNodeQueue,  \* sessions in the order they finished
    nodeSessions,       \* the sessions of all nodes
    startedSessions,
    finishedSessions,
    todo,               \* next nodes whose sessions have not been looked at
    ready,              \* ready sessions of the next node at hand
    deferred,           \* deferredNodeSessions
    tmpDeferred,        \* sessions deferred since the event was taken
    at,                 \* iterator into deferred
    firstErrorStatus,
    response,           \* what the exit node has serialized
    inference,          \* sessions with an inference in progress, or its callback
    others,             \* streams in use by other requests
    shards,             \* history: number of shards each demultiplexer made
    late                \* history: released while its callback was running

tvars == <<finishedNodeQueue, startedSessions, finishedSessions, todo, ready, deferred, tmpDeferred, at>>
executionVars == <<graph, stage, tvars, nodeSessions, firstErrorStatus, response, inference, others, shards, late>>

Entry == EntryOf(graph)
NextNodes(n) == {m \in graph.nodes : n \in graph.deps[m]}

(***************************************************************************)
(* NodeSessionMetadata: the demultiplexers passed so far, outermost first, *)
(* each with the number of the shard and of all shards.                    *)
(***************************************************************************)
Levels(meta) == {meta[i].node : i \in DOMAIN meta}
Product(s) ==
    LET product[i \in 0 .. Len(s)] == IF i = 0 THEN 1 ELSE product[i - 1] * s[i]
    IN  product[Len(s)]

\* The last levels, as many as there are names; they must bear the names.
LastLevels(meta, names) == SubSeq(meta, Len(meta) - Cardinality(names) + 1, Len(meta))

Collapsible(meta, names) ==
    /\ names \subseteq Levels(meta)
    /\ Cardinality(names) <= Len(meta)
    /\ Levels(LastLevels(meta, names)) = names

\* getCollapsedSessionMetadata; it also gives the key of the session.
Collapsed(meta, names) == SubSeq(meta, 1, Len(meta) - Cardinality(names))
CollapsedSizes(meta, names) ==
    [i \in DOMAIN LastLevels(meta, names) |-> LastLevels(meta, names)[i].size]

getShardId_OuterFastest(meta, names) ==
    FoldRight(LAMBDA l, acc : acc * l.size + l.id, LastLevels(meta, names), 0)

\* The innermost level counts fastest.
getShardId(meta, names) ==
    LET levels == LastLevels(meta, names)
        shardId[i \in 0 .. Len(levels)] ==
            IF i = 0 THEN 0 ELSE shardId[i - 1] * levels[i].size + levels[i].id
    IN  shardId[Len(levels)]

(***************************************************************************)
(* NodeInputHandler and GatherNodeInputHandler                             *)
(*                                                                         *)
(* guard is the NodeStreamIdGuard: "none"; "waiting" for a stream; "ready" *)
(* when its future holds one; "got" when that has been taken out;          *)
(* "disarmed".                                                             *)
(***************************************************************************)
Guards == {"none", "waiting", "ready", "got", "disarmed"}

NewSession(n, meta) ==
    LET sizes == CollapsedSizes(meta, graph.gatherFrom[n])
    IN  [remaining |-> Cardinality(graph.deps[n]) * Product(sizes),
         isUsed |-> FALSE, sizes |-> sizes, inputs |-> [d \in graph.deps[n] |-> <<>>],
         guard |-> "none", unloadGuard |-> FALSE]

isReady(s) == ~nodeSessions[s].isUsed /\ nodeSessions[s].remaining = 0

\* What the node computes from: the tensor, or the shards in order.
Gathered(session, d) ==
    IF session.sizes = <<>> THEN session.inputs[d][0]
    ELSE <<"gathered", session.sizes, session.inputs[d]>>
Output(s) == <<"output", s[1], [d \in graph.deps[s[1]] |-> Gathered(nodeSessions[s], d)]>>

(***************************************************************************)
(* setInputs: put the tensor into the session that the metadata lead to,   *)
(* creating it.  ok is FALSE where the code reports an error that only a   *)
(* wrong pipeline can cause; what was fed before stays.                    *)
(***************************************************************************)
setInput(session, d, shardId, tensor) ==
    [session EXCEPT !.inputs[d] = Put(@, shardId, tensor), !.remaining = @ - 1]

setInputs(fed, n, d, result) ==
    LET names == graph.gatherFrom[n]
        s == <<n, Collapsed(result.meta, names)>>
        session == IF s \in DOMAIN fed.sessions THEN fed.sessions[s] ELSE NewSession(n, result.meta)
        shardId == getShardId(result.meta, names)
    IN  IF \/ ~fed.ok
           \/ ~Collapsible(result.meta, names)
           \/ session.sizes = <<>> /\ shardId > 0
           \/ shardId \in DOMAIN session.inputs[d]
        THEN [fed EXCEPT !.ok = FALSE]
        ELSE [fed EXCEPT !.sessions = Put(@, s, setInput(session, d, shardId, result.tensor))]

\* All results of a finished session of d into the next nodes, one by one.
FeedNode(start, n, d, results) ==
    LET fed[i \in 0 .. Len(results)] == IF i = 0 THEN start ELSE setInputs(fed[i - 1], n, d, results[i])
    IN  fed[Len(results)]

Feed(sessions, ns, d, results) ==
    LET fed[k \in 0 .. Len(ns)] ==
            IF k = 0 THEN [ok |-> TRUE, sessions |-> sessions] ELSE FeedNode(fed[k - 1], ns[k], d, results)
    IN  fed[Len(ns)]

(***************************************************************************)
(* demultiplyOutputs: one result, and one subsession, for each index of    *)
(* the first dimension                                                     *)
(***************************************************************************)
Divided(n, meta, tensor, count) ==
    [i \in 1 .. count |-> [meta |-> Append(meta, [node |-> n, id |-> i - 1, size |-> count]),
                           tensor |-> <<"shard", tensor, i - 1>>]]

CanDivide(n, count) ==
    /\ count <= DEMULTIPLY_LIMIT
    /\ graph.demultiplyCount[n] # -1 => count = graph.demultiplyCount[n]
    /\ count # 0

(***************************************************************************)
(* Streams                                                                 *)
(***************************************************************************)
Holding == {s \in DOMAIN nodeSessions : nodeSessions[s].guard \in {"ready", "got"}}
Idle == Streams - others - Cardinality(Holding)

ExecutionInit ==
    /\ graph \in Graphs
    /\ stage = "validate"
    /\ nodeSessions = <<>> /\ startedSessions = {} /\ finishedNodeQueue = <<>> /\ finishedSessions = {}
    /\ todo = {} /\ ready = {} /\ deferred = <<>> /\ tmpDeferred = <<>> /\ at = 1
    /\ firstErrorStatus = "OK"
    /\ response = <<>>
    /\ inference = <<>>
    /\ others \in 0 .. Streams
    /\ shards = graph.demultiplyCount
    /\ late = {}

\* The definition is validated; a request creates the pipeline, and its
\* entry node is finished at once.
Validate ==
    /\ stage = "validate" /\ validate(graph)
    /\ stage' = "pull"
    /\ nodeSessions' = Put(<<>>, <<Entry, <<>> >>, NewSession(Entry, <<>>))
    /\ startedSessions' = {<<Entry, <<>> >>}
    /\ finishedNodeQueue' = <<<<Entry, <<>> >> >>
    /\ UNCHANGED <<graph, finishedSessions, todo, ready, deferred, tmpDeferred, at, firstErrorStatus,
                   response, inference, others, shards, late>>

Reject ==
    /\ stage = "validate" /\ ~validate(graph)
    /\ stage' = "rejected"
    /\ UNCHANGED <<graph, nodeSessions, tvars, firstErrorStatus, response, inference, others, shards, late>>

Fail(code) == firstErrorStatus' = IF firstErrorStatus = "OK" THEN code ELSE firstErrorStatus

\* The loop ends when all that was started has finished.
LeaveOrPull(finished) ==
    stage' = IF Cardinality(finished) = Cardinality(startedSessions) THEN "returned" ELSE "pull"

(***************************************************************************)
(* The queue holds an event.                                               *)
(***************************************************************************)
Event == Head(finishedNodeQueue)
Take(s) ==
    /\ stage = "pull" /\ finishedNodeQueue # <<>> /\ s = Event
    /\ finishedNodeQueue' = Tail(finishedNodeQueue)
    /\ finishedSessions' = finishedSessions \cup {s}

Released(session) == [session EXCEPT !.guard = "none", !.unloadGuard = FALSE]

\* An error has occurred before: the session is only released.
ReleaseFinished(s) ==
    /\ Take(s) /\ firstErrorStatus # "OK"
    /\ IF graph.kind[s[1]] = "DL"
       THEN /\ nodeSessions' = [nodeSessions EXCEPT ![s] = Released(@)]
            /\ late' = late \cup ({s} \cap DOMAIN inference)
       ELSE UNCHANGED <<nodeSessions, late>>
    /\ LeaveOrPull(finishedSessions')
    /\ UNCHANGED <<graph, startedSessions, todo, ready, deferred, tmpDeferred, at,
                   firstErrorStatus, response, inference, others, shards>>

\* InferRequest::wait returns when the callback has.
WaitForResult(s) == s \notin DOMAIN inference

\* Node::fetchResults by kind of node.  The entry validates and deserializes
\* the request, the DL node waits for the inference and copies the outputs,
\* the custom node hands out what the library returned, the exit serializes.
FetchEntry(s) == graph.kind[s[1]] = "ENTRY"
FetchDL(s) == graph.kind[s[1]] = "DL" /\ WaitForResult(s)
FetchCustom(s) == graph.kind[s[1]] = "CUSTOM"
FetchExit(s) == graph.kind[s[1]] = "EXIT"

Fetch(s) ==
    /\ Take(s) /\ firstErrorStatus = "OK"
    /\ FetchEntry(s) \/ FetchDL(s) \/ FetchCustom(s) \/ FetchExit(s)

Erased(s) == Restrict(nodeSessions, DOMAIN nodeSessions \ {s})

\* Validation, deserialization, the inference, the results or the division
\* of the results into shards fail.
FetchFails(s) ==
    /\ Fetch(s)
    /\ firstErrorStatus' = "failed"
    /\ nodeSessions' = Erased(s)
    /\ LeaveOrPull(finishedSessions')
    /\ late' = late \cup ({s} \cap DOMAIN inference)
    /\ UNCHANGED <<graph, startedSessions, todo, ready, deferred, tmpDeferred, at,
                   response, inference, others, shards>>

\* What fetchResults gives: the output, or its shards.
Results(s) ==
    IF graph.demultiplyCount[s[1]] = 0
    THEN {<<[meta |-> s[2], tensor |-> Output(s)]>>}
    ELSE {Divided(s[1], s[2], Output(s), count) : count \in {c \in 0 .. MaxShards : CanDivide(s[1], c)}}

\* A gathering node that is complete finds shards of different shapes.  The
\* session counts as ready all the same.
GatherFails(fed, n) ==
    /\ graph.gatherFrom[n] # {}
    /\ \E s \in DOMAIN fed.sessions : s[1] = n /\ fed.sessions[s].remaining = 0

FetchResults(s) ==
    /\ Fetch(s) /\ ~FetchExit(s)
    /\ \E results \in Results(s), k \in 0 .. Cardinality(NextNodes(s[1])) :
          LET ns == SetToSeq(NextNodes(s[1]))
              fed == Feed(Erased(s), SubSeq(ns, 1, k), s[1], results)
          IN  /\ \/ k = Len(ns) /\ firstErrorStatus' = IF fed.ok THEN "OK" ELSE "internal"
                 \/ k > 0 /\ GatherFails(fed, ns[k]) /\ firstErrorStatus' = "failed"
              /\ nodeSessions' = fed.sessions
              /\ shards' = [shards EXCEPT ![s[1]] = IF @ = 0 THEN 0 ELSE Len(results)]
    /\ todo' = NextNodes(s[1])
    /\ stage' = "next"
    /\ late' = late \cup ({s} \cap DOMAIN inference)
    /\ UNCHANGED <<graph, startedSessions, ready, deferred, tmpDeferred, at,
                   response, inference, others>>

FetchResponse(s) ==
    /\ Fetch(s) /\ FetchExit(s)
    /\ response' = Output(s)
    /\ nodeSessions' = Erased(s)
    /\ todo' = {}
    /\ stage' = "next"
    /\ UNCHANGED <<graph, startedSessions, ready, deferred, tmpDeferred, at, firstErrorStatus,
                   inference, others, shards, late>>

(***************************************************************************)
(* Node::execute.  Each way of it says what becomes of the session, the    *)
(* queue, the inference and the error; "deferred" is the answer            *)
(* PIPELINE_STREAM_ID_NOT_READY_YET.                                       *)
(***************************************************************************)
Push(s) == finishedNodeQueue' = Append(finishedNodeQueue, s)
Quiet == UNCHANGED <<firstErrorStatus, inference>>

\* The exit node is finished at once.
ExecuteAtOnce(s) ==
    /\ graph.kind[s[1]] = "EXIT"
    /\ Push(s) /\ Quiet /\ UNCHANGED nodeSessions

ExecuteCustom(s) ==
    /\ graph.kind[s[1]] = "CUSTOM"
    /\ nodeSessions' = [nodeSessions EXCEPT ![s].isUsed = TRUE]
    /\ Push(s)
    /\ firstErrorStatus' \in {firstErrorStatus, IF firstErrorStatus = "OK" THEN "failed" ELSE firstErrorStatus}
    /\ UNCHANGED inference

\* requestExecuteRequiredResources: the model, then a place in its queue.
NoResources(s) == graph.kind[s[1]] = "DL" /\ nodeSessions[s].guard = "none"

\* The model is not there; nothing was done with the inputs.
ModelMissing(s) ==
    /\ NoResources(s)
    /\ Push(s) /\ Fail("failed") /\ UNCHANGED <<inference, nodeSessions>>

\* The inputs do not fit the model, and it cannot be reloaded for them.
InputsUnfit(s) ==
    /\ NoResources(s)
    /\ nodeSessions' = [nodeSessions EXCEPT ![s].isUsed = TRUE, ![s].unloadGuard = TRUE]
    /\ Push(s) /\ Fail("failed") /\ UNCHANGED inference

\* The stream is taken out of the future.
Taken(s) ==
    nodeSessions' = [nodeSessions EXCEPT ![s].isUsed = TRUE, ![s].unloadGuard = TRUE, ![s].guard = "got"]

\* setInputsForInference or executeInference fails.
InferenceFails(s) == Taken(s) /\ Push(s) /\ Fail("failed") /\ UNCHANGED inference

executeInference(s) ==
    /\ Taken(s)
    /\ inference' = Put(inference, s, "running")
    /\ UNCHANGED <<finishedNodeQueue, firstErrorStatus>>

Start(s) == InferenceFails(s) \/ executeInference(s)

Defer(s) ==
    /\ nodeSessions' = [nodeSessions EXCEPT ![s].isUsed = TRUE, ![s].unloadGuard = TRUE, ![s].guard = "waiting"]
    /\ Quiet /\ UNCHANGED finishedNodeQueue

ExecuteNow(s) ==
    \/ ExecuteAtOnce(s)
    \/ ExecuteCustom(s)
    \/ ModelMissing(s)
    \/ InputsUnfit(s)
    \/ NoResources(s) /\ Idle > 0 /\ Start(s)
ExecuteLater(s) == NoResources(s) /\ Idle = 0 /\ Defer(s)

(***************************************************************************)
(* Try the next nodes of the session that finished.  An error ends the     *)
(* loop over the sessions of a node, not the one over the nodes.           *)
(***************************************************************************)
getReadySessions(n) == {s \in DOMAIN nodeSessions : s[1] = n /\ isReady(s)}

TryNode(n) ==
    /\ stage = "next" /\ ready = {} /\ n \in todo
    /\ todo' = todo \ {n}
    /\ ready' = getReadySessions(n)
    /\ UNCHANGED <<graph, stage, nodeSessions, finishedNodeQueue, startedSessions, finishedSessions, deferred,
                   tmpDeferred, at, firstErrorStatus, response, inference, others, shards, late>>

TryReady(s) ==
    /\ stage = "next" /\ s \in ready
    /\ startedSessions' = startedSessions \cup {s}
    /\ \/ ExecuteNow(s) /\ UNCHANGED tmpDeferred
       \/ ExecuteLater(s) /\ tmpDeferred' = Append(tmpDeferred, s)
    /\ ready' = IF firstErrorStatus' = "OK" THEN ready \ {s} ELSE {}
    /\ UNCHANGED <<graph, stage, finishedSessions, todo, deferred, at, response, others, shards, late>>

NextNodesTried ==
    /\ stage = "next" /\ todo = {} /\ ready = {}
    /\ stage' = "deferred"
    /\ at' = 1
    /\ UNCHANGED <<graph, nodeSessions, finishedNodeQueue, startedSessions, finishedSessions, todo, ready, deferred,
                   tmpDeferred, firstErrorStatus, response, inference, others, shards, late>>

(***************************************************************************)
(* Try the deferred sessions: after an event ("deferred") only while no    *)
(* other event is waiting, after a timeout ("retry") all of them.  One     *)
(* that fails stays in the list.                                           *)
(***************************************************************************)
TryDeferred ==
    /\ stage \in {"deferred", "retry"} /\ at <= Len(deferred)
    /\ stage = "deferred" => finishedNodeQueue = <<>>
    /\ \/ /\ nodeSessions[deferred[at]].guard = "ready" /\ Start(deferred[at])
          /\ IF finishedNodeQueue' = finishedNodeQueue
             THEN deferred' = RemoveAt(deferred, at) /\ UNCHANGED at
             ELSE at' = at + 1 /\ UNCHANGED deferred
       \/ /\ nodeSessions[deferred[at]].guard = "waiting"
          /\ at' = at + 1
          /\ Quiet /\ UNCHANGED <<nodeSessions, finishedNodeQueue, deferred>>
    /\ UNCHANGED <<graph, stage, startedSessions, finishedSessions, todo, ready, tmpDeferred, response, others, shards, late>>

Merge ==
    /\ stage = "deferred"
    /\ at > Len(deferred) \/ finishedNodeQueue # <<>>
    /\ deferred' = deferred \o tmpDeferred
    /\ tmpDeferred' = <<>>
    /\ LeaveOrPull(finishedSessions)
    /\ UNCHANGED <<graph, nodeSessions, finishedNodeQueue, startedSessions, finishedSessions, todo, ready, at,
                   firstErrorStatus, response, inference, others, shards, late>>

EndRetry ==
    /\ stage = "retry" /\ at > Len(deferred)
    /\ stage' = "pull"
    /\ UNCHANGED <<graph, nodeSessions, tvars, firstErrorStatus, response, inference, others, shards, late>>

(***************************************************************************)
(* No event has come in time: without an error the deferred sessions are   *)
(* tried again, after one they are disarmed.                               *)
(***************************************************************************)
Timeout ==
    /\ stage = "pull" /\ finishedNodeQueue = <<>>
    /\ firstErrorStatus = "OK" => deferred # <<>>
    /\ stage' = IF firstErrorStatus = "OK" THEN "retry" ELSE "disarm"
    /\ at' = 1
    /\ UNCHANGED <<graph, nodeSessions, finishedNodeQueue, startedSessions, finishedSessions, todo, ready, deferred,
                   tmpDeferred, firstErrorStatus, response, inference, others, shards, late>>

\* The future of a guard whose stream has been taken out has no state: the
\* wait throws.  Without a guard there is nothing to do.
DisarmOne_GivesUp(guard) == IF guard = "got" THEN "throws" ELSE "disarmed"
DisarmOne_NoGuardFails(guard) ==
    CASE guard \in {"none", "waiting"} -> "timeout" [] guard = "got" -> "throws" [] OTHER -> "disarmed"

DisarmOne(guard) ==
    CASE guard = "waiting" -> "timeout" [] guard = "got" -> "throws" [] OTHER -> "disarmed"

tryDisarm ==
    /\ stage = "disarm" /\ at <= Len(deferred)
    /\ LET s == deferred[at]
           result == DisarmOne(nodeSessions[s].guard)
       IN  /\ stage' = IF result = "throws" THEN "threw" ELSE stage
           /\ IF result = "disarmed"
              THEN /\ nodeSessions' = [nodeSessions EXCEPT ![s].guard = IF @ = "ready" THEN "disarmed" ELSE @]
                   /\ finishedSessions' = finishedSessions \cup {s}
                   /\ deferred' = RemoveAt(deferred, at)
                   /\ UNCHANGED at
              ELSE at' = at + 1 /\ UNCHANGED <<nodeSessions, finishedSessions, deferred>>
    /\ UNCHANGED <<graph, finishedNodeQueue, startedSessions, todo, ready, tmpDeferred, firstErrorStatus,
                   response, inference, others, shards, late>>

EndDisarm ==
    /\ stage = "disarm" /\ at > Len(deferred)
    /\ IF deferred # <<>> THEN stage' = "pull" ELSE LeaveOrPull(finishedSessions)
    /\ UNCHANGED <<graph, nodeSessions, tvars, firstErrorStatus, response, inference, others, shards, late>>

(***************************************************************************)
(* The callback of an inference: the event, then the reset of the callback *)
(***************************************************************************)
Callback(s) ==
    /\ s \in DOMAIN inference /\ inference[s] = "running"
    /\ inference' = [inference EXCEPT ![s] = "calling"]
    /\ Push(s)
    /\ UNCHANGED <<graph, stage, nodeSessions, startedSessions, finishedSessions, todo, ready, deferred, tmpDeferred,
                   at, firstErrorStatus, response, others, shards, late>>

EndCallback(s) ==
    /\ s \in DOMAIN inference /\ inference[s] = "calling"
    /\ inference' = Restrict(inference, DOMAIN inference \ {s})
    /\ UNCHANGED <<graph, stage, nodeSessions, tvars, firstErrorStatus, response, others, shards, late>>

(***************************************************************************)
(* The inference queue (external to this module): it hands idle streams to *)
(* the guards that wait, and to other requests.                            *)
(***************************************************************************)
Grant(s) ==
    /\ stage \notin {"validate", "rejected", "returned", "threw"}
    /\ s \in DOMAIN nodeSessions /\ nodeSessions[s].guard = "waiting" /\ Idle > 0
    /\ nodeSessions' = [nodeSessions EXCEPT ![s].guard = "ready"]
    /\ UNCHANGED <<graph, stage, tvars, firstErrorStatus, response, inference, others, shards, late>>

OthersTake ==
    /\ stage \notin {"validate", "rejected", "returned", "threw"} /\ Idle > 0
    /\ others' = others + 1
    /\ UNCHANGED <<graph, stage, nodeSessions, tvars, firstErrorStatus, response, inference, shards, late>>
OthersReturn ==
    /\ stage # "validate" /\ others > 0
    /\ others' = others - 1
    /\ UNCHANGED <<graph, stage, nodeSessions, tvars, firstErrorStatus, response, inference, shards, late>>

Done == stage \in {"rejected", "returned"} /\ inference = <<>> /\ others = 0 /\ UNCHANGED executionVars

Thread ==
    \/ \E s \in ToSet(finishedNodeQueue) :
          ReleaseFinished(s) \/ FetchFails(s) \/ FetchResults(s) \/ FetchResponse(s)
    \/ \E n \in todo : TryNode(n)
    \/ \E s \in ready : TryReady(s)
    \/ NextNodesTried \/ TryDeferred \/ Merge \/ EndRetry \/ Timeout \/ tryDisarm \/ EndDisarm

InferenceEnds == \E s \in DOMAIN inference : Callback(s) \/ EndCallback(s)
Granted == \E s \in DOMAIN nodeSessions : Grant(s)

ExecutionNext ==
    \/ Validate \/ Reject
    \/ Thread
    \/ InferenceEnds
    \/ Granted
    \/ OthersTake \/ OthersReturn
    \/ Done

(***************************************************************************)
(* The thread keeps running, every inference ends, and the other requests  *)
(* give their streams back.  The queue serves its waiters in turn: it does *)
(* not pass over the ones of this pipeline forever.                        *)
(***************************************************************************)
ExecutionFairness ==
    /\ WF_executionVars(Thread) /\ WF_executionVars(InferenceEnds) /\ WF_executionVars(OthersReturn)
    /\ SF_executionVars(Granted)

ExecutionSpec == ExecutionInit /\ [][ExecutionNext]_executionVars /\ ExecutionFairness

(***************************************************************************)
(* Properties                                                              *)
(***************************************************************************)
Session(s) == s[1] \in graph.nodes /\ \A i \in DOMAIN s[2] : s[2][i].node \in graph.nodes

ExecutionTypeOK ==
    /\ IsGraph(graph)
    /\ stage \in {"validate", "rejected", "pull", "next", "deferred", "retry", "disarm", "returned", "threw"}
    /\ \A s \in DOMAIN nodeSessions :
          /\ Session(s)
          /\ nodeSessions[s].remaining \in Nat
          /\ nodeSessions[s].guard \in Guards
          /\ nodeSessions[s].isUsed \in BOOLEAN /\ nodeSessions[s].unloadGuard \in BOOLEAN
    /\ \A s \in ToSet(finishedNodeQueue) \cup startedSessions \cup finishedSessions \cup ready
                \cup ToSet(deferred) \cup ToSet(tmpDeferred) \cup DOMAIN inference : Session(s)
    /\ todo \subseteq graph.nodes
    /\ at \in Nat \ {0}
    /\ firstErrorStatus \in {"OK", "failed", "internal"}
    /\ others \in 0 .. Streams

(***************************************************************************)
(* What the pipeline computes, read off the graph and the numbers of       *)
(* shards.  A node applies to what arrives from its dependencies in its    *)
(* session; after a demultiplexer that is the shard of its innermost       *)
(* level.  A node that gathers takes all shards, ordered by the outer      *)
(* index first.                                                            *)
(***************************************************************************)
Level(d, i) == [node |-> d, id |-> i, size |-> shards[d]]

Composition ==
    LET Arriving(value, d, meta) ==
            IF shards[d] = 0 THEN value[d, meta]
            ELSE <<"shard", value[d, Front(meta)], Last(meta).id>>
        LevelsOf(n) == SelectSeq(OpenLevels(graph)[CHOOSE d \in graph.deps[n] : TRUE],
                                 LAMBDA d : d \in graph.gatherFrom[n])
        \* the i-th combination of the shards of the demultiplexers ds
        Combination(ds, i) ==
            [k \in DOMAIN ds |->
                Level(ds[k], (i \div Product([j \in 1 .. Len(ds) - k |-> shards[ds[k + j]]])) % shards[ds[k]])]
        value[n \in graph.nodes, meta \in Seq([node : graph.nodes, id : Nat, size : Nat])] ==
            LET ds == LevelsOf(n)
                sizes == [k \in DOMAIN ds |-> shards[ds[k]]]
            IN  <<"output", n, [d \in graph.deps[n] |->
                    IF ds = <<>> THEN Arriving(value, d, meta)
                    ELSE <<"gathered", sizes, [i \in 0 .. Product(sizes) - 1 |->
                                                 Arriving(value, d, meta \o Combination(ds, i))]>>]>>
    IN  value[ExitOf(graph), <<>>]

(***************************************************************************)
(* A pipeline that returns OK has delivered the composition of its nodes:  *)
(* every shard of every demultiplexer once, in the order of the shards,    *)
(* whatever the order in which the sessions finished.                      *)
(***************************************************************************)
DeliversComposition ==
    stage = "returned" /\ firstErrorStatus = "OK" => response = Composition

\* The validation draws the line where the execution needs it: it rejects no
\* pipeline whose nodes are well nested, and no pipeline that passed it runs
\* into an error that only a wrong graph can cause.
ValidationIsExact ==
    /\ stage = "rejected" => ~Wellformed(graph)
    /\ firstErrorStatus # "internal"

\* What the sessions take is given back, once and in time, on every path: the
\* guard of a deferred session is never disarmed after its stream was taken out
\* (the wait would throw); when the pipeline returns, no session still waits for
\* a stream and no inference still has to report to its queue; and until an
\* error occurs no stream goes back while the callback of its inference is
\* running (it resets the callback of the request).
GivesBackInTime ==
    /\ stage # "threw"
    /\ stage = "returned" => /\ \A s \in DOMAIN nodeSessions : nodeSessions[s].guard # "waiting"
                             /\ \A s \in DOMAIN inference : inference[s] # "running"
                             /\ finishedNodeQueue = <<>>
    /\ firstErrorStatus = "OK" => late = {}

\* Every execution of an accepted pipeline ends, whatever fails on the way
\* and however the streams of its model are contended.
Terminates == (stage = "pull") ~> (stage = "returned")
=============================================================================
