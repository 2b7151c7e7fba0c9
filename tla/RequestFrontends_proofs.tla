------------------------ MODULE RequestFrontends_proofs ------------------------
(***************************************************************************)
(* Theorems about the request handlers, for any number of request threads, *)
(* any names and versions and any number of reloads.                       *)
(***************************************************************************)
EXTENDS RequestFrontends, FiniteSetTheorems, TLAPS

-----------------------------------------------------------------------------
\* The inductive invariant

Lookups == {"exists", "pipelineExists", "inputsInfo", "prepare", "reporter", "find", "instance",
            "pipeline", "statusAll"}
Listings == {"lockAll", "all", "allPipelines"}
Uses == {"wait", "parse", "inputs", "outputs", "infer"}
Ends == {"json", "done"}
PCs == {"idle"} \cup Lookups \cup Listings \cup Uses \cup Ends

Outcomes == {"OK", "NOT_LOADED_ANYMORE", "NOT_LOADED_YET"}
Statuses ==
    Outcomes \cup {None, "FAILED", "NOT_READY", "MODEL_NAME_MISSING", "MODEL_VERSION_MISSING",
                   "MODEL_VERSION_INVALID_FORMAT", "MODEL_VERSION_NOT_LOADED_YET",
                   "INVALID_SIGNATURE_DEF", "JSON_INVALID", "JSON_SERIALIZATION_ERROR"}

\* The record of a request thread, field by field.
Request ==
    [pc : PCs, api : Apis \cup {None}, interface : Interfaces \cup {None}, name : Names \cup {None},
     version : {0, Bad} \cup Versions, servable : Servables \cup {NoServable},
     guard : BOOLEAN, parsedFor : Nat, inputs : Nat, outputs : Nat, ran : {None, "OK", "FAILED"},
     status : Statuses, earlier : SUBSET Names, listed : SUBSET Names]

\* The types of all variables; the counters are naturals.
Shape ==
    /\ models \cap pipelines = {} /\ models \cup pipelines \subseteq Names
    /\ modelsMtx \in {"idle", "waiting", "holding"}
    /\ state \in [Servables -> States] /\ gen \in [Servables -> Nat]
    /\ metrics \in [Servables \X Apis \X Interfaces \X BOOLEAN -> Nat]
    /\ req \in [Requests -> Request]

\* Which calls are at which step.
Control(R) ==
    /\ R.pc = "idle" => R.status = None
    /\ R.pc # "idle" => R.api \in Apis /\ R.interface \in Interfaces
    /\ R.pc \in Lookups \cup Uses => R.name \in Names /\ R.api # "ConfigStatus"
    /\ R.pc \in Listings => R.api = "ConfigStatus"
    /\ R.pc \in {"exists", "pipelineExists", "inputsInfo", "parse"} => R.api = "Predict" /\ R.interface = "REST"
    /\ R.pc \in {"prepare", "reporter"} => R.api = "Infer"
    /\ R.pc = "statusAll" => R.api = "Status"

\* What the request has found: nothing during the lookups, then a servable
\* of a name that is known, under a guard while it is read.
Found(R) ==
    /\ R.pc \notin Uses \cup Ends => R.servable = NoServable
    /\ R.servable # NoServable => R.servable[1] = R.name /\ R.name \in models \cup pipelines
    /\ R.pc \in {"inputs", "outputs"} => R.guard
    /\ R.guard => R.servable \in Servables
    /\ R.pc = "inputsInfo" => R.name \in pipelines
    /\ R.pc \in {"instance", "statusAll"} => R.name \in models
    /\ R.pc \in Uses => R.name \in models \cup pipelines
    /\ R.pc \in Uses \ {"wait"} => R.servable \in Servables
    /\ R.pc = "wait" /\ (R.name \in models \/ R.api \notin Inferences) => R.servable \in Servables

\* What was there at the arrival stays there, and is met by the lookup in
\* the models or by the one in the pipelines.
Looked(R) ==
    /\ R.earlier \subseteq models \cup pipelines
    /\ R.pc \in {"pipelineExists", "pipeline"} /\ R.name \in R.earlier => R.name \in pipelines
    /\ R.pc = "allPipelines" => R.earlier \subseteq R.listed \cup pipelines
    /\ R.pc = "done" /\ R.api = "ConfigStatus" => R.earlier \subseteq R.listed
    /\ R.status = "MODEL_NAME_MISSING" => R.name \notin R.earlier

\* The inputs that were read are those of the servable as it is, until the
\* outputs have been read too; what a model's request was parsed for is what
\* its guard holds; and what ran was accepted.
Read(R) ==
    /\ R.pc = "outputs" => R.outputs = 0 /\ R.inputs = gen[R.servable]
    /\ R.pc # "outputs" => R.inputs = R.outputs
    /\ R.pc \notin Ends \cup {"infer"} => R.outputs = 0
    /\ R.ran # None => R.pc \in Ends
    /\ R.ran = "OK" => R.name \in models \cup pipelines
    /\ R.pc \in {"inputs", "outputs"} /\ R.api \in Inferences => R.name \in pipelines
    /\ R.pc \in {"parse", "infer"} /\ R.api = "Predict" /\ R.interface = "REST" /\ R.name \in models =>
           R.guard /\ R.parsedFor = gen[R.servable]
    /\ R.ran = "OK" /\ R.api = "Predict" /\ R.interface = "REST" /\ R.name \in models =>
           R.parsedFor = R.outputs
    /\ R.ran = "OK" /\ R.api = "Predict" /\ R.interface = "REST" /\ R.name \in pipelines =>
           <<R.parsedFor, R.outputs>> \in Accepts[R.name]
    /\ R.pc = "json" /\ R.api \in Inferences => R.ran = "OK"

RequestOK(r) == Control(req[r]) /\ Found(req[r]) /\ Looked(req[r]) /\ Read(req[r])

\* The requests that the counters of a servable stand for.
Called(R, s, api, i) == R.api = api /\ R.interface = i /\ R.servable = s
Ran(R, s, api, i) == Called(R, s, api, i) /\ R.ran = "OK"
Failed(R, s, api, i) == Called(R, s, api, i) /\ R.pc = "done" /\ R.ran # "OK"
RanAt(s, api, i) == {r \in Requests : Ran(req[r], s, api, i)}
FailedAt(s, api, i) == {r \in Requests : Failed(req[r], s, api, i)}
Ended == {r \in Requests : req[r].pc \in Ends}

\* The counters of inferences are exact at every moment, and no request is
\* counted before it ends.
Counters ==
    /\ \A s \in Servables, api \in Inferences, i \in Interfaces :
        /\ metrics[<<s, api, i, TRUE>>] = Cardinality(RanAt(s, api, i))
        /\ metrics[<<s, api, i, FALSE>>] = Cardinality(FailedAt(s, api, i))
    /\ \A k \in Servables \X Apis \X Interfaces \X BOOLEAN : metrics[k] <= Cardinality(Ended)

FrontendInv == Shape /\ (\A r \in Requests : RequestOK(r)) /\ Counters

-----------------------------------------------------------------------------
\* What the steps do to the record of a request

\* waitForLoaded has three outcomes.
LEMMA WaitedOutcome ==
    ASSUME NEW s PROVE Waited(s) \in Outcomes
BY DEF Waited, Outcomes

\* The record of r is replaced by another one, with the api, interface,
\* name, version and earlier of the old one; the other requests stay.
Moves(r) ==
    /\ req' = [req EXCEPT ![r] = req'[r]] /\ req'[r] \in Request
    /\ req'[r].api = req[r].api /\ req'[r].interface = req[r].interface /\ req'[r].name = req[r].name
    /\ req'[r].version = req[r].version /\ req'[r].earlier = req[r].earlier

\* The fields that only some steps assign.
KeepsReads(r) ==
    /\ req'[r].inputs = req[r].inputs /\ req'[r].outputs = req[r].outputs
    /\ req'[r].parsedFor = req[r].parsedFor
KeepsRun(r) == req'[r].ran = req[r].ran
KeepsList(r) == req'[r].listed = req[r].listed
KeepsServable(r) == req'[r].servable = req[r].servable /\ req'[r].guard = req[r].guard
KeepsStatus(r) == req'[r].status = req[r].status

\* Goto assigns nothing but the program counter.
LEMMA GotoFacts ==
    ASSUME Shape, NEW r \in Requests, NEW p \in PCs, Goto(r, p)
    PROVE  /\ Moves(r) /\ KeepsReads(r) /\ KeepsRun(r) /\ KeepsList(r) /\ KeepsServable(r) /\ KeepsStatus(r)
           /\ req'[r].pc = p
<1>1. req[r] \in Request
    BY DEF Shape
<1>2. req'[r] = [req[r] EXCEPT !.pc = p] /\ req' = [req EXCEPT ![r] = req'[r]]
    BY <1>1 DEF Goto, Shape
<1>3. req'[r] \in Request
    BY <1>1, <1>2 DEF Request
<1> QED
    BY <1>1, <1>2, <1>3 DEF Request, Moves, KeepsReads, KeepsRun, KeepsList, KeepsServable, KeepsStatus

\* Answer ends the request and drops its guard.
LEMMA AnswerFacts ==
    ASSUME Shape, NEW r \in Requests, NEW st \in Statuses, Answer(r, st)
    PROVE  /\ Moves(r) /\ KeepsReads(r) /\ KeepsRun(r) /\ KeepsList(r)
           /\ req'[r].pc = "done" /\ req'[r].status = st /\ req'[r].guard = FALSE
           /\ req'[r].servable = req[r].servable
<1>1. req[r] \in Request
    BY DEF Shape
<1>2. /\ req'[r] = [req[r] EXCEPT !.pc = "done", !.status = st, !.guard = FALSE]
      /\ req' = [req EXCEPT ![r] = req'[r]]
    BY <1>1 DEF Answer, Shape
<1>3. req'[r] \in Request
    BY <1>1, <1>2 DEF Request, PCs, Ends
<1> QED
    BY <1>1, <1>2, <1>3 DEF Request, Moves, KeepsReads, KeepsRun, KeepsList

-----------------------------------------------------------------------------
\* Counting

\* A set of requests that a step leaves alone keeps its size, and one that it
\* adds a request to grows by one.
LEMMA AddOne ==
    ASSUME NEW S \in SUBSET Requests, NEW T, NEW r \in Requests, r \notin S, T = S \cup {r}
    PROVE  Cardinality(S) \in Nat /\ Cardinality(T) = Cardinality(S) + 1
BY RequestsAssumption, FS_Subset, FS_AddElement, FS_CardinalityType

\* The number of requests in a set of them is a natural, and grows with the set.
LEMMA CardMonotone ==
    ASSUME NEW S \in SUBSET Requests, NEW T \in SUBSET Requests, S \subseteq T
    PROVE  Cardinality(S) \in Nat /\ Cardinality(T) \in Nat /\ Cardinality(S) <= Cardinality(T)
BY RequestsAssumption, FS_Subset, FS_CardinalityType

\* A step of r that counts nothing, and after which r stands for the same
\* counters as before, leaves the counters exact.
LEMMA Uncounted ==
    ASSUME Shape, Counters, NEW r \in Requests, req' = [req EXCEPT ![r] = req'[r]], metrics' = metrics,
           req[r].pc \in Ends => req'[r].pc \in Ends,
           \A s \in Servables, api \in Inferences, i \in Interfaces :
             /\ Ran(req'[r], s, api, i) <=> Ran(req[r], s, api, i)
             /\ Failed(req'[r], s, api, i) <=> Failed(req[r], s, api, i)
    PROVE  Counters'
<1>1. \A q \in Requests : q # r => req'[q] = req[q]
    BY DEF Shape
<1>2. ASSUME NEW s \in Servables, NEW api \in Inferences, NEW i \in Interfaces
      PROVE  RanAt(s, api, i)' = RanAt(s, api, i) /\ FailedAt(s, api, i)' = FailedAt(s, api, i)
    BY <1>1 DEF RanAt, FailedAt
<1>3. Ended \subseteq Ended' /\ Ended \in SUBSET Requests /\ Ended' \in SUBSET Requests
    BY <1>1 DEF Ended
<1>4. ASSUME NEW k \in Servables \X Apis \X Interfaces \X BOOLEAN
      PROVE  metrics'[k] <= Cardinality(Ended')
  <2>1. metrics[k] <= Cardinality(Ended) /\ metrics[k] \in Nat
    BY DEF Counters, Shape
  <2> QED
    BY <1>3, <2>1, CardMonotone
<1> QED
    BY <1>2, <1>4 DEF Counters

\* A step that ends r and counts it, where r comes to stand for the counter.
LEMMA Counted ==
    ASSUME Shape, Counters, NEW r \in Requests, req' = [req EXCEPT ![r] = req'[r]],
           NEW s \in Servables, NEW ok \in BOOLEAN, Increment(r, s, ok),
           req[r].api \in Apis, req[r].interface \in Interfaces,
           req[r].pc \notin Ends, req[r].ran = None, req'[r].pc \in Ends, Called(req'[r], s, req[r].api, req[r].interface),
           req[r].api \in Inferences => ((req'[r].ran = "OK") <=> ok),
           req[r].api \in Inferences /\ ~ok => req'[r].pc = "done"
    PROVE  Counters' /\ metrics' \in [Servables \X Apis \X Interfaces \X BOOLEAN -> Nat]
<1> DEFINE K == Servables \X Apis \X Interfaces \X BOOLEAN
           key == <<s, req[r].api, req[r].interface, ok>>
<1>1. \A q \in Requests : q # r => req'[q] = req[q]
    BY DEF Shape
<1>2. /\ key \in K /\ metrics \in [K -> Nat] /\ metrics' = [metrics EXCEPT ![key] = metrics[key] + 1]
    BY DEF Shape, Increment
<1>3. metrics' \in [K -> Nat]
    BY <1>2
<1>4. Ended' = Ended \cup {r} /\ r \notin Ended /\ Ended \in SUBSET Requests
    BY <1>1 DEF Ended
<1>5. ASSUME NEW k \in K
      PROVE  metrics'[k] <= Cardinality(Ended')
  <2>1. metrics[k] <= Cardinality(Ended) /\ metrics[k] \in Nat
    BY <1>2 DEF Counters
  <2>2. metrics'[k] <= metrics[k] + 1
    BY <1>2, <2>1
  <2>3. Cardinality(Ended) \in Nat /\ Cardinality(Ended') = Cardinality(Ended) + 1
    BY <1>4, AddOne
  <2> QED
    BY <2>1, <2>2, <2>3, <1>3
<1>6. ASSUME NEW t \in Servables, NEW api \in Inferences, NEW i \in Interfaces
      PROVE  /\ metrics'[<<t, api, i, TRUE>>] = Cardinality(RanAt(t, api, i)')
             /\ metrics'[<<t, api, i, FALSE>>] = Cardinality(FailedAt(t, api, i)')
  <2>1. /\ metrics[<<t, api, i, TRUE>>] = Cardinality(RanAt(t, api, i))
        /\ metrics[<<t, api, i, FALSE>>] = Cardinality(FailedAt(t, api, i))
    BY DEF Counters
  <2>2. /\ RanAt(t, api, i) \in SUBSET Requests /\ r \notin RanAt(t, api, i)
        /\ FailedAt(t, api, i) \in SUBSET Requests /\ r \notin FailedAt(t, api, i)
    BY DEF RanAt, FailedAt, Ran, Failed, Ends, None
  <2>3. <<t, api, i, TRUE>> \in K /\ <<t, api, i, FALSE>> \in K
    BY DEF Apis
  <2>4. CASE t = s /\ api = req[r].api /\ i = req[r].interface
    <3>1. CASE ok = TRUE
      <4>1. RanAt(t, api, i)' = RanAt(t, api, i) \cup {r} /\ FailedAt(t, api, i)' = FailedAt(t, api, i)
        BY <1>1, <2>4, <3>1, <2>2 DEF RanAt, FailedAt, Ran, Failed, Called
      <4>2. metrics'[<<t, api, i, TRUE>>] = metrics[<<t, api, i, TRUE>>] + 1
        BY <1>2, <2>3, <2>4, <3>1
      <4>3. metrics'[<<t, api, i, FALSE>>] = metrics[<<t, api, i, FALSE>>]
        BY <1>2, <2>3, <2>4, <3>1
      <4> QED
        BY <2>1, <2>2, <4>1, <4>2, <4>3, AddOne
    <3>2. CASE ok = FALSE
      <4>1. FailedAt(t, api, i)' = FailedAt(t, api, i) \cup {r} /\ RanAt(t, api, i)' = RanAt(t, api, i)
        BY <1>1, <2>4, <3>2, <2>2 DEF RanAt, FailedAt, Ran, Failed, Called
      <4>2. metrics'[<<t, api, i, FALSE>>] = metrics[<<t, api, i, FALSE>>] + 1
        BY <1>2, <2>3, <2>4, <3>2
      <4>3. metrics'[<<t, api, i, TRUE>>] = metrics[<<t, api, i, TRUE>>]
        BY <1>2, <2>3, <2>4, <3>2
      <4> QED
        BY <2>1, <2>2, <4>1, <4>2, <4>3, AddOne
    <3> QED
      BY <3>1, <3>2
  <2>5. CASE ~(t = s /\ api = req[r].api /\ i = req[r].interface)
    <3>1. FailedAt(t, api, i)' = FailedAt(t, api, i) /\ RanAt(t, api, i)' = RanAt(t, api, i)
      BY <1>1, <2>5, <2>2 DEF RanAt, FailedAt, Ran, Failed, Called
    <3>2. /\ metrics'[<<t, api, i, FALSE>>] = metrics[<<t, api, i, FALSE>>]
          /\ metrics'[<<t, api, i, TRUE>>] = metrics[<<t, api, i, TRUE>>]
      BY <1>2, <2>3, <2>5
    <3> QED
      BY <2>1, <3>1, <3>2
  <2> QED
    BY <2>4, <2>5
<1> QED
    BY <1>3, <1>5, <1>6 DEF Counters

-----------------------------------------------------------------------------
\* The steps of a request

CounterType == [Servables \X Apis \X Interfaces \X BOOLEAN -> Nat]

\* What a step of r has to show.
StepOK(r) ==
    /\ req' = [req EXCEPT ![r] = req'[r]] /\ req'[r] \in Request
    /\ RequestOK(r)' /\ Counters' /\ metrics' \in CounterType

\* A request that has not ended has not run.
LEMMA NotEnded ==
    ASSUME NEW r \in Requests, RequestOK(r), req[r].pc \notin Ends
    PROVE  req[r].ran = None
BY DEF RequestOK, Read

\* A step between two points before the end counts nothing.
LEMMA QuietMove ==
    ASSUME Shape, Counters, NEW r \in Requests, Moves(r), UNCHANGED metrics, KeepsRun(r),
           RequestOK(r), req[r].pc \notin Ends, req'[r].pc \notin Ends
    PROVE  Counters' /\ metrics' \in CounterType
<1>1. req[r].ran = None /\ req'[r].ran = None
    BY NotEnded DEF KeepsRun
<1>2. Counters'
    BY <1>1, Uncounted DEF Moves, Ran, Failed, Ends, None
<1> QED
    BY <1>2 DEF Shape, CounterType

\* An answer that is not counted is one of a request that has found nothing,
\* or of a call that is no inference.
LEMMA QuietAnswer ==
    ASSUME Shape, Counters, NEW r \in Requests, RequestOK(r), NEW st \in Statuses, Answer(r, st),
           UNCHANGED <<manager, metrics>>, req[r].pc \in (Lookups \cup Uses) \ {"outputs"},
           req[r].servable = NoServable \/ req[r].api \notin Inferences,
           st = "MODEL_NAME_MISSING" =>
             req[r].pc \in {"pipelineExists", "pipeline"} /\ req[r].name \notin pipelines
    PROVE  StepOK(r)
<1> USE AnswerFacts DEF RequestOK, manager, Lookups, Listings, Uses, Ends, Moves, KeepsReads, KeepsRun, KeepsList
<1>1. Control(req[r])'
    BY DEF Control
<1>2. Found(req[r])'
    BY DEF Found
<1>3. Looked(req[r])'
    BY DEF Looked, Control
<1>4. Read(req[r])'
    BY DEF Read
<1>5. req[r].ran = None /\ NoServable \notin Servables
    BY VersionsAssumption DEF Read, None, NoServable, Servables
<1>6. ASSUME NEW s \in Servables, NEW api \in Inferences, NEW i \in Interfaces
      PROVE  /\ ~Ran(req'[r], s, api, i) /\ ~Ran(req[r], s, api, i)
             /\ ~Failed(req'[r], s, api, i) /\ ~Failed(req[r], s, api, i)
  <2>0. req'[r].servable = req[r].servable /\ req'[r].api = req[r].api
    OBVIOUS
  <2>1. ~Called(req'[r], s, api, i)
    <3> HIDE AnswerFacts DEF RequestOK, Moves, KeepsReads, KeepsRun, KeepsList
    <3> QED
      BY <1>5, <2>0 DEF Called
  <2>2. req[r].pc # "done" /\ req[r].ran # "OK"
    BY <1>5 DEF None
  <2> QED
    BY <2>1, <2>2 DEF Ran, Failed
<1>7. Counters'
    BY <1>6, Uncounted
<1> QED
    BY <1>1, <1>2, <1>3, <1>4, <1>7 DEF StepOK, Shape, CounterType

\* A request that fails after it has found its servable is counted there.
LEMMA CountedAnswer ==
    ASSUME Shape, Counters, NEW r \in Requests, RequestOK(r), NEW st \in Statuses, Answer(r, st),
           Increment(r, req[r].servable, FALSE), UNCHANGED manager,
           req[r].pc \in Uses \ {"outputs"}, req[r].servable \in Servables, st # "MODEL_NAME_MISSING"
    PROVE  StepOK(r)
<1> USE AnswerFacts DEF RequestOK, manager, Lookups, Listings, Uses, Ends, Moves, KeepsReads, KeepsRun, KeepsList
<1>1. Control(req[r])'
    BY DEF Control
<1>2. Found(req[r])'
    BY DEF Found
<1>3. Looked(req[r])'
    BY DEF Looked, Control
<1>4. Read(req[r])'
    BY DEF Read
<1>5. req[r].ran = None /\ req[r].api \in Apis /\ req[r].interface \in Interfaces
    BY DEF Read, Control
<1>6. Called(req'[r], req[r].servable, req[r].api, req[r].interface)
    BY DEF Called
<1>7. Counters' /\ metrics' \in CounterType
    BY <1>5, <1>6, Counted DEF CounterType, None
<1> QED
    BY <1>1, <1>2, <1>3, <1>4, <1>7 DEF StepOK

\* What was counted is not counted again when the response becomes JSON.
LEMMA JsonAnswer ==
    ASSUME Shape, Counters, NEW r \in Requests, RequestOK(r), NEW st \in Statuses, Answer(r, st),
           UNCHANGED <<manager, metrics>>, req[r].pc = "json", req[r].api # "ConfigStatus",
           st # "MODEL_NAME_MISSING"
    PROVE  StepOK(r)
<1> USE AnswerFacts DEF RequestOK, manager, Lookups, Listings, Uses, Ends, Moves, KeepsReads, KeepsRun, KeepsList
<1>1. Control(req[r])'
    BY DEF Control
<1>2. Found(req[r])'
    BY DEF Found
<1>3. Looked(req[r])'
    BY DEF Looked, Control
<1>4. Read(req[r])'
    BY DEF Read
<1>5. req[r].api \in Inferences => req[r].ran = "OK"
    BY DEF Read
<1>6. ASSUME NEW s \in Servables, NEW api \in Inferences, NEW i \in Interfaces
      PROVE  /\ Ran(req'[r], s, api, i) <=> Ran(req[r], s, api, i)
             /\ Failed(req'[r], s, api, i) <=> Failed(req[r], s, api, i)
    BY <1>5 DEF Ran, Failed, Called
<1>7. Counters'
    BY <1>6, Uncounted
<1> QED
    BY <1>1, <1>2, <1>3, <1>4, <1>7 DEF StepOK, Shape, CounterType

\* The name is looked for among the models; what arrived earlier and is no
\* model is a pipeline.
LEMMA ModelExistsStep ==
    ASSUME Shape, Counters, NEW r \in Requests, RequestOK(r), ModelExists(r)
    PROVE  StepOK(r)
<1> USE DEF manager, At, Is, Rest, Name, Pipeline, End,
            KeepsReads, KeepsRun, KeepsList, KeepsServable, KeepsStatus
<1>1. PICK p \in {"find", "pipelineExists"} : p = (IF req[r].name \in models THEN "find" ELSE "pipelineExists") /\ Goto(r, p)
    BY DEF ModelExists
<1>2. UNCHANGED <<manager, metrics>> /\ p \in PCs
    BY <1>1 DEF ModelExists, PCs, Lookups, Listings, Uses, Ends
<1>3. /\ Moves(r) /\ KeepsReads(r) /\ KeepsRun(r) /\ KeepsList(r) /\ KeepsServable(r) /\ KeepsStatus(r)
      /\ req'[r].pc = p
    BY <1>1, <1>2, GotoFacts
<1>4. RequestOK(r)'
  <2> USE <1>1, <1>2, <1>3 DEF RequestOK, Moves, Lookups, Listings, Uses, Ends, None, ModelExists
  <2>1. Control(req[r])'
      BY DEF Control
  <2>2. Found(req[r])'
      BY DEF Found, Control
  <2>3. Looked(req[r])'
      BY DEF Looked, Control, Found
  <2>4. Read(req[r])'
      BY DEF Read, Control, Found
  <2> QED
      BY <2>1, <2>2, <2>3, <2>4
<1>5. req[r].pc \notin Ends /\ req'[r].pc \notin Ends
    BY <1>1, <1>2, <1>3 DEF ModelExists, Ends
<1>6. Counters' /\ metrics' \in CounterType
    BY <1>1, <1>2, <1>3, <1>5, QuietMove DEF ModelExists
<1> QED
    BY <1>3, <1>4, <1>6 DEF StepOK, Moves

\* The listing of all models starts.
LEMMA LockModelsStep ==
    ASSUME Shape, Counters, NEW r \in Requests, RequestOK(r), LockModels(r)
    PROVE  StepOK(r)
<1> USE DEF manager, At, Is, Rest, Name, Pipeline, End,
            KeepsReads, KeepsRun, KeepsList, KeepsServable, KeepsStatus
<1>1. PICK p \in {"all"} : p = "all" /\ Goto(r, p)
    BY DEF LockModels
<1>2. UNCHANGED <<manager, metrics>> /\ p \in PCs
    BY <1>1 DEF LockModels, PCs, Lookups, Listings, Uses, Ends
<1>3. /\ Moves(r) /\ KeepsReads(r) /\ KeepsRun(r) /\ KeepsList(r) /\ KeepsServable(r) /\ KeepsStatus(r)
      /\ req'[r].pc = p
    BY <1>1, <1>2, GotoFacts
<1>4. RequestOK(r)'
  <2> USE <1>1, <1>2, <1>3 DEF RequestOK, Moves, Lookups, Listings, Uses, Ends, None, LockModels
  <2>1. Control(req[r])'
      BY DEF Control
  <2>2. Found(req[r])'
      BY DEF Found, Control
  <2>3. Looked(req[r])'
      BY DEF Looked, Control, Found
  <2>4. Read(req[r])'
      BY DEF Read, Control, Found
  <2> QED
      BY <2>1, <2>2, <2>3, <2>4
<1>5. req[r].pc \notin Ends /\ req'[r].pc \notin Ends
    BY <1>1, <1>2, <1>3 DEF LockModels, Ends
<1>6. Counters' /\ metrics' \in CounterType
    BY <1>1, <1>2, <1>3, <1>5, QuietMove DEF LockModels
<1> QED
    BY <1>3, <1>4, <1>6 DEF StepOK, Moves

\* When every model is listed, the earlier names that are missing are
\* pipelines.
LEMMA UnlockModelsStep ==
    ASSUME Shape, Counters, NEW r \in Requests, RequestOK(r), UnlockModels(r)
    PROVE  StepOK(r)
<1> USE DEF manager, At, Is, Rest, Name, Pipeline, End,
            KeepsReads, KeepsRun, KeepsList, KeepsServable, KeepsStatus
<1>1. PICK p \in {"allPipelines"} : p = "allPipelines" /\ Goto(r, p)
    BY DEF UnlockModels
<1>2. UNCHANGED <<manager, metrics>> /\ p \in PCs
    BY <1>1 DEF UnlockModels, PCs, Lookups, Listings, Uses, Ends
<1>3. /\ Moves(r) /\ KeepsReads(r) /\ KeepsRun(r) /\ KeepsList(r) /\ KeepsServable(r) /\ KeepsStatus(r)
      /\ req'[r].pc = p
    BY <1>1, <1>2, GotoFacts
<1>4. RequestOK(r)'
  <2> USE <1>1, <1>2, <1>3 DEF RequestOK, Moves, Lookups, Listings, Uses, Ends, None, UnlockModels
  <2>1. Control(req[r])'
      BY DEF Control
  <2>2. Found(req[r])'
      BY DEF Found, Control
  <2>3. Looked(req[r])'
      BY DEF Looked, Control, Found
  <2>4. Read(req[r])'
      BY DEF Read, Control, Found
  <2> QED
      BY <2>1, <2>2, <2>3, <2>4
<1>5. req[r].pc \notin Ends /\ req'[r].pc \notin Ends
    BY <1>1, <1>2, <1>3 DEF UnlockModels, Ends
<1>6. Counters' /\ metrics' \in CounterType
    BY <1>1, <1>2, <1>3, <1>5, QuietMove DEF UnlockModels
<1> QED
    BY <1>3, <1>4, <1>6 DEF StepOK, Moves

\* The body becomes a request, or only a failure to be counted.
LEMMA PrepareGrpcRequestStep ==
    ASSUME Shape, Counters, NEW r \in Requests, RequestOK(r), PrepareGrpcRequest(r)
    PROVE  StepOK(r)
<1> USE DEF manager, At, Is, Rest, Name, Pipeline, End,
            KeepsReads, KeepsRun, KeepsList, KeepsServable, KeepsStatus
<1>1. PICK p \in {"find", "reporter"} : Goto(r, p)
    BY DEF PrepareGrpcRequest
<1>2. UNCHANGED <<manager, metrics>> /\ p \in PCs
    BY <1>1 DEF PrepareGrpcRequest, PCs, Lookups
<1>3. /\ Moves(r) /\ KeepsReads(r) /\ KeepsRun(r) /\ KeepsList(r) /\ KeepsServable(r) /\ KeepsStatus(r)
      /\ req'[r].pc = p
    BY <1>1, <1>2, GotoFacts
<1>4. RequestOK(r)'
  <2> USE <1>1, <1>2, <1>3 DEF RequestOK, Moves, Lookups, Listings, Uses, Ends, None, PrepareGrpcRequest
  <2>1. Control(req[r])'
      BY DEF Control
  <2>2. Found(req[r])'
      BY DEF Found, Control
  <2>3. Looked(req[r])'
      BY DEF Looked, Control, Found
  <2>4. Read(req[r])'
      BY DEF Read, Control, Found
  <2> QED
      BY <2>1, <2>2, <2>3, <2>4
<1>5. req[r].pc \notin Ends /\ req'[r].pc \notin Ends
    BY <1>1, <1>2, <1>3 DEF PrepareGrpcRequest, Ends
<1>6. Counters' /\ metrics' \in CounterType
    BY <1>1, <1>2, <1>3, <1>5, QuietMove DEF PrepareGrpcRequest
<1> QED
    BY <1>3, <1>4, <1>6 DEF StepOK, Moves

\* One more model is listed.
LEMMA StatusOfModelStep ==
    ASSUME Shape, Counters, NEW r \in Requests, RequestOK(r), StatusOfModel(r)
    PROVE  StepOK(r)
<1> USE DEF manager, At, Is, Rest, Name, Pipeline, End,
            KeepsReads, KeepsRun, KeepsList, KeepsServable, KeepsStatus
<1>1. PICK n \in models \ req[r].listed : req' = [req EXCEPT ![r].listed = @ \cup {n}]
    BY DEF StatusOfModel
<1>2. req[r] \in Request /\ n \in Names /\ UNCHANGED <<manager, metrics>>
    BY <1>1 DEF StatusOfModel, Shape
<1>3. /\ req'[r] = [req[r] EXCEPT !.listed = req[r].listed \cup {n}] /\ req' = [req EXCEPT ![r] = req'[r]]
    BY <1>1, <1>2 DEF StatusOfModel, Shape
<1>4. req'[r] \in Request
    BY <1>2, <1>3 DEF Request
<1>5. /\ Moves(r) /\ KeepsReads(r) /\ KeepsRun(r) /\ KeepsServable(r) /\ KeepsStatus(r)
      /\ req'[r].listed = (req[r].listed \cup {n}) /\ req'[r].pc = req[r].pc
    BY <1>2, <1>3, <1>4 DEF Request, Moves
<1>6. RequestOK(r)'
  <2> USE <1>2, <1>5 DEF RequestOK, Moves, Lookups, Listings, Uses, Ends, None, StatusOfModel
  <2>1. Control(req[r])'
      BY DEF Control
  <2>2. Found(req[r])'
      BY DEF Found, Control
  <2>3. Looked(req[r])'
      BY DEF Looked, Control, Found
  <2>4. Read(req[r])'
      BY DEF Read, Control, Found
  <2> QED
      BY <2>1, <2>2, <2>3, <2>4
<1>7. req[r].pc \notin Ends /\ req'[r].pc \notin Ends
    BY <1>2, <1>5 DEF StatusOfModel, Ends
<1>8. Counters' /\ metrics' \in CounterType
    BY <1>2, <1>5, <1>7, QuietMove DEF StatusOfModel
<1> QED
    BY <1>5, <1>6, <1>8 DEF StepOK, Moves

\* The pipelines complete the list.
LEMMA StatusOfPipelinesStep ==
    ASSUME Shape, Counters, NEW r \in Requests, RequestOK(r), StatusOfPipelines(r)
    PROVE  StepOK(r)
<1> USE DEF manager, At, Is, Rest, Name, Pipeline, End,
            KeepsReads, KeepsRun, KeepsList, KeepsServable, KeepsStatus
<1>1. /\ req[r] \in Request /\ UNCHANGED <<manager, metrics>>
      /\ req[r].listed \cup pipelines \in SUBSET Names
    BY DEF StatusOfPipelines, Shape, Request
<1>2. /\ req'[r] = [req[r] EXCEPT !.pc = "done", !.status = "OK", !.listed = req[r].listed \cup pipelines]
      /\ req' = [req EXCEPT ![r] = req'[r]]
    BY <1>1 DEF StatusOfPipelines, Shape
<1>3. req'[r] \in Request
  <2>1. "done" \in PCs
      BY <1>1 DEF PCs, Lookups, Listings, Uses, Ends
  <2>2. "OK" \in Statuses
      BY <1>1 DEF Statuses, Outcomes
  <2> QED
      BY <1>1, <1>2, <2>1, <2>2 DEF Request
<1>4. /\ Moves(r) /\ KeepsReads(r) /\ KeepsRun(r) /\ KeepsServable(r) /\ req'[r].pc = "done"
      /\ req'[r].status = "OK" /\ req'[r].listed = (req[r].listed \cup pipelines)
    BY <1>1, <1>2, <1>3 DEF Request, Moves
<1>5. RequestOK(r)'
  <2> USE <1>1, <1>4 DEF RequestOK, Moves, Lookups, Listings, Uses, Ends, None, StatusOfPipelines
  <2>1. Control(req[r])'
      BY DEF Control
  <2>2. Found(req[r])'
      BY DEF Found, Control
  <2>3. Looked(req[r])'
      BY DEF Looked, Control, Found
  <2>4. Read(req[r])'
      BY DEF Read, Control, Found
  <2> QED
      BY <2>1, <2>2, <2>3, <2>4
<1>6. req[r].ran = None /\ req'[r].ran = None /\ req[r].api = "ConfigStatus" /\ req[r].pc # "done"
    BY <1>4 DEF RequestOK, Control, Read, StatusOfPipelines, Listings, Ends
<1>7. ASSUME NEW s \in Servables, NEW api \in Inferences, NEW i \in Interfaces
       PROVE  /\ Ran(req'[r], s, api, i) <=> Ran(req[r], s, api, i)
              /\ Failed(req'[r], s, api, i) <=> Failed(req[r], s, api, i)
    BY <1>4, <1>6 DEF Ran, Failed, Called, Moves, Inferences, None
<1>8. Counters' /\ metrics' \in CounterType
    BY <1>1, <1>4, <1>7, Uncounted DEF Shape, CounterType, Moves, Ends, StatusOfPipelines
<1> QED
    BY <1>4, <1>5, <1>8 DEF StepOK, Moves

\* A metadata request that is refused has found nothing.
LEMMA ValidateMetadataStep ==
    ASSUME Shape, Counters, NEW r \in Requests, RequestOK(r), ValidateMetadata(r)
    PROVE  StepOK(r)
<1> USE DEF manager, At, Is, Rest, Name, Pipeline, End,
            KeepsReads, KeepsRun, KeepsList, KeepsServable, KeepsStatus
<1>1. Answer(r, "INVALID_SIGNATURE_DEF") /\ UNCHANGED <<manager, metrics>>
    BY DEF ValidateMetadata
<1>2. req[r].pc \in (Lookups \cup Uses) \ {"outputs"} /\ req[r].servable = NoServable
    BY DEF ValidateMetadata, RequestOK, Found, Lookups, Uses, Ends
<1>3. "INVALID_SIGNATURE_DEF" \in Statuses
    BY DEF Statuses
<1> QED
    BY <1>1, <1>2, <1>3, QuietAnswer

\* The result of an inference becomes JSON.
LEMMA MakeJsonStep ==
    ASSUME Shape, Counters, NEW r \in Requests, RequestOK(r), MakeJson(r)
    PROVE  StepOK(r)
<1> USE DEF manager, At, Is, Rest, Name, Pipeline, End,
            KeepsReads, KeepsRun, KeepsList, KeepsServable, KeepsStatus
<1>1. PICK st \in {"OK", "JSON_SERIALIZATION_ERROR"} : Answer(r, st)
    BY DEF MakeJson
<1>2. req[r].pc = "json" /\ req[r].api # "ConfigStatus" /\ UNCHANGED <<manager, metrics>>
    BY DEF MakeJson, Inferences
<1>3. st \in Statuses /\ st # "MODEL_NAME_MISSING"
    BY <1>1 DEF Statuses, Outcomes
<1> QED
    BY <1>1, <1>2, <1>3, JsonAnswer

\* The metadata become JSON.
LEMMA ProcessModelMetadataStep ==
    ASSUME Shape, Counters, NEW r \in Requests, RequestOK(r), ProcessModelMetadata(r)
    PROVE  StepOK(r)
<1> USE DEF manager, At, Is, Rest, Name, Pipeline, End,
            KeepsReads, KeepsRun, KeepsList, KeepsServable, KeepsStatus
<1>1. PICK st \in {"OK", "JSON_SERIALIZATION_ERROR"} : Answer(r, st)
    BY DEF ProcessModelMetadata
<1>2. req[r].pc = "json" /\ req[r].api # "ConfigStatus" /\ UNCHANGED <<manager, metrics>>
    BY DEF ProcessModelMetadata, Inferences
<1>3. st \in Statuses /\ st # "MODEL_NAME_MISSING"
    BY <1>1 DEF Statuses, Outcomes
<1> QED
    BY <1>1, <1>2, <1>3, JsonAnswer

\* The metadata become JSON, for the KServe API.
LEMMA ProcessModelMetadataKFSStep ==
    ASSUME Shape, Counters, NEW r \in Requests, RequestOK(r), ProcessModelMetadataKFS(r)
    PROVE  StepOK(r)
<1> USE DEF manager, At, Is, Rest, Name, Pipeline, End,
            KeepsReads, KeepsRun, KeepsList, KeepsServable, KeepsStatus
<1>1. PICK st \in {"OK", "JSON_SERIALIZATION_ERROR"} : Answer(r, st)
    BY DEF ProcessModelMetadataKFS
<1>2. req[r].pc = "json" /\ req[r].api # "ConfigStatus" /\ UNCHANGED <<manager, metrics>>
    BY DEF ProcessModelMetadataKFS, Inferences
<1>3. st \in Statuses /\ st # "MODEL_NAME_MISSING"
    BY <1>1 DEF Statuses, Outcomes
<1> QED
    BY <1>1, <1>2, <1>3, JsonAnswer

\* The status becomes JSON.
LEMMA ProcessModelStatusStep ==
    ASSUME Shape, Counters, NEW r \in Requests, RequestOK(r), ProcessModelStatus(r)
    PROVE  StepOK(r)
<1> USE DEF manager, At, Is, Rest, Name, Pipeline, End,
            KeepsReads, KeepsRun, KeepsList, KeepsServable, KeepsStatus
<1>1. PICK st \in {"OK", "JSON_SERIALIZATION_ERROR"} : Answer(r, st)
    BY DEF ProcessModelStatus
<1>2. req[r].pc = "json" /\ req[r].api # "ConfigStatus" /\ UNCHANGED <<manager, metrics>>
    BY DEF ProcessModelStatus, Inferences
<1>3. st \in Statuses /\ st # "MODEL_NAME_MISSING"
    BY <1>1 DEF Statuses, Outcomes
<1> QED
    BY <1>1, <1>2, <1>3, JsonAnswer

\* The readiness becomes the status of the response.
LEMMA ProcessModelReadyKFSStep ==
    ASSUME Shape, Counters, NEW r \in Requests, RequestOK(r), ProcessModelReadyKFS(r)
    PROVE  StepOK(r)
<1> USE DEF manager, At, Is, Rest, Name, Pipeline, End,
            KeepsReads, KeepsRun, KeepsList, KeepsServable, KeepsStatus
<1>1. PICK st \in {"OK", "MODEL_VERSION_NOT_LOADED_YET"} : Answer(r, st)
    BY DEF ProcessModelReadyKFS
<1>2. req[r].pc = "json" /\ req[r].api # "ConfigStatus" /\ UNCHANGED <<manager, metrics>>
    BY DEF ProcessModelReadyKFS
<1>3. st \in Statuses /\ st # "MODEL_NAME_MISSING"
    BY <1>1 DEF Statuses, Outcomes
<1> QED
    BY <1>1, <1>2, <1>3, JsonAnswer

\* The name is looked for among the pipelines, where what is neither there
\* nor a model was not there at the arrival.
LEMMA PipelineExistsStep ==
    ASSUME Shape, Counters, NEW r \in Requests, RequestOK(r), PipelineExists(r)
    PROVE  StepOK(r)
<1> USE DEF manager, At, Is, Rest, Name, Pipeline, End,
            KeepsReads, KeepsRun, KeepsList, KeepsServable, KeepsStatus
<1>0. UNCHANGED <<manager, metrics>>
    BY DEF PipelineExists
<1>1. CASE Name(r) \in pipelines
  <2>0. Goto(r, "inputsInfo") /\ "inputsInfo" \in PCs
    BY <1>1 DEF PipelineExists, PCs, Lookups
  <2>1. /\ Moves(r) /\ KeepsReads(r) /\ KeepsRun(r) /\ KeepsList(r) /\ KeepsServable(r) /\ KeepsStatus(r)
        /\ req'[r].pc = "inputsInfo"
      BY <2>0, <1>1, GotoFacts
  <2>2. RequestOK(r)'
    <3> USE <2>0, <1>1, <1>0, <2>1 DEF RequestOK, Moves, Lookups, Listings, Uses, Ends, None, PipelineExists
    <3>1. Control(req[r])'
        BY DEF Control
    <3>2. Found(req[r])'
        BY DEF Found, Control
    <3>3. Looked(req[r])'
        BY DEF Looked, Control, Found
    <3>4. Read(req[r])'
        BY DEF Read, Control, Found
    <3> QED
        BY <3>1, <3>2, <3>3, <3>4
  <2>3. req[r].pc \notin Ends /\ req'[r].pc \notin Ends
      BY <2>0, <1>1, <1>0, <2>1 DEF PipelineExists, Ends
  <2>4. Counters' /\ metrics' \in CounterType
      BY <2>0, <1>1, <1>0, <2>1, <2>3, QuietMove DEF PipelineExists
  <2> QED
      BY <2>1, <2>2, <2>4 DEF StepOK, Moves
<1>2. CASE Name(r) \notin pipelines
  <2>0. "MODEL_NAME_MISSING" \in Statuses
      BY WaitedOutcome DEF Outcomes, Statuses
  <2>1. Answer(r, "MODEL_NAME_MISSING")
      BY <1>2 DEF PipelineExists
  <2>2. req[r].pc \in (Lookups \cup Uses) \ {"outputs"} /\ req[r].servable = NoServable
      BY DEF PipelineExists, RequestOK, Found, Lookups, Uses, Ends
  <2>3. "MODEL_NAME_MISSING" = "MODEL_NAME_MISSING" =>
          req[r].pc \in {"pipelineExists", "pipeline"} /\ req[r].name \notin pipelines
      BY <1>2, WaitedOutcome DEF PipelineExists, Outcomes
  <2> QED
      BY <1>0, <2>0, <2>1, <2>2, <2>3, QuietAnswer
<1> QED
    BY <1>1, <1>2

\* The name is looked for among the models; what arrived earlier and is no
\* model is a pipeline.
LEMMA FindModelByNameStep ==
    ASSUME Shape, Counters, NEW r \in Requests, RequestOK(r), FindModelByName(r)
    PROVE  StepOK(r)
<1> USE DEF manager, At, Is, Rest, Name, Pipeline, End,
            KeepsReads, KeepsRun, KeepsList, KeepsServable, KeepsStatus
<1>0. UNCHANGED <<manager, metrics>>
    BY DEF FindModelByName
<1>1. CASE Is(r, {"Infer"}) /\ req[r].version = Bad
  <2>0. "MODEL_VERSION_INVALID_FORMAT" \in Statuses
      BY WaitedOutcome DEF Outcomes, Statuses
  <2>1. Answer(r, "MODEL_VERSION_INVALID_FORMAT")
      BY <1>1 DEF FindModelByName
  <2>2. req[r].pc \in (Lookups \cup Uses) \ {"outputs"} /\ req[r].servable = NoServable
      BY DEF FindModelByName, RequestOK, Found, Lookups, Uses, Ends
  <2>3. "MODEL_VERSION_INVALID_FORMAT" = "MODEL_NAME_MISSING" =>
          req[r].pc \in {"pipelineExists", "pipeline"} /\ req[r].name \notin pipelines
      BY <1>1, WaitedOutcome DEF FindModelByName, Outcomes
  <2> QED
      BY <1>0, <2>0, <2>1, <2>2, <2>3, QuietAnswer
<1>2. CASE ~(Is(r, {"Infer"}) /\ req[r].version = Bad)
  <2>0. PICK p \in {"instance", "pipeline"} : p = (IF Name(r) \in models THEN "instance" ELSE "pipeline") /\ Goto(r, p) /\ p \in PCs
    BY <1>2 DEF FindModelByName, PCs, Lookups
  <2>1. /\ Moves(r) /\ KeepsReads(r) /\ KeepsRun(r) /\ KeepsList(r) /\ KeepsServable(r) /\ KeepsStatus(r)
        /\ req'[r].pc = p
      BY <2>0, GotoFacts
  <2>2. RequestOK(r)'
    <3> USE <2>0, <1>0, <2>1 DEF RequestOK, Moves, Lookups, Listings, Uses, Ends, None, FindModelByName
    <3>1. Control(req[r])'
        BY DEF Control
    <3>2. Found(req[r])'
        BY DEF Found, Control
    <3>3. Looked(req[r])'
        BY DEF Looked, Control, Found
    <3>4. Read(req[r])'
        BY DEF Read, Control, Found
    <3> QED
        BY <3>1, <3>2, <3>3, <3>4
  <2>3. req[r].pc \notin Ends /\ req'[r].pc \notin Ends
      BY <2>0, <1>0, <2>1 DEF FindModelByName, Ends
  <2>4. Counters' /\ metrics' \in CounterType
      BY <2>0, <1>0, <2>1, <2>3, QuietMove DEF FindModelByName
  <2> QED
      BY <2>1, <2>2, <2>4 DEF StepOK, Moves
<1> QED
    BY <1>1, <1>2

\* The inputs of the pipeline are copied for the parser.
LEMMA GetPipelineInputsStep ==
    ASSUME Shape, Counters, NEW r \in Requests, RequestOK(r), GetPipelineInputs(r)
    PROVE  StepOK(r)
<1> USE DEF manager, At, Is, Rest, Name, Pipeline, End,
            KeepsReads, KeepsRun, KeepsList, KeepsServable, KeepsStatus
<1>0. UNCHANGED <<manager, metrics>>
    BY DEF GetPipelineInputs
<1>1. CASE Waited(Pipeline(r)) = "OK"
  <2>0. req[r] \in Request /\ Pipeline(r) \in Servables /\ gen[Pipeline(r)] \in Nat
    BY VersionsAssumption DEF GetPipelineInputs, RequestOK, Found, Control, Servables, Shape, Lookups
  <2>1. /\ req'[r] = [req[r] EXCEPT !.pc = "parse", !.servable = Pipeline(r), !.parsedFor = gen[Pipeline(r)]]
        /\ req' = [req EXCEPT ![r] = req'[r]]
      BY <1>1 DEF GetPipelineInputs, Shape
  <2>2. req'[r] \in Request
    <3>1. "parse" \in PCs
        BY <2>0 DEF PCs, Lookups, Listings, Uses, Ends
    <3> QED
        BY <2>0, <2>1, <3>1 DEF Request
  <2>3. /\ Moves(r) /\ KeepsRun(r) /\ KeepsList(r) /\ KeepsStatus(r) /\ req'[r].pc = "parse"
        /\ req'[r].servable = Pipeline(r) /\ req'[r].parsedFor = gen[Pipeline(r)]
        /\ req'[r].inputs = req[r].inputs /\ req'[r].outputs = req[r].outputs /\ req'[r].guard = req[r].guard
      BY <2>0, <2>1, <2>2 DEF Request, Moves
  <2>4. RequestOK(r)'
    <3> USE <1>0, <2>0, <2>3 DEF RequestOK, Moves, Lookups, Listings, Uses, Ends, None, GetPipelineInputs
    <3>1. Control(req[r])'
        BY DEF Control
    <3>2. Found(req[r])'
        BY DEF Found, Control
    <3>3. Looked(req[r])'
        BY DEF Looked, Control, Found
    <3>4. models \cap pipelines = {}
        BY DEF Shape
    <3>5. Read(req[r])'
        BY <3>4 DEF Read, Control, Found
    <3> QED
        BY <3>1, <3>2, <3>3, <3>5
  <2>5. req[r].pc \notin Ends /\ req'[r].pc \notin Ends
      BY <1>0, <2>3 DEF GetPipelineInputs, Ends
  <2>6. Counters' /\ metrics' \in CounterType
      BY <1>0, <2>3, <2>5, QuietMove DEF GetPipelineInputs
  <2> QED
      BY <2>3, <2>4, <2>6 DEF StepOK, Moves
<1>2. CASE Waited(Pipeline(r)) # "OK"
  <2>0. Waited(Pipeline(r)) \in Statuses
      BY WaitedOutcome DEF Outcomes, Statuses
  <2>1. Answer(r, Waited(Pipeline(r)))
      BY <1>2 DEF GetPipelineInputs
  <2>2. req[r].pc \in (Lookups \cup Uses) \ {"outputs"} /\ req[r].servable = NoServable
      BY DEF GetPipelineInputs, RequestOK, Found, Lookups, Uses, Ends
  <2>3. Waited(Pipeline(r)) = "MODEL_NAME_MISSING" =>
          req[r].pc \in {"pipelineExists", "pipeline"} /\ req[r].name \notin pipelines
      BY <1>2, WaitedOutcome DEF GetPipelineInputs, Outcomes
  <2> QED
      BY <1>0, <2>0, <2>1, <2>2, <2>3, QuietAnswer
<1> QED
    BY <1>1, <1>2

\* The definition is found, or the name was not there at the arrival.
LEMMA FindDefinitionStep ==
    ASSUME Shape, Counters, NEW r \in Requests, RequestOK(r), FindDefinition(r)
    PROVE  StepOK(r)
<1> USE DEF manager, At, Is, Rest, Name, Pipeline, End,
            KeepsReads, KeepsRun, KeepsList, KeepsServable, KeepsStatus
<1>0. UNCHANGED <<manager, metrics>>
    BY DEF FindDefinition
<1>1. CASE Name(r) \in pipelines
  <2>0. PICK s \in Servables \cup {NoServable} :
          /\ s # NoServable => s[1] = req[r].name
          /\ req[r].api \notin Inferences => s \in Servables
          /\ req' = [req EXCEPT ![r].pc = "wait", ![r].servable = s]
    BY <1>1, VersionsAssumption DEF FindDefinition, RequestOK, Control, Servables, Lookups
  <2>1. /\ req[r] \in Request /\ s \in Servables \cup {NoServable}
        /\ NoServable \notin Servables /\ req[r].name \notin models
    BY <1>1, <2>0, VersionsAssumption DEF Shape, Servables, NoServable
  <2>2. /\ req'[r] = [req[r] EXCEPT !.pc = "wait", !.servable = s] /\ req' = [req EXCEPT ![r] = req'[r]]
      BY <2>0 DEF FindDefinition, Shape
  <2>3. req'[r] \in Request
    <3>1. "wait" \in PCs
        BY <2>1 DEF PCs, Lookups, Listings, Uses, Ends
    <3> QED
        BY <2>1, <2>2, <3>1 DEF Request
  <2>4. /\ Moves(r) /\ KeepsReads(r) /\ KeepsRun(r) /\ KeepsList(r) /\ KeepsStatus(r) /\ req'[r].pc = "wait"
        /\ req'[r].servable = s /\ req'[r].guard = req[r].guard
      BY <2>1, <2>2, <2>3 DEF Request, Moves
  <2>5. RequestOK(r)'
    <3> USE <1>0, <1>1, <2>0, <2>1, <2>4 DEF RequestOK, Moves, Lookups, Listings, Uses, Ends, None, FindDefinition
    <3>1. Control(req[r])'
        BY DEF Control
    <3>2. Found(req[r])'
        BY DEF Found, Control
    <3>3. Looked(req[r])'
        BY DEF Looked, Control, Found
    <3>4. Read(req[r])'
        BY DEF Read, Control, Found
    <3> QED
        BY <3>1, <3>2, <3>3, <3>4
  <2>6. req[r].pc \notin Ends /\ req'[r].pc \notin Ends
      BY <1>0, <2>4 DEF FindDefinition, Ends
  <2>7. Counters' /\ metrics' \in CounterType
      BY <1>0, <2>4, <2>6, QuietMove DEF FindDefinition
  <2> QED
      BY <2>4, <2>5, <2>7 DEF StepOK, Moves
<1>2. CASE Name(r) \notin pipelines
  <2>0. "MODEL_NAME_MISSING" \in Statuses
      BY WaitedOutcome DEF Outcomes, Statuses
  <2>1. Answer(r, "MODEL_NAME_MISSING")
      BY <1>2 DEF FindDefinition
  <2>2. req[r].pc \in (Lookups \cup Uses) \ {"outputs"} /\ req[r].servable = NoServable
      BY DEF FindDefinition, RequestOK, Found, Lookups, Uses, Ends
  <2>3. "MODEL_NAME_MISSING" = "MODEL_NAME_MISSING" =>
          req[r].pc \in {"pipelineExists", "pipeline"} /\ req[r].name \notin pipelines
      BY <1>2, WaitedOutcome DEF FindDefinition, Outcomes
  <2> QED
      BY <1>0, <2>0, <2>1, <2>2, <2>3, QuietAnswer
<1> QED
    BY <1>1, <1>2

\* Version 0 stands for the default: no servable has it.
LEMMA NoServableFact == NoServable \notin Servables
BY VersionsAssumption DEF NoServable, Servables

\* A request whose body is no request is counted where its servable is found.
LEMMA GetReporterStep ==
    ASSUME Shape, Counters, NEW r \in Requests, RequestOK(r), GetReporter(r)
    PROVE  StepOK(r)
<1> USE DEF manager, At, Is, Rest, Name, Pipeline, End,
            KeepsReads, KeepsRun, KeepsList, KeepsServable, KeepsStatus
<1>0. req[r] \in Request /\ UNCHANGED manager /\ req[r].name \in Names
    BY DEF GetReporter, Shape, RequestOK, Control, Lookups
<1>1. ASSUME NEW s \in Servables, s[1] = req[r].name, req[r].name \in models \cup pipelines,
             Increment(r, s, FALSE),
             req' = [req EXCEPT ![r].pc = "done", ![r].status = "JSON_INVALID", ![r].servable = s]
      PROVE  StepOK(r)
  <2>0. req[r] \in Request /\ s \in Servables
    BY <1>0
  <2>1. /\ req'[r] = [req[r] EXCEPT !.pc = "done", !.status = "JSON_INVALID", !.servable = s]
        /\ req' = [req EXCEPT ![r] = req'[r]]
      BY <1>1 DEF GetReporter, Shape
  <2>2. req'[r] \in Request
    <3>1. "done" \in PCs
        BY <2>0 DEF PCs, Lookups, Listings, Uses, Ends
    <3>2. "JSON_INVALID" \in Statuses
        BY <2>0 DEF Statuses, Outcomes
    <3> QED
        BY <2>0, <2>1, <3>1, <3>2 DEF Request
  <2>3. /\ Moves(r) /\ KeepsReads(r) /\ KeepsRun(r) /\ KeepsList(r) /\ req'[r].pc = "done"
        /\ req'[r].status = "JSON_INVALID" /\ req'[r].servable = s /\ req'[r].guard = req[r].guard
      BY <2>0, <2>1, <2>2 DEF Request, Moves
  <2>4. RequestOK(r)'
    <3> USE <1>0, <1>1, <2>3, NoServableFact DEF RequestOK, Moves, Lookups, Listings, Uses, Ends, None, GetReporter
    <3>1. Control(req[r])'
        BY DEF Control
    <3>2. Found(req[r])'
        BY DEF Found, Control
    <3>3. Looked(req[r])'
        BY DEF Looked, Control, Found
    <3>4. Read(req[r])'
        BY DEF Read, Control, Found
    <3> QED
        BY <3>1, <3>2, <3>3, <3>4
  <2>5. /\ Increment(r, s, FALSE) /\ s \in Servables /\ req[r].api \in Apis
        /\ req[r].interface \in Interfaces
      BY <1>0, <1>1 DEF Control, Found, RequestOK, Uses, GetReporter
  <2>6. Called(req'[r], s, req[r].api, req[r].interface)
      BY <1>0, <1>1, <2>3 DEF Called, Moves, GetReporter
  <2>7. /\ req[r].pc \notin Ends /\ req'[r].pc \in Ends /\ req' = [req EXCEPT ![r] = req'[r]]
      BY <1>0, <1>1, <2>3 DEF GetReporter, Ends, Moves
  <2>8. /\ req[r].ran = None /\ (req[r].api \in Inferences => ((req'[r].ran = "OK") <=> FALSE))
        /\ (req[r].api \in Inferences /\ ~FALSE => req'[r].pc = "done")
      BY <1>0, <1>1, <2>3, <2>7, NotEnded DEF GetReporter, None
  <2>9. Counters' /\ metrics' \in CounterType
      BY <2>5, <2>6, <2>7, <2>8, Counted DEF CounterType
  <2> QED
      BY <2>3, <2>4, <2>9 DEF StepOK, Moves
<1>2. CASE Name(r) \in models /\ \E v \in Picks(r) :
              /\ Waited(<<Name(r), v>>) = "OK"
              /\ req' = [req EXCEPT ![r].pc = "done", ![r].status = "JSON_INVALID", ![r].servable = <<Name(r), v>>]
              /\ Increment(r, <<Name(r), v>>, FALSE)
  <2>1. PICK v \in Picks(r) :
              /\ req' = [req EXCEPT ![r].pc = "done", ![r].status = "JSON_INVALID", ![r].servable = <<Name(r), v>>]
              /\ Increment(r, <<Name(r), v>>, FALSE)
    BY <1>2
  <2>2. <<Name(r), v>> \in Servables /\ <<Name(r), v>>[1] = req[r].name
    BY <1>0, <2>1 DEF Picks, Registered, Servables
  <2> QED
    BY <1>1, <1>2, <2>1, <2>2
<1>3. CASE /\ Name(r) \in pipelines
           /\ req' = [req EXCEPT ![r].pc = "done", ![r].status = "JSON_INVALID", ![r].servable = Pipeline(r)]
           /\ Increment(r, Pipeline(r), FALSE)
  <2>1. Pipeline(r) \in Servables /\ Pipeline(r)[1] = req[r].name
    BY <1>0, VersionsAssumption DEF Servables
  <2> QED
    BY <1>1, <1>3, <2>1
<1>4. CASE Answer(r, "JSON_INVALID") /\ UNCHANGED metrics
  <2>1. "JSON_INVALID" \in Statuses
    BY DEF Statuses
  <2>2. req[r].pc \in (Lookups \cup Uses) \ {"outputs"} /\ req[r].servable = NoServable
    BY DEF GetReporter, RequestOK, Found, Lookups, Uses, Ends
  <2>3. UNCHANGED <<manager, metrics>>
    BY <1>0, <1>4
  <2> QED
    BY <1>4, <2>1, <2>2, <2>3, QuietAnswer
<1> QED
    BY <1>2, <1>3, <1>4 DEF GetReporter

\* The version asked for is the servable the request goes on with.
LEMMA GetInstanceStep ==
    ASSUME Shape, Counters, NEW r \in Requests, RequestOK(r), GetInstance(r)
    PROVE  StepOK(r)
<1> USE DEF manager, At, Is, Rest, Name, Pipeline, End,
            KeepsReads, KeepsRun, KeepsList, KeepsServable, KeepsStatus
<1>0. UNCHANGED <<manager, metrics>>
    BY DEF GetInstance
<1>1. CASE Answer(r, "MODEL_VERSION_INVALID_FORMAT")
  <2>0. "MODEL_VERSION_INVALID_FORMAT" \in Statuses
      BY WaitedOutcome DEF Outcomes, Statuses
  <2>1. Answer(r, "MODEL_VERSION_INVALID_FORMAT")
      BY <1>1 DEF GetInstance
  <2>2. req[r].pc \in (Lookups \cup Uses) \ {"outputs"} /\ req[r].servable = NoServable
      BY DEF GetInstance, RequestOK, Found, Lookups, Uses, Ends
  <2>3. "MODEL_VERSION_INVALID_FORMAT" = "MODEL_NAME_MISSING" =>
          req[r].pc \in {"pipelineExists", "pipeline"} /\ req[r].name \notin pipelines
      BY <1>1, WaitedOutcome DEF GetInstance, Outcomes
  <2> QED
      BY <1>0, <2>0, <2>1, <2>2, <2>3, QuietAnswer
<1>2. CASE Answer(r, "MODEL_VERSION_MISSING")
  <2>0. "MODEL_VERSION_MISSING" \in Statuses
      BY WaitedOutcome DEF Outcomes, Statuses
  <2>1. Answer(r, "MODEL_VERSION_MISSING")
      BY <1>2 DEF GetInstance
  <2>2. req[r].pc \in (Lookups \cup Uses) \ {"outputs"} /\ req[r].servable = NoServable
      BY DEF GetInstance, RequestOK, Found, Lookups, Uses, Ends
  <2>3. "MODEL_VERSION_MISSING" = "MODEL_NAME_MISSING" =>
          req[r].pc \in {"pipelineExists", "pipeline"} /\ req[r].name \notin pipelines
      BY <1>2, WaitedOutcome DEF GetInstance, Outcomes
  <2> QED
      BY <1>0, <2>0, <2>1, <2>2, <2>3, QuietAnswer
<1>3. CASE \E v \in Picks(r) : req' = [req EXCEPT ![r].pc = "wait", ![r].servable = <<Name(r), v>>]
  <2>0. PICK s \in Servables :
          s[1] = req[r].name /\ req' = [req EXCEPT ![r].pc = "wait", ![r].servable = s]
    <3>1. PICK v \in Picks(r) : req' = [req EXCEPT ![r].pc = "wait", ![r].servable = <<Name(r), v>>]
      BY <1>3
    <3>2. <<Name(r), v>> \in Servables /\ <<Name(r), v>>[1] = req[r].name
      BY <3>1 DEF Picks, Registered, Servables, GetInstance, RequestOK, Control, Lookups
    <3> QED
      BY <3>1, <3>2
  <2>1. req[r] \in Request /\ s \in Servables
    BY <2>0 DEF Shape
  <2>2. /\ req'[r] = [req[r] EXCEPT !.pc = "wait", !.servable = s] /\ req' = [req EXCEPT ![r] = req'[r]]
      BY <2>0 DEF GetInstance, Shape
  <2>3. req'[r] \in Request
    <3>1. "wait" \in PCs
        BY <2>1 DEF PCs, Lookups, Listings, Uses, Ends
    <3> QED
        BY <2>1, <2>2, <3>1 DEF Request
  <2>4. /\ Moves(r) /\ KeepsReads(r) /\ KeepsRun(r) /\ KeepsList(r) /\ KeepsStatus(r) /\ req'[r].pc = "wait"
        /\ req'[r].servable = s /\ req'[r].guard = req[r].guard
      BY <2>1, <2>2, <2>3 DEF Request, Moves
  <2>5. RequestOK(r)'
    <3> USE <1>0, <2>0, <2>1, <2>4, NoServableFact DEF RequestOK, Moves, Lookups, Listings, Uses, Ends, None, GetInstance
    <3>1. Control(req[r])'
        BY DEF Control
    <3>2. Found(req[r])'
        BY DEF Found, Control
    <3>3. Looked(req[r])'
        BY DEF Looked, Control, Found
    <3>4. Read(req[r])'
        BY DEF Read, Control, Found
    <3> QED
        BY <3>1, <3>2, <3>3, <3>4
  <2>6. req[r].pc \notin Ends /\ req'[r].pc \notin Ends
      BY <1>0, <2>4 DEF GetInstance, Ends
  <2>7. Counters' /\ metrics' \in CounterType
      BY <1>0, <2>4, <2>6, QuietMove DEF GetInstance
  <2> QED
      BY <2>4, <2>5, <2>7 DEF StepOK, Moves
<1>4. CASE Is(r, {"Status"}) /\ req' = [req EXCEPT ![r].pc = "statusAll"]
  <2>0. Goto(r, "statusAll") /\ "statusAll" \in PCs
    BY <1>4 DEF Goto, PCs, Lookups
  <2>1. /\ Moves(r) /\ KeepsReads(r) /\ KeepsRun(r) /\ KeepsList(r) /\ KeepsServable(r) /\ KeepsStatus(r)
        /\ req'[r].pc = "statusAll"
      BY <2>0, <1>4, GotoFacts
  <2>2. RequestOK(r)'
    <3> USE <2>0, <1>4, <1>0, <2>1 DEF RequestOK, Moves, Lookups, Listings, Uses, Ends, None, GetInstance
    <3>1. Control(req[r])'
        BY DEF Control
    <3>2. Found(req[r])'
        BY DEF Found, Control
    <3>3. Looked(req[r])'
        BY DEF Looked, Control, Found
    <3>4. Read(req[r])'
        BY DEF Read, Control, Found
    <3> QED
        BY <3>1, <3>2, <3>3, <3>4
  <2>3. req[r].pc \notin Ends /\ req'[r].pc \notin Ends
      BY <2>0, <1>4, <1>0, <2>1 DEF GetInstance, Ends
  <2>4. Counters' /\ metrics' \in CounterType
      BY <2>0, <1>4, <1>0, <2>1, <2>3, QuietMove DEF GetInstance
  <2> QED
      BY <2>1, <2>2, <2>4 DEF StepOK, Moves
<1> QED
    BY <1>1, <1>2, <1>3, <1>4 DEF GetInstance

\* The servable is loaded and guarded; a failure is counted if there is
\* somewhere to count it.
LEMMA WaitForLoadedStep ==
    ASSUME Shape, Counters, NEW r \in Requests, RequestOK(r), WaitForLoaded(r)
    PROVE  StepOK(r)
<1> USE DEF manager, At, Is, Rest, Name, Pipeline, End,
            KeepsReads, KeepsRun, KeepsList, KeepsServable, KeepsStatus
<1>0. /\ req[r] \in Request /\ UNCHANGED manager /\ Target(r) \in Servables /\ gen[Target(r)] \in Nat
      /\ Target(r)[1] = req[r].name
    BY VersionsAssumption, NoServableFact DEF WaitForLoaded, Shape, RequestOK, Control, Found, Target, Servables, Uses
<1>1. CASE Waited(Target(r)) = "OK"
  <2>0. PICK p \in {"inputs", "parse", "infer"}, g \in Nat :
          /\ req[r].name \in pipelines <=> p = "inputs"
          /\ p = "parse" => req[r].api = "Predict" /\ req[r].interface = "REST"
          /\ p = "infer" => ~(req[r].api = "Predict" /\ req[r].interface = "REST")
          /\ req[r].name \in models => g = gen[Target(r)]
          /\ req' = [req EXCEPT ![r].pc = p, ![r].servable = Target(r), ![r].guard = TRUE, ![r].parsedFor = g]
          /\ metrics' = metrics
    <3> DEFINE p == IF Name(r) \in pipelines THEN "inputs"
                    ELSE IF Is(r, {"Predict"}) /\ Rest(r) THEN "parse" ELSE "infer"
               g == IF Name(r) \in models THEN gen[Target(r)] ELSE req[r].parsedFor
    <3>1. p \in {"inputs", "parse", "infer"} /\ g \in Nat
      BY <1>0 DEF Request
    <3>2. /\ req' = [req EXCEPT ![r].pc = p, ![r].servable = Target(r), ![r].guard = TRUE, ![r].parsedFor = g]
          /\ metrics' = metrics
      BY <1>1 DEF WaitForLoaded
    <3>3. /\ req[r].name \in pipelines <=> p = "inputs"
          /\ p = "parse" => req[r].api = "Predict" /\ req[r].interface = "REST"
          /\ p = "infer" => ~(req[r].api = "Predict" /\ req[r].interface = "REST")
          /\ req[r].name \in models => g = gen[Target(r)]
      OBVIOUS
    <3> HIDE DEF p, g
    <3> QED
      BY <3>1, <3>2, <3>3
  <2>1. p \in {"inputs", "parse", "infer"} /\ g \in Nat
    BY <2>0
  <2>2. /\ req'[r] = [req[r] EXCEPT !.pc = p, !.servable = Target(r), !.guard = TRUE, !.parsedFor = g]
        /\ req' = [req EXCEPT ![r] = req'[r]]
      BY <2>0 DEF WaitForLoaded, Shape
  <2>3. req'[r] \in Request
    <3>1. p \in PCs
        BY <1>0, <2>1 DEF PCs, Lookups, Listings, Uses, Ends
    <3> QED
        BY <1>0, <2>1, <2>2, <3>1 DEF Request
  <2>4. /\ Moves(r) /\ KeepsRun(r) /\ KeepsList(r) /\ KeepsStatus(r) /\ req'[r].pc = p
        /\ req'[r].servable = Target(r) /\ req'[r].guard = TRUE /\ req'[r].parsedFor = g
        /\ req'[r].inputs = req[r].inputs /\ req'[r].outputs = req[r].outputs
      BY <1>0, <2>1, <2>2, <2>3 DEF Request, Moves
  <2>5. RequestOK(r)'
    <3> USE <1>0, <2>0, <2>1, <2>4, NoServableFact DEF RequestOK, Moves, Lookups, Listings, Uses, Ends, None, WaitForLoaded
    <3>1. Control(req[r])'
        BY DEF Control
    <3>2. Found(req[r])'
        BY DEF Found, Control
    <3>3. Looked(req[r])'
        BY DEF Looked, Control, Found
    <3>4. models \cap pipelines = {}
        BY DEF Shape
    <3>5. Read(req[r])'
        BY <3>4 DEF Read, Control, Found
    <3> QED
        BY <3>1, <3>2, <3>3, <3>5
  <2>6. req[r].pc \notin Ends /\ req'[r].pc \notin Ends
      BY <1>0, <2>0, <2>1, <2>4 DEF WaitForLoaded, Ends
  <2>7. Counters' /\ metrics' \in CounterType
      BY <1>0, <2>0, <2>1, <2>4, <2>6, QuietMove DEF WaitForLoaded
  <2> QED
      BY <2>4, <2>5, <2>7 DEF StepOK, Moves
<1>2. CASE Waited(Target(r)) # "OK"
  <2>1. Answer(r, Waited(Target(r))) /\ Waited(Target(r)) \in Statuses /\ Waited(Target(r)) # "MODEL_NAME_MISSING"
    BY <1>2, WaitedOutcome DEF WaitForLoaded, Outcomes, Statuses
  <2>2. req[r].pc = "wait" /\ req[r].pc \in (Lookups \cup Uses) \ {"outputs"} /\ req[r].pc \in Uses \ {"outputs"}
    BY DEF WaitForLoaded, Uses
  <2>3. CASE req[r].servable = NoServable
    <3>1. UNCHANGED <<manager, metrics>>
      BY <1>0, <1>2, <2>3 DEF WaitForLoaded
    <3> QED
      BY <2>1, <2>2, <2>3, <3>1, QuietAnswer
  <2>4. CASE req[r].servable # NoServable
    <3>1. Increment(r, req[r].servable, FALSE) /\ UNCHANGED manager
      BY <1>0, <1>2, <2>4 DEF WaitForLoaded
    <3>2. req[r].servable \in Servables
      BY <1>0, <2>4 DEF Request
    <3> QED
      BY <2>1, <2>2, <3>1, <3>2, CountedAnswer
  <2> QED
    BY <2>3, <2>4
<1> QED
    BY <1>1, <1>2

\* The servable is loaded and guarded for its metadata, or the failure is
\* counted.
LEMMA WaitForMetadataStep ==
    ASSUME Shape, Counters, NEW r \in Requests, RequestOK(r), WaitForMetadata(r)
    PROVE  StepOK(r)
<1> USE DEF manager, At, Is, Rest, Name, Pipeline, End,
            KeepsReads, KeepsRun, KeepsList, KeepsServable, KeepsStatus
<1>0. req[r] \in Request /\ UNCHANGED manager /\ req[r].servable \in Servables
    BY DEF WaitForMetadata, Shape, RequestOK, Found, Metadata, Inferences
<1>1. CASE Waited(req[r].servable) = "OK"
  <2>0. UNCHANGED <<manager, metrics>>
    BY <1>0, <1>1 DEF WaitForMetadata
  <2>1. /\ req'[r] = [req[r] EXCEPT !.pc = "inputs", !.guard = TRUE] /\ req' = [req EXCEPT ![r] = req'[r]]
      BY <1>1 DEF WaitForMetadata, Shape
  <2>2. req'[r] \in Request
    <3>1. "inputs" \in PCs
        BY <1>0 DEF PCs, Lookups, Listings, Uses, Ends
    <3> QED
        BY <1>0, <2>1, <3>1 DEF Request
  <2>3. /\ Moves(r) /\ KeepsReads(r) /\ KeepsRun(r) /\ KeepsList(r) /\ KeepsStatus(r)
        /\ req'[r].pc = "inputs" /\ req'[r].guard = TRUE /\ req'[r].servable = req[r].servable
      BY <1>0, <2>1, <2>2 DEF Request, Moves
  <2>4. RequestOK(r)'
    <3> USE <1>0, <2>3, NoServableFact DEF RequestOK, Moves, Lookups, Listings, Uses, Ends, None, WaitForMetadata
    <3>1. Control(req[r])'
        BY DEF Control
    <3>2. Found(req[r])'
        BY DEF Found, Control
    <3>3. Looked(req[r])'
        BY DEF Looked, Control, Found
    <3>4. Read(req[r])'
        BY DEF Read, Control, Found, Metadata, Inferences
    <3> QED
        BY <3>1, <3>2, <3>3, <3>4
  <2>5. req[r].pc \notin Ends /\ req'[r].pc \notin Ends
      BY <2>0, <2>3 DEF WaitForMetadata, Ends
  <2>6. Counters' /\ metrics' \in CounterType
      BY <2>0, <2>3, <2>5, QuietMove DEF WaitForMetadata
  <2> QED
      BY <2>3, <2>4, <2>6 DEF StepOK, Moves
<1>2. CASE Waited(req[r].servable) # "OK"
  <2> DEFINE st == Waited(req[r].servable)
  <2>1. Answer(r, st) /\ Increment(r, req[r].servable, FALSE)
    BY <1>2 DEF WaitForMetadata
  <2>2. st \in Statuses /\ st # "MODEL_NAME_MISSING"
    BY WaitedOutcome DEF Outcomes, Statuses
  <2>3. req[r].pc \in Uses \ {"outputs"}
    BY DEF WaitForMetadata, Uses
  <2> HIDE DEF st
  <2> QED
    BY <1>0, <2>1, <2>2, <2>3, CountedAnswer
<1> QED
    BY <1>1, <1>2

\* The inputs are read under the guard.
LEMMA ReadInputsStep ==
    ASSUME Shape, Counters, NEW r \in Requests, RequestOK(r), ReadInputs(r)
    PROVE  StepOK(r)
<1> USE DEF manager, At, Is, Rest, Name, Pipeline, End,
            KeepsReads, KeepsRun, KeepsList, KeepsServable, KeepsStatus
<1>0. req[r] \in Request /\ UNCHANGED manager /\ req[r].servable \in Servables /\ gen[req[r].servable] \in Nat
    BY DEF ReadInputs, Shape, RequestOK, Found, Uses, Inferences
<1>1. /\ req'[r] = [req[r] EXCEPT !.pc = "outputs", !.inputs = gen[req[r].servable]]
      /\ req' = [req EXCEPT ![r] = req'[r]]
    BY <1>0 DEF ReadInputs, Shape
<1>2. req'[r] \in Request
  <2>1. "outputs" \in PCs
      BY <1>0 DEF PCs, Lookups, Listings, Uses, Ends
  <2> QED
      BY <1>0, <1>1, <2>1 DEF Request
<1>3. /\ Moves(r) /\ KeepsRun(r) /\ KeepsList(r) /\ KeepsServable(r) /\ KeepsStatus(r)
      /\ req'[r].pc = "outputs" /\ req'[r].inputs = gen[req[r].servable] /\ req'[r].outputs = req[r].outputs
      /\ req'[r].parsedFor = req[r].parsedFor
    BY <1>0, <1>1, <1>2 DEF Request, Moves
<1>4. RequestOK(r)'
  <2> USE <1>0, <1>3 DEF RequestOK, Moves, Lookups, Listings, Uses, Ends, None, ReadInputs
  <2>1. Control(req[r])'
      BY DEF Control
  <2>2. Found(req[r])'
      BY DEF Found, Control
  <2>3. Looked(req[r])'
      BY DEF Looked, Control, Found
  <2>4. Read(req[r])'
      BY DEF Read, Control, Found
  <2> QED
      BY <2>1, <2>2, <2>3, <2>4
<1>5. UNCHANGED metrics
    BY DEF ReadInputs
<1>6. req[r].pc \notin Ends /\ req'[r].pc \notin Ends
    BY <1>5, <1>3 DEF ReadInputs, Ends
<1>7. Counters' /\ metrics' \in CounterType
    BY <1>5, <1>3, <1>6, QuietMove DEF ReadInputs
<1> QED
    BY <1>3, <1>4, <1>7 DEF StepOK, Moves

\* The outputs are read under the same guard: they are of the same load.
LEMMA ReadOutputsStep ==
    ASSUME Shape, Counters, NEW r \in Requests, RequestOK(r), ReadOutputs(r)
    PROVE  StepOK(r)
<1> USE DEF manager, At, Is, Rest, Name, Pipeline, End,
            KeepsReads, KeepsRun, KeepsList, KeepsServable, KeepsStatus
<1>0. req[r] \in Request /\ UNCHANGED manager /\ req[r].servable \in Servables /\ gen[req[r].servable] \in Nat
    BY DEF ReadOutputs, Shape, RequestOK, Found, Uses, Inferences
<1>1. CASE Is(r, Inferences)
  <2>1. /\ req'[r] = [req[r] EXCEPT !.pc = "infer", !.outputs = gen[req[r].servable], !.guard = FALSE]
        /\ req' = [req EXCEPT ![r] = req'[r]]
      BY <1>0, <1>1 DEF ReadOutputs, Shape
  <2>2. req'[r] \in Request
    <3>1. "infer" \in PCs
        BY <1>0 DEF PCs, Lookups, Listings, Uses, Ends
    <3> QED
        BY <1>0, <2>1, <3>1 DEF Request
  <2>3. /\ Moves(r) /\ KeepsRun(r) /\ KeepsList(r) /\ KeepsStatus(r) /\ req'[r].pc = "infer"
        /\ req'[r].outputs = gen[req[r].servable] /\ req'[r].guard = FALSE /\ req'[r].inputs = req[r].inputs
        /\ req'[r].parsedFor = req[r].parsedFor /\ req'[r].servable = req[r].servable
      BY <1>0, <2>1, <2>2 DEF Request, Moves
  <2>4. RequestOK(r)'
    <3> USE <1>0, <2>3 DEF RequestOK, Moves, Lookups, Listings, Uses, Ends, None, ReadOutputs
    <3>1. Control(req[r])'
        BY DEF Control
    <3>2. Found(req[r])'
        BY DEF Found, Control
    <3>3. Looked(req[r])'
        BY DEF Looked, Control, Found
    <3>4. models \cap pipelines = {}
        BY DEF Shape
    <3>5. Read(req[r])'
        BY <1>1, <3>4 DEF Read, Control, Found
    <3> QED
        BY <3>1, <3>2, <3>3, <3>5
  <2>5. UNCHANGED metrics
    BY <1>1 DEF ReadOutputs
  <2>6. req[r].pc \notin Ends /\ req'[r].pc \notin Ends
      BY <2>5, <2>3 DEF ReadOutputs, Ends
  <2>7. Counters' /\ metrics' \in CounterType
      BY <2>5, <2>3, <2>6, QuietMove DEF ReadOutputs
  <2> QED
      BY <2>3, <2>4, <2>7 DEF StepOK, Moves
<1>2. CASE ~Is(r, Inferences)
  <2>0. PICK e \in Ends : e = End(r)
    BY DEF Ends
  <2>1. /\ req'[r] = [req[r] EXCEPT !.pc = e, !.guard = FALSE, !.status = "OK", !.outputs = gen[req[r].servable]]
        /\ req' = [req EXCEPT ![r] = req'[r]]
      BY <1>0, <1>2, <2>0 DEF ReadOutputs, Shape
  <2>2. req'[r] \in Request
    <3>1. e \in PCs
        BY <1>0, <2>0 DEF PCs, Lookups, Listings, Uses, Ends
    <3>2. "OK" \in Statuses
        BY <1>0, <2>0 DEF Statuses, Outcomes
    <3> QED
        BY <1>0, <2>0, <2>1, <3>1, <3>2 DEF Request
  <2>3. /\ Moves(r) /\ KeepsRun(r) /\ KeepsList(r) /\ req'[r].pc = e /\ req'[r].guard = FALSE
        /\ req'[r].status = "OK" /\ req'[r].outputs = gen[req[r].servable] /\ req'[r].inputs = req[r].inputs
        /\ req'[r].parsedFor = req[r].parsedFor /\ req'[r].servable = req[r].servable
      BY <1>0, <2>0, <2>1, <2>2 DEF Request, Moves
  <2>4. RequestOK(r)'
    <3> USE <1>0, <1>2, <2>0, <2>3 DEF RequestOK, Moves, Lookups, Listings, Uses, Ends, None, ReadOutputs
    <3>1. Control(req[r])'
        BY DEF Control
    <3>2. Found(req[r])'
        BY DEF Found, Control
    <3>3. Looked(req[r])'
        BY DEF Looked, Control, Found
    <3>4. Read(req[r])'
        BY DEF Read, Control, Found
    <3> QED
        BY <3>1, <3>2, <3>3, <3>4
  <2>5. /\ Increment(r, req[r].servable, TRUE) /\ req[r].servable \in Servables /\ req[r].api \in Apis
        /\ req[r].interface \in Interfaces
      BY <1>0, <1>2, <2>0 DEF Control, Found, RequestOK, Uses, ReadOutputs
  <2>6. Called(req'[r], req[r].servable, req[r].api, req[r].interface)
      BY <1>0, <1>2, <2>0, <2>3 DEF Called, Moves, ReadOutputs
  <2>7. /\ req[r].pc \notin Ends /\ req'[r].pc \in Ends /\ req' = [req EXCEPT ![r] = req'[r]]
      BY <1>0, <1>2, <2>0, <2>3 DEF ReadOutputs, Ends, Moves
  <2>8. /\ req[r].ran = None /\ (req[r].api \in Inferences => ((req'[r].ran = "OK") <=> TRUE))
        /\ (req[r].api \in Inferences /\ ~TRUE => req'[r].pc = "done")
      BY <1>0, <1>2, <2>0, <2>3, <2>7, NotEnded DEF ReadOutputs, None
  <2>9. Counters' /\ metrics' \in CounterType
      BY <2>5, <2>6, <2>7, <2>8, Counted DEF CounterType
  <2> QED
      BY <2>3, <2>4, <2>9 DEF StepOK, Moves
<1> QED
    BY <1>1, <1>2

\* The body is parsed, or the failure is counted.
LEMMA ParseStep ==
    ASSUME Shape, Counters, NEW r \in Requests, RequestOK(r), Parse(r)
    PROVE  StepOK(r)
<1> USE DEF manager, At, Is, Rest, Name, Pipeline, End,
            KeepsReads, KeepsRun, KeepsList, KeepsServable, KeepsStatus
<1>0. req[r] \in Request /\ UNCHANGED manager /\ req[r].servable \in Servables /\ gen[req[r].servable] \in Nat
    BY DEF Parse, Shape, RequestOK, Found, Uses, Inferences
<1>1. CASE Goto(r, IF Name(r) \in models THEN "infer" ELSE "wait") /\ UNCHANGED metrics
  <2>0. PICK p \in {"infer", "wait"} :
          p = (IF Name(r) \in models THEN "infer" ELSE "wait") /\ Goto(r, p) /\ p \in PCs
    BY <1>1 DEF PCs, Uses
  <2>1. /\ Moves(r) /\ KeepsReads(r) /\ KeepsRun(r) /\ KeepsList(r) /\ KeepsServable(r) /\ KeepsStatus(r)
        /\ req'[r].pc = p
      BY <2>0, GotoFacts
  <2>2. RequestOK(r)'
    <3> USE <1>0, <2>0, <2>1 DEF RequestOK, Moves, Lookups, Listings, Uses, Ends, None, Parse
    <3>1. Control(req[r])'
        BY DEF Control
    <3>2. Found(req[r])'
        BY DEF Found, Control
    <3>3. Looked(req[r])'
        BY DEF Looked, Control, Found
    <3>4. Read(req[r])'
        BY DEF Read, Control, Found
    <3> QED
        BY <3>1, <3>2, <3>3, <3>4
  <2>3. req[r].pc \notin Ends /\ req'[r].pc \notin Ends
      BY <1>1, <2>0, <2>1 DEF Parse, Ends
  <2>4. Counters' /\ metrics' \in CounterType
      BY <1>1, <2>0, <2>1, <2>3, QuietMove DEF Parse
  <2> QED
      BY <2>1, <2>2, <2>4 DEF StepOK, Moves
<1>2. CASE Answer(r, "JSON_INVALID") /\ Increment(r, req[r].servable, FALSE)
  <2>1. "JSON_INVALID" \in Statuses
    BY DEF Statuses
  <2>2. req[r].pc \in Uses \ {"outputs"}
    BY DEF Parse, Uses
  <2> QED
    BY <1>0, <1>2, <2>1, <2>2, CountedAnswer
<1> QED
    BY <1>1, <1>2 DEF Parse

\* The inference runs on what the request was parsed for, and is counted with
\* its outcome.
LEMMA InferStep ==
    ASSUME Shape, Counters, NEW r \in Requests, RequestOK(r), Infer(r)
    PROVE  StepOK(r)
<1> USE DEF manager, At, Is, Rest, Name, Pipeline, End,
            KeepsReads, KeepsRun, KeepsList, KeepsServable, KeepsStatus
<1>0. req[r] \in Request /\ UNCHANGED manager /\ req[r].servable \in Servables /\ gen[req[r].servable] \in Nat
    BY DEF Infer, Shape, RequestOK, Found, Uses, Inferences
<1>1. CASE Runs(r) /\ Increment(r, req[r].servable, TRUE)
  <2>0. PICK e \in Ends, i \in Nat, o \in Nat :
          e = End(r) /\ i = Reads(r, req[r].inputs) /\ o = Reads(r, req[r].outputs)
    BY <1>0 DEF Ends, Reads, Request
  <2>1. /\ req'[r] = [req[r] EXCEPT !.pc = e, !.guard = FALSE, !.status = "OK", !.ran = "OK",
                                     !.inputs = i, !.outputs = o]
        /\ req' = [req EXCEPT ![r] = req'[r]]
      BY <1>0, <1>1, <2>0 DEF Runs, Shape
  <2>2. req'[r] \in Request
    <3>1. e \in PCs
        BY <1>0, <2>0 DEF PCs, Lookups, Listings, Uses, Ends
    <3>2. "OK" \in Statuses
        BY <1>0, <2>0 DEF Statuses, Outcomes
    <3> QED
        BY <1>0, <2>0, <2>1, <3>1, <3>2 DEF Request
  <2>3. /\ Moves(r) /\ KeepsList(r) /\ req'[r].pc = e /\ req'[r].guard = FALSE
        /\ req'[r].status = "OK" /\ req'[r].ran = "OK" /\ req'[r].servable = req[r].servable
        /\ req'[r].inputs = i /\ req'[r].outputs = o /\ req'[r].parsedFor = req[r].parsedFor
      BY <1>0, <2>0, <2>1, <2>2 DEF Request, Moves
  <2>4. req[r].pc = "infer" /\ req[r].inputs = req[r].outputs /\ i = o
      BY <2>0 DEF Infer, RequestOK, Read, Reads
  <2>5. req[r].api = "Predict" /\ req[r].interface = "REST" /\ req[r].name \in models => req[r].parsedFor = o
      BY <2>0, <2>4 DEF RequestOK, Read, Reads
  <2>6. req[r].api = "Predict" /\ req[r].interface = "REST" /\ req[r].name \in pipelines =>
            <<req[r].parsedFor, o>> \in Accepts[req[r].name]
    <3>1. req[r].name \in pipelines => o = req[r].inputs
      BY <2>0, <2>4 DEF Reads, Shape
    <3> QED
      BY <1>1, <3>1 DEF Runs, Fits
  <2>7. req[r].name \in models \cup pipelines
      BY DEF RequestOK, Found, Infer, Uses
  <2>8. /\ req'[r].name = req[r].name /\ req'[r].api = req[r].api /\ req'[r].interface = req[r].interface
        /\ req'[r].pc \in {"json", "done"} /\ req'[r].inputs = o /\ req'[r].outputs = o
        /\ req'[r].ran = "OK" /\ req'[r].parsedFor = req[r].parsedFor
      BY <2>3, <2>4 DEF Moves, Ends
  <2>9. Read(req'[r])
      BY <2>4, <2>5, <2>6, <2>7, <2>8 DEF Read, Ends, None
  <2>10. RequestOK(r)'
    <3> USE <1>0, <1>1, <2>0, <2>3 DEF RequestOK, Moves, Lookups, Listings, Uses, Ends, None, Infer, Runs, Fits, Reads
    <3>1. Control(req[r])'
        BY DEF Control
    <3>2. Found(req[r])'
        BY DEF Found, Control
    <3>3. Looked(req[r])'
        BY DEF Looked, Control, Found
    <3>9. Read(req[r])'
        BY <2>9 DEF Read
    <3> QED
        BY <3>1, <3>2, <3>3, <3>9
  <2>11. /\ Increment(r, req[r].servable, TRUE) /\ req[r].servable \in Servables /\ req[r].api \in Apis
        /\ req[r].interface \in Interfaces
      BY <1>0, <1>1, <2>0 DEF Control, Found, RequestOK, Uses, Infer
  <2>12. Called(req'[r], req[r].servable, req[r].api, req[r].interface)
      BY <1>0, <1>1, <2>0, <2>3 DEF Called, Moves, Infer
  <2>13. /\ req[r].pc \notin Ends /\ req'[r].pc \in Ends /\ req' = [req EXCEPT ![r] = req'[r]]
      BY <1>0, <1>1, <2>0, <2>3 DEF Infer, Ends, Moves
  <2>14. /\ req[r].ran = None /\ (req[r].api \in Inferences => ((req'[r].ran = "OK") <=> TRUE))
        /\ (req[r].api \in Inferences /\ ~TRUE => req'[r].pc = "done")
      BY <1>0, <1>1, <2>0, <2>3, <2>13, NotEnded DEF Infer, None
  <2>15. Counters' /\ metrics' \in CounterType
      BY <2>11, <2>12, <2>13, <2>14, Counted DEF CounterType
  <2> QED
      BY <2>3, <2>10, <2>15 DEF StepOK, Moves
<1>2. CASE /\ req' = [req EXCEPT ![r].pc = "done", ![r].status = "FAILED", ![r].ran = "FAILED", ![r].guard = FALSE]
           /\ Increment(r, req[r].servable, FALSE)
  <2>1. /\ req'[r] = [req[r] EXCEPT !.pc = "done", !.status = "FAILED", !.ran = "FAILED", !.guard = FALSE]
        /\ req' = [req EXCEPT ![r] = req'[r]]
      BY <1>0, <1>2 DEF Infer, Shape
  <2>2. req'[r] \in Request
    <3>1. "done" \in PCs
        BY <1>0 DEF PCs, Lookups, Listings, Uses, Ends
    <3>2. "FAILED" \in Statuses
        BY <1>0 DEF Statuses, Outcomes
    <3> QED
        BY <1>0, <2>1, <3>1, <3>2 DEF Request
  <2>3. /\ Moves(r) /\ KeepsReads(r) /\ KeepsList(r) /\ req'[r].pc = "done" /\ req'[r].status = "FAILED"
        /\ req'[r].ran = "FAILED" /\ req'[r].guard = FALSE /\ req'[r].servable = req[r].servable
      BY <1>0, <2>1, <2>2 DEF Request, Moves
  <2>4. RequestOK(r)'
    <3> USE <1>0, <2>3 DEF RequestOK, Moves, Lookups, Listings, Uses, Ends, None, Infer
    <3>1. Control(req[r])'
        BY DEF Control
    <3>2. Found(req[r])'
        BY DEF Found, Control
    <3>3. Looked(req[r])'
        BY DEF Looked, Control, Found
    <3>4. Read(req[r])'
        BY DEF Read, Control, Found
    <3> QED
        BY <3>1, <3>2, <3>3, <3>4
  <2>5. /\ Increment(r, req[r].servable, FALSE) /\ req[r].servable \in Servables /\ req[r].api \in Apis
        /\ req[r].interface \in Interfaces
      BY <1>0, <1>2 DEF Control, Found, RequestOK, Uses, Infer
  <2>6. Called(req'[r], req[r].servable, req[r].api, req[r].interface)
      BY <1>0, <1>2, <2>3 DEF Called, Moves, Infer
  <2>7. /\ req[r].pc \notin Ends /\ req'[r].pc \in Ends /\ req' = [req EXCEPT ![r] = req'[r]]
      BY <1>0, <1>2, <2>3 DEF Infer, Ends, Moves
  <2>8. /\ req[r].ran = None /\ (req[r].api \in Inferences => ((req'[r].ran = "OK") <=> FALSE))
        /\ (req[r].api \in Inferences /\ ~FALSE => req'[r].pc = "done")
      BY <1>0, <1>2, <2>3, <2>7, NotEnded DEF Infer, None
  <2>9. Counters' /\ metrics' \in CounterType
      BY <2>5, <2>6, <2>7, <2>8, Counted DEF CounterType
  <2> QED
      BY <2>3, <2>4, <2>9 DEF StepOK, Moves
<1> QED
    BY <1>1, <1>2 DEF Infer

\* The state of one servable is the response, and is counted.
LEMMA BuildResponseStep ==
    ASSUME Shape, Counters, NEW r \in Requests, RequestOK(r), BuildResponse(r)
    PROVE  StepOK(r)
<1> USE DEF manager, At, Is, Rest, Name, Pipeline, End,
            KeepsReads, KeepsRun, KeepsList, KeepsServable, KeepsStatus
<1>0. req[r] \in Request /\ UNCHANGED manager /\ req[r].servable \in Servables /\ gen[req[r].servable] \in Nat
    BY DEF BuildResponse, Shape, RequestOK, Found, Uses, Inferences
<1>1. PICK e \in Ends, st \in {"NOT_READY", "OK"} :
        e = End(r) /\ req' = [req EXCEPT ![r].pc = e, ![r].guard = FALSE, ![r].status = st]
    BY DEF BuildResponse, Ends
<1>2. req[r] \in Request /\ e \in Ends /\ st \in {"NOT_READY", "OK"}
    BY <1>0, <1>1
<1>3. /\ req'[r] = [req[r] EXCEPT !.pc = e, !.guard = FALSE, !.status = st]
      /\ req' = [req EXCEPT ![r] = req'[r]]
    BY <1>0, <1>1 DEF BuildResponse, Shape
<1>4. req'[r] \in Request
  <2>1. e \in PCs
      BY <1>2 DEF PCs, Lookups, Listings, Uses, Ends
  <2>2. st \in Statuses
      BY <1>2 DEF Statuses, Outcomes
  <2> QED
      BY <1>2, <1>3, <2>1, <2>2 DEF Request
<1>5. /\ Moves(r) /\ KeepsReads(r) /\ KeepsRun(r) /\ KeepsList(r) /\ req'[r].pc = e /\ req'[r].guard = FALSE
      /\ req'[r].status = st /\ req'[r].servable = req[r].servable
    BY <1>2, <1>3, <1>4 DEF Request, Moves
<1>6. RequestOK(r)'
  <2> USE <1>0, <1>1, <1>2, <1>5 DEF RequestOK, Moves, Lookups, Listings, Uses, Ends, None, BuildResponse, Inferences
  <2>1. Control(req[r])'
      BY DEF Control
  <2>2. Found(req[r])'
      BY DEF Found, Control
  <2>3. Looked(req[r])'
      BY DEF Looked, Control, Found
  <2>4. Read(req[r])'
      BY DEF Read, Control, Found
  <2> QED
      BY <2>1, <2>2, <2>3, <2>4
<1>7. /\ Increment(r, req[r].servable, TRUE) /\ req[r].servable \in Servables /\ req[r].api \in Apis
      /\ req[r].interface \in Interfaces
    BY <1>0, <1>1, <1>2 DEF Control, Found, RequestOK, Uses, BuildResponse, Inferences
<1>8. Called(req'[r], req[r].servable, req[r].api, req[r].interface)
    BY <1>0, <1>1, <1>2, <1>5 DEF Called, Moves, BuildResponse, Inferences
<1>9. /\ req[r].pc \notin Ends /\ req'[r].pc \in Ends /\ req' = [req EXCEPT ![r] = req'[r]]
    BY <1>0, <1>1, <1>2, <1>5 DEF BuildResponse, Inferences, Ends, Moves
<1>10. /\ req[r].ran = None /\ (req[r].api \in Inferences => ((req'[r].ran = "OK") <=> TRUE))
       /\ (req[r].api \in Inferences /\ ~TRUE => req'[r].pc = "done")
    BY <1>0, <1>1, <1>2, <1>5, <1>9, NotEnded DEF BuildResponse, Inferences, None
<1>11. Counters' /\ metrics' \in CounterType
    BY <1>7, <1>8, <1>9, <1>10, Counted DEF CounterType
<1> QED
    BY <1>5, <1>6, <1>11 DEF StepOK, Moves

\* The states of all versions are the response, counted at the first of them.
LEMMA StatusOfAllVersionsStep ==
    ASSUME Shape, Counters, NEW r \in Requests, RequestOK(r), StatusOfAllVersions(r)
    PROVE  StepOK(r)
<1> USE DEF manager, At, Is, Rest, Name, Pipeline, End,
            KeepsReads, KeepsRun, KeepsList, KeepsServable, KeepsStatus
<1>0. /\ req[r] \in Request /\ UNCHANGED manager /\ req[r].pc = "statusAll" /\ req[r].api = "Status"
      /\ req[r].name \in Names /\ req[r].name \in models
    BY DEF StatusOfAllVersions, Shape, RequestOK, Control, Found, Lookups
<1>1. PICK e \in Ends : e = End(r)
    BY DEF Ends
<1>2. CASE /\ req' = [req EXCEPT ![r].pc = End(r), ![r].guard = FALSE, ![r].status = "OK"]
           /\ UNCHANGED metrics
  <2>1. /\ req'[r] = [req[r] EXCEPT !.pc = e, !.guard = FALSE, !.status = "OK"]
        /\ req' = [req EXCEPT ![r] = req'[r]]
      BY <1>0, <1>1, <1>2 DEF StatusOfAllVersions, Shape
  <2>2. req'[r] \in Request
    <3>1. e \in PCs
        BY <1>0, <1>1 DEF PCs, Lookups, Listings, Uses, Ends
    <3>2. "OK" \in Statuses
        BY <1>0, <1>1 DEF Statuses, Outcomes
    <3> QED
        BY <1>0, <1>1, <2>1, <3>1, <3>2 DEF Request
  <2>3. /\ Moves(r) /\ KeepsReads(r) /\ KeepsRun(r) /\ KeepsList(r) /\ req'[r].pc = e
        /\ req'[r].guard = FALSE /\ req'[r].status = "OK" /\ req'[r].servable = req[r].servable
      BY <1>0, <1>1, <2>1, <2>2 DEF Request, Moves
  <2>4. RequestOK(r)'
    <3> USE <1>0, <1>1, <2>3 DEF RequestOK, Moves, Lookups, Listings, Uses, Ends, None, StatusOfAllVersions, Inferences
    <3>1. Control(req[r])'
        BY DEF Control
    <3>2. Found(req[r])'
        BY DEF Found, Control
    <3>3. Looked(req[r])'
        BY DEF Looked, Control, Found
    <3>4. Read(req[r])'
        BY DEF Read, Control, Found
    <3> QED
        BY <3>1, <3>2, <3>3, <3>4
  <2>5. ASSUME NEW s \in Servables, NEW api \in Inferences, NEW i \in Interfaces
         PROVE  /\ Ran(req'[r], s, api, i) <=> Ran(req[r], s, api, i)
                /\ Failed(req'[r], s, api, i) <=> Failed(req[r], s, api, i)
      BY <1>0, <2>3 DEF Ran, Failed, Called, Moves, Inferences
  <2>6. Counters' /\ metrics' \in CounterType
      BY <1>0, <1>2, <2>3, <2>5, Uncounted DEF Shape, CounterType, Moves, Ends
  <2> QED
      BY <2>3, <2>4, <2>6 DEF StepOK, Moves
<1>3. CASE \E v \in Registered(Name(r)) :
             /\ req' = [req EXCEPT ![r].pc = End(r), ![r].guard = FALSE, ![r].status = "OK",
                                   ![r].servable = <<Name(r), v>>]
             /\ Increment(r, <<Name(r), v>>, TRUE)
  <2>0. PICK s \in Servables :
          /\ s[1] = req[r].name /\ Increment(r, s, TRUE)
          /\ req' = [req EXCEPT ![r].pc = e, ![r].guard = FALSE, ![r].status = "OK", ![r].servable = s]
    <3>1. PICK v \in Registered(Name(r)) :
             /\ req' = [req EXCEPT ![r].pc = End(r), ![r].guard = FALSE, ![r].status = "OK",
                                   ![r].servable = <<Name(r), v>>]
             /\ Increment(r, <<Name(r), v>>, TRUE)
      BY <1>3
    <3>2. <<Name(r), v>> \in Servables /\ <<Name(r), v>>[1] = req[r].name
      BY <1>0, <3>1 DEF Registered, Servables
    <3> QED
      BY <1>1, <3>1, <3>2
  <2>1. req[r] \in Request /\ e \in Ends /\ s \in Servables
    BY <1>0
  <2>2. /\ req'[r] = [req[r] EXCEPT !.pc = e, !.guard = FALSE, !.status = "OK", !.servable = s]
        /\ req' = [req EXCEPT ![r] = req'[r]]
      BY <1>0, <2>0 DEF StatusOfAllVersions, Shape
  <2>3. req'[r] \in Request
    <3>1. e \in PCs
        BY <2>1 DEF PCs, Lookups, Listings, Uses, Ends
    <3>2. "OK" \in Statuses
        BY <2>1 DEF Statuses, Outcomes
    <3> QED
        BY <2>1, <2>2, <3>1, <3>2 DEF Request
  <2>4. /\ Moves(r) /\ KeepsReads(r) /\ KeepsRun(r) /\ KeepsList(r) /\ req'[r].pc = e
        /\ req'[r].guard = FALSE /\ req'[r].status = "OK" /\ req'[r].servable = s
      BY <2>1, <2>2, <2>3 DEF Request, Moves
  <2>5. RequestOK(r)'
    <3> USE <1>0, <1>1, <2>0, <2>1, <2>4, NoServableFact DEF RequestOK, Moves, Lookups, Listings, Uses, Ends, None, StatusOfAllVersions, Inferences
    <3>1. Control(req[r])'
        BY DEF Control
    <3>2. Found(req[r])'
        BY DEF Found, Control
    <3>3. Looked(req[r])'
        BY DEF Looked, Control, Found
    <3>4. Read(req[r])'
        BY DEF Read, Control, Found
    <3> QED
        BY <3>1, <3>2, <3>3, <3>4
  <2>6. /\ Increment(r, s, TRUE) /\ s \in Servables /\ req[r].api \in Apis /\ req[r].interface \in Interfaces
      BY <1>0, <2>0, <2>1 DEF Control, Found, RequestOK, Uses, StatusOfAllVersions, Inferences
  <2>7. Called(req'[r], s, req[r].api, req[r].interface)
      BY <1>0, <2>0, <2>1, <2>4 DEF Called, Moves, StatusOfAllVersions, Inferences
  <2>8. /\ req[r].pc \notin Ends /\ req'[r].pc \in Ends /\ req' = [req EXCEPT ![r] = req'[r]]
      BY <1>0, <2>0, <2>1, <2>4 DEF StatusOfAllVersions, Inferences, Ends, Moves
  <2>9. /\ req[r].ran = None /\ (req[r].api \in Inferences => ((req'[r].ran = "OK") <=> TRUE))
        /\ (req[r].api \in Inferences /\ ~TRUE => req'[r].pc = "done")
      BY <1>0, <2>0, <2>1, <2>4, <2>8, NotEnded DEF StatusOfAllVersions, Inferences, None
  <2>10. Counters' /\ metrics' \in CounterType
      BY <2>6, <2>7, <2>8, <2>9, Counted DEF CounterType
  <2> QED
      BY <2>4, <2>5, <2>10 DEF StepOK, Moves
<1> QED
    BY <1>2, <1>3 DEF StatusOfAllVersions

\* A request arrives, and remembers the names there are.
LEMMA ArriveStep ==
    ASSUME Shape, Counters, NEW r \in Requests, RequestOK(r),
           NEW api \in Apis, NEW i \in InterfacesOf(api), NEW n \in NamesOf(api), NEW v \in VersionsOf(api, i),
           Arrive(r, api, i, n, v)
    PROVE  StepOK(r)
<1> DEFINE old == models \cup pipelines
           p == Entry(api, i)
<1>1. /\ req[r] \in Request /\ UNCHANGED <<manager, metrics>> /\ old \in SUBSET Names /\ req[r].pc = "idle"
    BY DEF Arrive, Shape, At
<1>2. /\ i \in Interfaces /\ (api # "ConfigStatus" => n \in Names) /\ n \in Names \cup {None}
      /\ v \in {0, Bad} \cup Versions
    BY DEF InterfacesOf, NamesOf, VersionsOf, Interfaces
<1>3. /\ p \in {"exists", "prepare", "lockAll", "find"} /\ p \in PCs
      /\ p = "exists" => api = "Predict" /\ i = "REST"
      /\ p = "prepare" => api = "Infer"
      /\ p = "lockAll" <=> api = "ConfigStatus"
    BY DEF Entry, PCs, Lookups, Listings
<1>4. /\ req'[r] = [req[r] EXCEPT !.pc = p, !.api = api, !.interface = i, !.name = n, !.version = v, !.earlier = old]
      /\ req' = [req EXCEPT ![r] = req'[r]]
    BY DEF Arrive, Shape
<1> HIDE DEF old, p
<1>5. req'[r] \in Request
    BY <1>1, <1>2, <1>3, <1>4 DEF Request
<1>6. /\ req'[r].pc = p /\ req'[r].api = api /\ req'[r].interface = i /\ req'[r].name = n
      /\ req'[r].earlier = old /\ KeepsReads(r) /\ KeepsRun(r) /\ KeepsList(r) /\ KeepsServable(r) /\ KeepsStatus(r)
    BY <1>1, <1>4 DEF Request, KeepsReads, KeepsRun, KeepsList, KeepsServable, KeepsStatus
<1>7. RequestOK(r)'
  <2> USE <1>1, <1>2, <1>3, <1>6 DEF RequestOK, manager, Lookups, Listings, Uses, Ends, None, KeepsReads, KeepsRun,
                                     KeepsList, KeepsServable, KeepsStatus
  <2>1. Control(req[r])'
    BY DEF Control
  <2>2. Found(req[r])'
    BY NoServableFact DEF Found
  <2>3. Looked(req[r])'
    BY DEF Looked, Control, old
  <2>4. Read(req[r])'
    BY DEF Read
  <2> QED
    BY <2>1, <2>2, <2>3, <2>4
<1>8. ASSUME NEW s \in Servables, NEW a \in Inferences, NEW j \in Interfaces
      PROVE  /\ Ran(req'[r], s, a, j) <=> Ran(req[r], s, a, j)
             /\ Failed(req'[r], s, a, j) <=> Failed(req[r], s, a, j)
  <2>1. req[r].ran = None /\ req'[r].ran = None /\ req'[r].pc # "done"
    BY <1>1, <1>3, <1>6, NotEnded DEF Ends, KeepsRun
  <2> QED
    BY <1>1, <2>1 DEF Ran, Failed, None
<1>9. Counters' /\ metrics' \in CounterType
    BY <1>1, <1>4, <1>8, Uncounted DEF Shape, CounterType, Ends
<1> QED
    BY <1>4, <1>5, <1>7, <1>9 DEF StepOK

\* Every step of a request thread is one of the above.
LEMMA ThreadStep ==
    ASSUME Shape, Counters, NEW r \in Requests, RequestOK(r), Thread(r)
    PROVE  StepOK(r) /\ UNCHANGED manager
<1>1. UNCHANGED manager
    BY DEF Thread, ModelExists, PipelineExists, GetPipelineInputs, PrepareGrpcRequest, GetReporter,
           ValidateMetadata, FindModelByName, GetInstance, FindDefinition, WaitForLoaded, WaitForMetadata,
           ReadInputs, ReadOutputs, Parse, Infer, MakeJson, ProcessModelMetadata, ProcessModelMetadataKFS,
           ProcessModelStatus, ProcessModelReadyKFS, BuildResponse, StatusOfAllVersions, LockModels,
           StatusOfModel, UnlockModels, StatusOfPipelines
<1> QED
    BY <1>1, ModelExistsStep, PipelineExistsStep, GetPipelineInputsStep, PrepareGrpcRequestStep, GetReporterStep,
       ValidateMetadataStep, FindModelByNameStep, GetInstanceStep, FindDefinitionStep, WaitForLoadedStep,
       WaitForMetadataStep, ReadInputsStep, ReadOutputsStep, ParseStep, InferStep, MakeJsonStep,
       ProcessModelMetadataStep, ProcessModelMetadataKFSStep, ProcessModelStatusStep,
       ProcessModelReadyKFSStep, BuildResponseStep, StatusOfAllVersionsStep, LockModelsStep,
       StatusOfModelStep, UnlockModelsStep, StatusOfPipelinesStep DEF Thread

\* What a step of r has shown is the invariant: the other requests see the
\* manager as it was.
LEMMA OthersStep ==
    ASSUME Shape, \A q \in Requests : RequestOK(q), NEW r \in Requests, StepOK(r), UNCHANGED manager
    PROVE  FrontendInv'
<1>1. \A q \in Requests : q # r => req'[q] = req[q]
    BY DEF StepOK, Shape
<1>2. ASSUME NEW q \in Requests PROVE RequestOK(q)'
  <2>1. CASE q = r
    BY <2>1 DEF StepOK
  <2>2. CASE q # r
    <3>1. req'[q] = req[q] /\ RequestOK(q)
      BY <1>1, <2>2
    <3> QED
      BY <3>1 DEF RequestOK, Control, Found, Looked, Read, manager
  <2> QED
    BY <2>1, <2>2
<1>3. Shape'
    BY DEF Shape, StepOK, manager, CounterType
<1> QED
    BY <1>2, <1>3 DEF FrontendInv, StepOK

-----------------------------------------------------------------------------
\* The steps of the manager

\* The manager only adds names, leaves a known name what it is, and does not
\* touch what a guard protects.
ManagerOK ==
    /\ models \subseteq models' /\ pipelines \subseteq pipelines'
    /\ \A n \in models \cup pipelines : (n \in models' => n \in models) /\ (n \in pipelines' => n \in pipelines)
    /\ \A r \in Requests : req[r].guard => gen'[req[r].servable] = gen[req[r].servable]
    /\ metrics' = metrics /\ req' = req

\* Under such a step the requests keep their part of the invariant.
LEMMA RequestsSeeManager ==
    ASSUME FrontendInv, Shape', ManagerOK
    PROVE  FrontendInv'
<1>1. ASSUME NEW r \in Requests PROVE RequestOK(r)'
  <2> USE DEF FrontendInv, ManagerOK, RequestOK
  <2>0. RequestOK(r) /\ req'[r] = req[r]
    OBVIOUS
  <2>1. Control(req[r])'
    BY <2>0 DEF Control
  <2>2. Found(req[r])'
    <3>1. req[r].name \in models \cup pipelines =>
            /\ req[r].name \in models' <=> req[r].name \in models
            /\ req[r].name \in models' \cup pipelines'
            /\ req[r].name \in pipelines => req[r].name \in pipelines'
      OBVIOUS
    <3>2. Found(req[r])
      BY <2>0
    <3> HIDE DEF FrontendInv, ManagerOK, RequestOK
    <3> QED
      BY <2>0, <3>1, <3>2 DEF Found, Uses
  <2>3. Looked(req[r])'
    BY <2>0 DEF Looked
  <2>4. Read(req[r])'
    <3>1. /\ req[r].name \in models \cup pipelines =>
               (req[r].name \in models' <=> req[r].name \in models) /\ (req[r].name \in pipelines' <=> req[r].name \in pipelines)
          /\ req[r].guard => gen'[req[r].servable] = gen[req[r].servable]
          /\ req[r].ran = "OK" => req[r].name \in models \cup pipelines
          /\ req[r].pc \in Uses => req[r].name \in models \cup pipelines
      BY <2>0 DEF Read, Found
    <3>2. Read(req[r]) /\ (req[r].pc \in {"inputs", "outputs"} => req[r].guard)
      BY <2>0 DEF Found
    <3> HIDE DEF FrontendInv, ManagerOK, RequestOK
    <3> QED
      BY <2>0, <3>1, <3>2 DEF Read, Uses
  <2> QED
    BY <2>1, <2>2, <2>3, <2>4
<1>2. Counters'
  <2>1. Counters /\ metrics' = metrics /\ req' = req
    BY DEF FrontendInv, ManagerOK
  <2>2. Ended' = Ended
    BY <2>1 DEF Ended
  <2>3. ASSUME NEW s, NEW api, NEW i
        PROVE  RanAt(s, api, i)' = RanAt(s, api, i) /\ FailedAt(s, api, i)' = FailedAt(s, api, i)
    BY <2>1 DEF RanAt, FailedAt
  <2>4. ASSUME NEW s \in Servables, NEW api \in Inferences, NEW i \in Interfaces
        PROVE  /\ metrics'[<<s, api, i, TRUE>>] = Cardinality(RanAt(s, api, i)')
               /\ metrics'[<<s, api, i, FALSE>>] = Cardinality(FailedAt(s, api, i)')
    <3>1. /\ metrics[<<s, api, i, TRUE>>] = Cardinality(RanAt(s, api, i))
          /\ metrics[<<s, api, i, FALSE>>] = Cardinality(FailedAt(s, api, i))
      BY <2>1, Zenon DEF Counters
    <3> QED
      BY <2>1, <2>3, <3>1
  <2>5. \A k \in Servables \X Apis \X Interfaces \X BOOLEAN : metrics'[k] <= Cardinality(Ended')
    BY <2>1, <2>2 DEF Counters
  <2> QED
    BY <2>4, <2>5 DEF Counters
<1> QED
    BY <1>1, <1>2 DEF FrontendInv

\* A load is only replaced when nobody guards it, and a definition is only
\* created under a name that no request has found.
LEMMA ManagerStep ==
    ASSUME FrontendInv, Manager
    PROVE  FrontendInv'
<1> SUFFICES Shape' /\ ManagerOK
    BY RequestsSeeManager
<1>0. /\ Shape
      /\ \A r \in Requests : /\ req[r].guard => req[r].servable \in Servables
                             /\ req[r].guard => req[r].servable[1] \in models \cup pipelines
    BY NoServableFact DEF FrontendInv, RequestOK, Found
<1> USE DEF Shape, ManagerOK, Unknown
<1>1. CASE ModelWaits
    BY <1>0, <1>1 DEF ModelWaits
<1>2. CASE ModelAdded
    BY <1>0, <1>2 DEF ModelAdded
<1>3. ASSUME NEW n \in Names, AddModel(n) PROVE Shape' /\ ManagerOK
    BY <1>0, <1>3 DEF AddModel
<1>4. ASSUME NEW n \in Names, AddPipeline(n) PROVE Shape' /\ ManagerOK
  <2>1. <<n, 1>> \in Servables
    BY VersionsAssumption DEF Servables
  <2>2. PICK st \in {"AVAILABLE", "LOADING"}, g \in Nat :
          state' = [state EXCEPT ![<<n, 1>>] = st] /\ gen' = [gen EXCEPT ![<<n, 1>>] = g]
    BY <1>4 DEF AddPipeline
  <2>3. state' \in [Servables -> States] /\ gen' \in [Servables -> Nat]
    BY <1>0, <2>1, <2>2 DEF States
  <2>4. ASSUME NEW r \in Requests, req[r].guard PROVE gen'[req[r].servable] = gen[req[r].servable]
    <3>1. req[r].servable # <<n, 1>>
      BY <1>0, <1>4, <2>4 DEF AddPipeline
    <3> QED
      BY <1>0, <2>2, <2>4, <3>1
  <2> QED
    BY <1>0, <1>4, <2>3, <2>4 DEF AddPipeline
<1>5. ASSUME NEW s \in Servables, AddVersion(s) PROVE Shape' /\ ManagerOK
    BY <1>0, <1>5 DEF AddVersion, States
<1>6. ASSUME NEW s \in Servables, BeginReload(s) PROVE Shape' /\ ManagerOK
    BY <1>0, <1>6 DEF BeginReload, States
<1>7. ASSUME NEW s \in Servables, Load(s) PROVE Shape' /\ ManagerOK
  <2>1. ASSUME NEW r \in Requests, req[r].guard PROVE gen'[req[r].servable] = gen[req[r].servable]
    <3>1. req[r].servable # s
      BY <1>7, <2>1 DEF Load, Guards
    <3> QED
      BY <1>0, <1>7, <2>1, <3>1 DEF Load
  <2> QED
    BY <1>0, <1>7, <2>1 DEF Load, States
<1>8. ASSUME NEW s \in Servables, Retire(s) PROVE Shape' /\ ManagerOK
    BY <1>0, <1>8 DEF Retire, States
<1>9. ASSUME NEW s \in Servables, Unload(s) PROVE Shape' /\ ManagerOK
    BY <1>0, <1>9 DEF Unload, States
<1> QED
    BY <1>1, <1>2, <1>3, <1>4, <1>5, <1>6, <1>7, <1>8, <1>9 DEF Manager

-----------------------------------------------------------------------------
\* The theorems

\* At the start no request is under way and nothing is counted.
LEMMA FrontendInit == Init => FrontendInv
<1> SUFFICES ASSUME Init PROVE FrontendInv
    OBVIOUS
<1>1. Shape
    BY VersionsAssumption DEF Init, Shape, Request, PCs, States, Statuses
<1>2. ASSUME NEW r \in Requests PROVE RequestOK(r)
    BY NoServableFact DEF Init, RequestOK, Control, Found, Looked, Read, Lookups, Listings, Uses, Ends, None
<1>3. \A s \in Servables, api \in Inferences, i \in Interfaces : RanAt(s, api, i) = {} /\ FailedAt(s, api, i) = {}
    BY DEF Init, RanAt, FailedAt, Ran, Failed, None
<1>4. Cardinality({}) = 0 /\ Cardinality(Ended) \in Nat
    BY FS_EmptySet, CardMonotone DEF Ended
<1>5. ASSUME NEW s \in Servables, NEW api \in Inferences, NEW i \in Interfaces
      PROVE  metrics[<<s, api, i, TRUE>>] = 0 /\ metrics[<<s, api, i, FALSE>>] = 0
    BY DEF Init, Apis
<1>6. \A k \in Servables \X Apis \X Interfaces \X BOOLEAN : metrics[k] <= Cardinality(Ended)
    BY <1>4 DEF Init
<1>7. Counters
    BY <1>3, <1>4, <1>5, <1>6 DEF Counters
<1> QED
    BY <1>1, <1>2, <1>7 DEF FrontendInv

\* Every step of the manager and of a request keeps the invariant.
LEMMA FrontendStep == FrontendInv /\ [Next]_vars => FrontendInv'
<1> SUFFICES ASSUME FrontendInv, [Next]_vars PROVE FrontendInv'
    OBVIOUS
<1>0. Shape /\ Counters /\ \A r \in Requests : RequestOK(r)
    BY DEF FrontendInv
<1>1. CASE UNCHANGED vars
    BY <1>0, <1>1, RequestsSeeManager DEF vars, manager, ManagerOK, Shape
<1>2. CASE Manager
    BY <1>2, ManagerStep
<1>3. ASSUME NEW r \in Requests, Thread(r) PROVE FrontendInv'
    BY <1>0, <1>3, ThreadStep, OthersStep
<1>4. ASSUME NEW r \in Requests, NEW api \in Apis, NEW i \in InterfacesOf(api), NEW n \in NamesOf(api),
             NEW v \in VersionsOf(api, i), Arrive(r, api, i, n, v)
      PROVE  FrontendInv'
  <2>1. StepOK(r)
    BY <1>0, <1>4, ArriveStep
  <2>2. UNCHANGED manager
    BY <1>4 DEF Arrive
  <2> QED
    BY <1>0, <2>1, <2>2, OthersStep
<1> QED
    BY <1>1, <1>2, <1>3, <1>4 DEF Next

\* The invariant holds in every state of the handlers.
THEOREM FrontendInvariant == Spec => []FrontendInv
<1>1. Init => FrontendInv
    BY FrontendInit
<1>2. FrontendInv /\ [Next]_vars => FrontendInv'
    BY FrontendStep
<1> QED
    BY <1>1, <1>2, PTL DEF Spec

\* The handlers keep their state in its shape: a guard is held on a servable,
\* and no request is counted twice by one counter.
THEOREM FrontendTypeCorrect == Spec => []TypeOK
<1>1. FrontendInv => TypeOK
  <2> SUFFICES ASSUME FrontendInv PROVE TypeOK
    OBVIOUS
  <2>1. Shape /\ Counters /\ \A r \in Requests : RequestOK(r)
    BY DEF FrontendInv
  <2>2. Ended \in SUBSET Requests /\ Requests \in SUBSET Requests /\ Ended \subseteq Requests
    BY DEF Ended
  <2>3. /\ Cardinality(Ended) \in Nat /\ Cardinality(Requests) \in Nat
        /\ Cardinality(Ended) <= Cardinality(Requests)
    BY <2>2, CardMonotone
  <2>4. ASSUME NEW k \in Servables \X Apis \X Interfaces \X BOOLEAN
        PROVE  metrics[k] \in 0..Cardinality(Requests)
    <3>1. metrics[k] \in Nat /\ metrics[k] <= Cardinality(Ended)
      BY <2>1 DEF Shape, Counters
    <3> QED
      BY <2>3, <3>1
  <2>5. metrics \in [Servables \X Apis \X Interfaces \X BOOLEAN -> 0..Cardinality(Requests)]
    BY <2>1, <2>4 DEF Shape
  <2> QED
    BY <2>1, <2>5 DEF TypeOK, Shape, RequestOK, Found
<1> QED
    BY <1>1, FrontendInvariant, PTL

\* Once nothing is under way, the counters of a servable are the numbers of
\* the inferences that ran there and that failed there, each counted once.
THEOREM EveryInferenceIsCountedOnce == Spec => []CountedOnce
<1>1. FrontendInv => CountedOnce
  <2> SUFFICES ASSUME FrontendInv, \A r \in Requests : req[r].pc \in {"idle", "done"},
                      NEW s \in Servables, NEW api \in Inferences, NEW i \in Interfaces
               PROVE  LET found == {r \in Requests :
                                     Done(r) /\ req[r].api = api /\ req[r].interface = i /\ req[r].servable = s}
                          good == {r \in found : req[r].ran = "OK"}
                      IN  /\ metrics[<<s, api, i, TRUE>>] = Cardinality(good)
                          /\ metrics[<<s, api, i, FALSE>>] = Cardinality(found \ good)
    BY DEF CountedOnce
  <2> DEFINE found == {r \in Requests :
                         Done(r) /\ req[r].api = api /\ req[r].interface = i /\ req[r].servable = s}
             good == {r \in found : req[r].ran = "OK"}
  <2>1. \A r \in Requests : req[r].ran = "OK" => req[r].pc = "done"
    BY DEF FrontendInv, RequestOK, Read, Ends, None
  <2>2. good = RanAt(s, api, i)
    BY <2>1 DEF RanAt, Ran, Called, Done, At
  <2>3. found \ good = FailedAt(s, api, i)
    BY DEF FailedAt, Failed, Called, Done, At
  <2>4. /\ metrics[<<s, api, i, TRUE>>] = Cardinality(RanAt(s, api, i))
        /\ metrics[<<s, api, i, FALSE>>] = Cardinality(FailedAt(s, api, i))
    BY DEF FrontendInv, Counters
  <2> QED
    BY <2>2, <2>3, <2>4
<1> QED
    BY <1>1, FrontendInvariant, PTL

\* What was there when a request arrived is found, although the lookups are
\* separate steps and names are added between them.
THEOREM LookupsFindWhatWasThere == Spec => []FindsWhatWasThere
<1>1. FrontendInv => FindsWhatWasThere
    BY DEF FrontendInv, RequestOK, Looked, FindsWhatWasThere, Done, At, Is, Name
<1> QED
    BY <1>1, FrontendInvariant, PTL

\* Inputs and outputs of one response, and of one pipeline, are of one load;
\* nothing that was parsed for other inputs is run.
THEOREM ResponsesAreOfOneGeneration == Spec => []OneGeneration
<1>1. FrontendInv => OneGeneration
    BY DEF FrontendInv, RequestOK, Read, OneGeneration, Is, Rest, Name
<1> QED
    BY <1>1, FrontendInvariant, PTL
=============================================================================
