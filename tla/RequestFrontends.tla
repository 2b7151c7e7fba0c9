-------------------------- MODULE RequestFrontends --------------------------
(***************************************************************************)
(* The handlers behind the gRPC services (prediction_service.cpp,          *)
(* kfs_grpc_inference_service.cpp, model_service.cpp,                      *)
(* get_model_metadata_impl.cpp) and behind the REST handler                *)
(* (http_rest_api_handler.cpp).  Each request is a thread.  It looks the   *)
(* name up in the manager, waits for the servable, works under an unload   *)
(* guard, and counts its outcome in the servable's metrics, while the      *)
(* manager adds, reloads and retires models and pipelines.                 *)
(*                                                                         *)
(* A servable is a pair <<name, version>>; a pipeline is its version 1.    *)
(* What an inputs or outputs map holds is the generation of the servable   *)
(* it was read from.  What happens inside waitForLoaded, infer and execute *)
(* is in ModelInstance, PipelineDefinition and PipelineExecution.          *)
(***************************************************************************)
EXTENDS Integers, FiniteSets

CONSTANTS
    Requests,       \* the request threads
    Names,          \* the names requests and configurations use
    Versions,       \* version numbers of the models
    MaxGeneration,  \* bound, per name: how often its servables are loaded
    Accepts         \* per name: <<g, h>> when generation h takes the inputs of a request parsed for g

ASSUME RequestsAssumption == IsFiniteSet(Requests)
ASSUME VersionsAssumption == Versions \subseteq Nat \ {0} /\ 1 \in Versions
ASSUME GenerationAssumption == MaxGeneration \in [Names -> Nat]
ASSUME AcceptsAssumption == Accepts \in [Names -> SUBSET (Nat \X Nat)]

None == "none"
NoServable == <<None, 0>>

\* ExecutionContext: the interface and method a request came in by.
Interfaces == {"GRPC", "REST"}
Inferences == {"Predict", "Infer"}
Metadata == {"TfsMetadata", "KfsMetadata"}
Apis == Inferences \cup Metadata \cup {"Ready", "Status", "ConfigStatus"}

\* The requests that name no version get 0, the default one; the KServe
\* services are also sent strings that stoi64 refuses, which over REST the
\* URL's pattern stops.
Bad == -1
VersionsOf(api, interface) ==
    CASE api \in {"Infer", "KfsMetadata", "Ready"} /\ interface = "GRPC" -> {0, Bad} \cup Versions
      [] api = "ConfigStatus" -> {0}
      [] OTHER -> {0} \cup Versions

\* The status of the configuration is asked for without a name.
NamesOf(api) == IF api = "ConfigStatus" THEN {None} ELSE Names
InterfacesOf(api) == IF api = "ConfigStatus" THEN {"REST"} ELSE Interfaces

Servables == Names \X Versions

VARIABLES
    models,     \* ModelManager::models: the names, which only grow
    pipelines,  \* PipelineFactory::definitions
    modelsMtx,  \* the writer of models: "idle", "waiting" or "holding"
    state,      \* the state of each instance or definition, "NONE" before it exists
    gen,        \* how often it was loaded
    metrics,    \* ServableMetricReporter: counters per servable, api, interface and outcome
    req         \* the request threads

manager == <<models, pipelines, modelsMtx, state, gen>>
vars == <<manager, metrics, req>>

States == {"NONE", "LOADING", "AVAILABLE", "UNLOADING", "END"}

-----------------------------------------------------------------------------
\* Locking and guards

\* The threads inside the loop of getAllModelsStatuses.
Readers == {r \in Requests : req[r].pc = "all"}

\* std::shared_mutex as glibc builds it prefers readers: only a writer that
\* holds the mutex stops lock_shared, one that waits does not.
CanLockShared(r) == modelsMtx # "holding"

Guards(s) == {r \in Requests : req[r].guard /\ req[r].servable = s}

-----------------------------------------------------------------------------
\* The manager: configuration reloads, driven by other threads

Unknown(n) == n \notin models \cup pipelines

\* getModelIfExistCreateElse wants modelsMtx for writing ...
ModelWaits ==
    /\ modelsMtx = "idle"
    /\ \E n \in Names : Unknown(n)
    /\ modelsMtx' = "waiting"
    /\ UNCHANGED <<models, pipelines, state, gen, metrics, req>>

\* ... and emplaces the model; a name of a pipeline is refused before.
AddModel(n) ==
    /\ modelsMtx = "waiting" /\ Readers = {} /\ Unknown(n)
    /\ models' = models \cup {n}
    /\ modelsMtx' = "holding"
    /\ UNCHANGED <<pipelines, state, gen, metrics, req>>

ModelAdded ==
    /\ modelsMtx = "holding"
    /\ modelsMtx' = "idle"
    /\ UNCHANGED <<models, pipelines, state, gen, metrics, req>>

\* createDefinition: validated, successfully or not, and then inserted.
AddPipeline(n) ==
    /\ Unknown(n) /\ modelsMtx = "idle"
    /\ pipelines' = pipelines \cup {n}
    /\ \E valid \in {v \in BOOLEAN : v => MaxGeneration[n] > 0} :
        /\ state' = [state EXCEPT ![<<n, 1>>] = IF valid THEN "AVAILABLE" ELSE "LOADING"]
        /\ gen' = [gen EXCEPT ![<<n, 1>>] = IF valid THEN 1 ELSE 0]
    /\ UNCHANGED <<models, modelsMtx, metrics, req>>

\* addVersion, and reloadModel of a version that was retired.
AddVersion(s) ==
    /\ s[1] \in models /\ state[s] \in {"NONE", "END"} /\ gen[s] < MaxGeneration[s[1]]
    /\ state' = [state EXCEPT ![s] = "LOADING"]
    /\ UNCHANGED <<models, pipelines, modelsMtx, gen, metrics, req>>

\* A reload announces itself, waits for the guards and loads the new one.
BeginReload(s) ==
    /\ state[s] = "AVAILABLE" /\ gen[s] < MaxGeneration[s[1]]
    /\ state' = [state EXCEPT ![s] = "LOADING"]
    /\ UNCHANGED <<models, pipelines, modelsMtx, gen, metrics, req>>

Load(s) ==
    /\ state[s] = "LOADING" /\ gen[s] < MaxGeneration[s[1]] /\ Guards(s) = {}
    /\ state' = [state EXCEPT ![s] = "AVAILABLE"]
    /\ gen' = [gen EXCEPT ![s] = @ + 1]
    /\ UNCHANGED <<models, pipelines, modelsMtx, metrics, req>>

Retire(s) ==
    /\ state[s] = "AVAILABLE"
    /\ state' = [state EXCEPT ![s] = "UNLOADING"]
    /\ UNCHANGED <<models, pipelines, modelsMtx, gen, metrics, req>>

Unload(s) ==
    /\ state[s] = "UNLOADING" /\ Guards(s) = {}
    /\ state' = [state EXCEPT ![s] = "END"]
    /\ UNCHANGED <<models, pipelines, modelsMtx, gen, metrics, req>>

Manager ==
    \/ ModelWaits \/ ModelAdded
    \/ \E n \in Names : AddModel(n) \/ AddPipeline(n)
    \/ \E s \in Servables : AddVersion(s) \/ BeginReload(s) \/ Load(s) \/ Retire(s) \/ Unload(s)

-----------------------------------------------------------------------------
\* Steps of a request

At(r, pc) == req[r].pc = pc
Name(r) == req[r].name
Is(r, apis) == req[r].api \in apis
Rest(r) == req[r].interface = "REST"
Pipeline(r) == <<Name(r), 1>>

Goto(r, pc) == req' = [req EXCEPT ![r].pc = pc]

\* A return from the handler: the guards are scoped, so it releases them.
Answer(r, status) == req' = [req EXCEPT ![r].pc = "done", ![r].status = status, ![r].guard = FALSE]

\* The end of a handler's work, which a REST request leaves for a response in JSON.
End(r) == IF Rest(r) THEN "json" ELSE "done"

\* INCREMENT_IF_ENABLED on the counter of this api and outcome.
Increment(r, s, ok) ==
    metrics' = [metrics EXCEPT ![<<s, req[r].api, req[r].interface, ok>>] = @ + 1]

\* The outcome of waitForLoaded: available; gone; or not within the timeout.
Waited(s) ==
    CASE state[s] = "AVAILABLE" -> "OK"
      [] state[s] \in {"UNLOADING", "END"} -> "NOT_LOADED_ANYMORE"
      [] OTHER -> "NOT_LOADED_YET"

\* Where the handler of each call starts.
Entry(api, interface) ==
    CASE api = "Predict" /\ interface = "REST" -> "exists"
      [] api = "Infer" /\ interface = "REST" -> "prepare"
      [] api = "ConfigStatus" -> "lockAll"
      [] OTHER -> "find"

\* A request arrives; `earlier` remembers which names there were.
Arrive(r, api, interface, n, v) ==
    /\ At(r, "idle")
    /\ req' = [req EXCEPT ![r].pc = Entry(api, interface), ![r].api = api, ![r].interface = interface,
                          ![r].name = n, ![r].version = v, ![r].earlier = models \cup pipelines]
    /\ UNCHANGED <<manager, metrics>>

\* processPredictRequest: modelExists, else pipelineDefinitionExists.
ModelExists(r) ==
    /\ At(r, "exists") /\ CanLockShared(r)
    /\ Goto(r, IF Name(r) \in models THEN "find" ELSE "pipelineExists")
    /\ UNCHANGED <<manager, metrics>>

PipelineExists(r) ==
    /\ At(r, "pipelineExists")
    /\ IF Name(r) \in pipelines THEN Goto(r, "inputsInfo") ELSE Answer(r, "MODEL_NAME_MISSING")
    /\ UNCHANGED <<manager, metrics>>

\* getPipelineInputsAndReporter: the inputs are copied and the guard is dropped.
GetPipelineInputs(r) ==
    /\ At(r, "inputsInfo")
    /\ IF Waited(Pipeline(r)) = "OK"
       THEN req' = [req EXCEPT ![r].pc = "parse", ![r].servable = Pipeline(r), ![r].parsedFor = gen[Pipeline(r)]]
       ELSE Answer(r, Waited(Pipeline(r)))
    /\ UNCHANGED <<manager, metrics>>

\* prepareGrpcRequest: the body becomes a ModelInferRequest, or the request
\* fails, and is counted if getReporter finds somewhere to count it.
PrepareGrpcRequest(r) ==
    /\ At(r, "prepare")
    /\ \E ok \in BOOLEAN : Goto(r, IF ok THEN "find" ELSE "reporter")
    /\ UNCHANGED <<manager, metrics>>

\* The instance getModelInstance picks: the version asked for, or the default,
\* which is one of the versions or none (ModelVersions says which).
Registered(n) == {v \in Versions : state[<<n, v>>] # "NONE"}
Picks(r) ==
    IF req[r].version \in Versions THEN {req[r].version} \cap Registered(Name(r))
    ELSE Registered(Name(r))
NoneToPick(r) ==
    req[r].version = 0 \/ req[r].version \notin Registered(Name(r))

GetReporter(r) ==
    /\ At(r, "reporter") /\ CanLockShared(r)
    /\ \/ /\ Name(r) \in models
          /\ \E v \in Picks(r) :
              /\ Waited(<<Name(r), v>>) = "OK"
              /\ req' = [req EXCEPT ![r].pc = "done", ![r].status = "JSON_INVALID", ![r].servable = <<Name(r), v>>]
              /\ Increment(r, <<Name(r), v>>, FALSE)
       \/ /\ Name(r) \in pipelines
          /\ req' = [req EXCEPT ![r].pc = "done", ![r].status = "JSON_INVALID", ![r].servable = Pipeline(r)]
          /\ Increment(r, Pipeline(r), FALSE)
       \/ /\ \/ Unknown(Name(r))
             \/ Name(r) \in models /\ NoneToPick(r)
             \/ Name(r) \in models /\ \E v \in Picks(r) : Waited(<<Name(r), v>>) # "OK"
          /\ Answer(r, "JSON_INVALID")
          /\ UNCHANGED metrics
    /\ UNCHANGED manager

\* findModelByName; a name that is no model's is looked for among the pipelines.
FindModelByName(r) ==
    /\ At(r, "find") /\ CanLockShared(r)
    /\ IF Is(r, {"Infer"}) /\ req[r].version = Bad
       THEN Answer(r, "MODEL_VERSION_INVALID_FORMAT")
       ELSE Goto(r, IF Name(r) \in models THEN "instance" ELSE "pipeline")
    /\ UNCHANGED <<manager, metrics>>

\* validate: a metadata request without a model spec or with other fields.
ValidateMetadata(r) ==
    /\ At(r, "find") /\ Is(r, {"TfsMetadata"}) /\ ~Rest(r)
    /\ Answer(r, "INVALID_SIGNATURE_DEF")
    /\ UNCHANGED <<manager, metrics>>

\* The version asked for does not parse, is not there, or is the instance the
\* request goes on with.
GetInstance(r) ==
    /\ At(r, "instance")
    /\ \/ /\ req[r].version = Bad
          /\ Answer(r, "MODEL_VERSION_INVALID_FORMAT")
       \/ /\ req[r].version # Bad /\ ~(Is(r, {"Status"}) /\ req[r].version = 0) /\ NoneToPick(r)
          /\ Answer(r, "MODEL_VERSION_MISSING")
       \/ /\ req[r].version # Bad /\ ~(Is(r, {"Status"}) /\ req[r].version = 0)
          /\ \E v \in Picks(r) : req' = [req EXCEPT ![r].pc = "wait", ![r].servable = <<Name(r), v>>]
       \/ /\ Is(r, {"Status"}) /\ req[r].version = 0
          /\ req' = [req EXCEPT ![r].pc = "statusAll"]
    /\ UNCHANGED <<manager, metrics>>

\* findDefinitionByName and createPipeline on a name no definition has.
FindDefinition_IfLoaded(r) ==
    /\ At(r, "pipeline")
    /\ IF Name(r) \in pipelines /\ Waited(Pipeline(r)) = "OK"
       THEN req' = [req EXCEPT ![r].pc = "wait",
                               ![r].servable = IF Is(r, Inferences) THEN NoServable ELSE Pipeline(r)]
       ELSE Answer(r, "MODEL_NAME_MISSING")
    /\ UNCHANGED <<manager, metrics>>

FindDefinition(r) ==
    /\ At(r, "pipeline")
    /\ IF Name(r) \in pipelines
       THEN req' = [req EXCEPT ![r].pc = "wait",
                               ![r].servable = IF Is(r, Inferences) THEN NoServable ELSE Pipeline(r)]
       ELSE Answer(r, "MODEL_NAME_MISSING")
    /\ UNCHANGED <<manager, metrics>>

\* What a request found: its instance, or the definition it creates from.
Target(r) == IF Name(r) \in models THEN req[r].servable ELSE Pipeline(r)

\* waitForLoaded under an inference.  A failure is counted when there is an
\* instance or, over REST, when the pipeline's reporter was fetched before.
WaitForLoaded(r) ==
    /\ At(r, "wait") /\ Is(r, Inferences)
    /\ IF Waited(Target(r)) = "OK"
       THEN /\ req' = [req EXCEPT ![r].pc = IF Name(r) \in pipelines THEN "inputs"
                                            ELSE IF Is(r, {"Predict"}) /\ Rest(r) THEN "parse" ELSE "infer",
                                  ![r].servable = Target(r), ![r].guard = TRUE,
                                  ![r].parsedFor = IF Name(r) \in models THEN gen[Target(r)] ELSE req[r].parsedFor]
            /\ UNCHANGED metrics
       ELSE /\ Answer(r, Waited(Target(r)))
            /\ IF req[r].servable = NoServable THEN UNCHANGED metrics
               ELSE Increment(r, req[r].servable, FALSE)
    /\ UNCHANGED manager

\* waitForLoaded with a timeout of 0 under a metadata request.
WaitForMetadata(r) ==
    /\ At(r, "wait") /\ Is(r, Metadata)
    /\ IF Waited(req[r].servable) = "OK"
       THEN req' = [req EXCEPT ![r].pc = "inputs", ![r].guard = TRUE] /\ UNCHANGED metrics
       ELSE Answer(r, Waited(req[r].servable)) /\ Increment(r, req[r].servable, FALSE)
    /\ UNCHANGED manager

\* The metadata response, or the entry and the exit node of a new pipeline,
\* get the inputs first and the outputs after them, under one guard.
ReadInputs_DropsGuard(r) ==
    /\ At(r, "inputs")
    /\ req' = [req EXCEPT ![r].pc = "outputs", ![r].inputs = gen[req[r].servable], ![r].guard = FALSE]
    /\ UNCHANGED <<manager, metrics>>

ReadInputs(r) ==
    /\ At(r, "inputs")
    /\ req' = [req EXCEPT ![r].pc = "outputs", ![r].inputs = gen[req[r].servable]]
    /\ UNCHANGED <<manager, metrics>>

ReadOutputs(r) ==
    /\ At(r, "outputs")
    /\ IF Is(r, Inferences)
       THEN /\ req' = [req EXCEPT ![r].pc = "infer", ![r].outputs = gen[req[r].servable], ![r].guard = FALSE]
            /\ UNCHANGED metrics
       ELSE /\ req' = [req EXCEPT ![r].pc = End(r), ![r].guard = FALSE, ![r].status = "OK",
                                  ![r].outputs = gen[req[r].servable]]
            /\ Increment(r, req[r].servable, TRUE)
    /\ UNCHANGED manager

\* TFSRestParser: the body is read against the inputs fetched for it.
Parse_KeepsGuard(r) ==
    /\ At(r, "parse")
    /\ \/ Goto(r, IF Name(r) \in models THEN "infer" ELSE "wait") /\ UNCHANGED metrics
       \/ /\ req' = [req EXCEPT ![r].pc = "done", ![r].status = "JSON_INVALID"]
          /\ Increment(r, req[r].servable, FALSE)
    /\ UNCHANGED manager

Parse(r) ==
    /\ At(r, "parse")
    /\ \/ Goto(r, IF Name(r) \in models THEN "infer" ELSE "wait") /\ UNCHANGED metrics
       \/ /\ Answer(r, "JSON_INVALID")
          /\ Increment(r, req[r].servable, FALSE)
    /\ UNCHANGED manager

\* The entry node validates the names, shapes and precisions of the request
\* against the inputs it was created with.  What was parsed for an earlier
\* definition passes when the later one takes the same.
Fits(r) ==
    Is(r, {"Predict"}) /\ Rest(r) /\ Name(r) \in pipelines =>
        <<req[r].parsedFor, req[r].inputs>> \in Accepts[Name(r)]

\* A model's inputs and outputs are read while it infers; a pipeline's are in
\* its entry and exit nodes.
Reads(r, kept) == IF Name(r) \in models THEN gen[req[r].servable] ELSE kept

Runs(r) ==
    /\ Fits(r)
    /\ req' = [req EXCEPT ![r].pc = End(r), ![r].guard = FALSE, ![r].status = "OK", ![r].ran = "OK",
                          ![r].inputs = Reads(r, @), ![r].outputs = Reads(r, @)]

\* infer or execute, with its two outcomes, and the counter after it.
Infer_CountsFailuresOnly(r) ==
    /\ At(r, "infer")
    /\ \/ Runs(r) /\ UNCHANGED metrics
       \/ /\ req' = [req EXCEPT ![r].pc = "done", ![r].status = "FAILED", ![r].ran = "FAILED", ![r].guard = FALSE]
          /\ Increment(r, req[r].servable, FALSE)
    /\ UNCHANGED manager

Infer(r) ==
    /\ At(r, "infer")
    /\ \/ Runs(r) /\ Increment(r, req[r].servable, TRUE)
       \/ /\ req' = [req EXCEPT ![r].pc = "done", ![r].status = "FAILED", ![r].ran = "FAILED", ![r].guard = FALSE]
          /\ Increment(r, req[r].servable, FALSE)
    /\ UNCHANGED manager

\* makeJsonFromPredictResponse: what fails here was counted as a success.
MakeJson(r) ==
    /\ At(r, "json") /\ Is(r, Inferences)
    /\ \E status \in {"OK", "JSON_SERIALIZATION_ERROR"} : Answer(r, status)
    /\ UNCHANGED <<manager, metrics>>

\* The REST side of the other calls: the response as JSON, or of ModelReady
\* only the answer that is in it.
ProcessModelMetadata(r) ==
    /\ At(r, "json") /\ Is(r, {"TfsMetadata"})
    /\ \E status \in {"OK", "JSON_SERIALIZATION_ERROR"} : Answer(r, status)
    /\ UNCHANGED <<manager, metrics>>

ProcessModelMetadataKFS(r) ==
    /\ At(r, "json") /\ Is(r, {"KfsMetadata"})
    /\ \E status \in {"OK", "JSON_SERIALIZATION_ERROR"} : Answer(r, status)
    /\ UNCHANGED <<manager, metrics>>

ProcessModelStatus(r) ==
    /\ At(r, "json") /\ Is(r, {"Status"})
    /\ \E status \in {"OK", "JSON_SERIALIZATION_ERROR"} : Answer(r, status)
    /\ UNCHANGED <<manager, metrics>>

ProcessModelReadyKFS(r) ==
    /\ At(r, "json") /\ Is(r, {"Ready"})
    /\ Answer(r, IF req[r].status = "OK" THEN "OK" ELSE "MODEL_VERSION_NOT_LOADED_YET")
    /\ UNCHANGED <<manager, metrics>>

\* buildResponse of ModelReady and of GetModelStatus: the state, as it is now.
BuildResponse(r) ==
    /\ At(r, "wait") /\ Is(r, {"Ready", "Status"})
    /\ req' = [req EXCEPT ![r].pc = End(r), ![r].guard = FALSE,
                          ![r].status = IF Is(r, {"Ready"}) /\ state[req[r].servable] # "AVAILABLE"
                                          THEN "NOT_READY" ELSE "OK"]
    /\ Increment(r, req[r].servable, TRUE)
    /\ UNCHANGED manager

\* GetModelStatus without a version: every version, counted once if there is one.
StatusOfAllVersions(r) ==
    /\ At(r, "statusAll")
    /\ \/ /\ Registered(Name(r)) = {}
          /\ req' = [req EXCEPT ![r].pc = End(r), ![r].guard = FALSE, ![r].status = "OK"]
          /\ UNCHANGED metrics
       \/ \E v \in Registered(Name(r)) :
          /\ \A w \in Registered(Name(r)) : v <= w
          /\ req' = [req EXCEPT ![r].pc = End(r), ![r].guard = FALSE, ![r].status = "OK",
                                ![r].servable = <<Name(r), v>>]
          /\ Increment(r, <<Name(r), v>>, TRUE)
    /\ UNCHANGED manager

\* getAllModelsStatuses: a shared lock for the whole loop over the models, in
\* which getModelStatus takes the same lock again; then the pipelines.
LockModels(r) ==
    /\ At(r, "lockAll") /\ CanLockShared(r)
    /\ Goto(r, "all")
    /\ UNCHANGED <<manager, metrics>>

StatusOfModel(r) ==
    /\ At(r, "all") /\ CanLockShared(r)
    /\ \E n \in models \ req[r].listed : req' = [req EXCEPT ![r].listed = @ \cup {n}]
    /\ UNCHANGED <<manager, metrics>>

UnlockModels(r) ==
    /\ At(r, "all") /\ models \subseteq req[r].listed
    /\ Goto(r, "allPipelines")
    /\ UNCHANGED <<manager, metrics>>

StatusOfPipelines(r) ==
    /\ At(r, "allPipelines")
    /\ req' = [req EXCEPT ![r].pc = "done", ![r].status = "OK", ![r].listed = @ \cup pipelines]
    /\ UNCHANGED <<manager, metrics>>

Thread(r) ==
    \/ ModelExists(r) \/ PipelineExists(r) \/ GetPipelineInputs(r)
    \/ PrepareGrpcRequest(r) \/ GetReporter(r)
    \/ ValidateMetadata(r) \/ FindModelByName(r) \/ GetInstance(r) \/ FindDefinition(r)
    \/ WaitForLoaded(r) \/ WaitForMetadata(r) \/ ReadInputs(r) \/ ReadOutputs(r)
    \/ Parse(r) \/ Infer(r) \/ MakeJson(r)
    \/ ProcessModelMetadata(r) \/ ProcessModelMetadataKFS(r) \/ ProcessModelStatus(r)
    \/ ProcessModelReadyKFS(r)
    \/ BuildResponse(r) \/ StatusOfAllVersions(r)
    \/ LockModels(r) \/ StatusOfModel(r) \/ UnlockModels(r) \/ StatusOfPipelines(r)

Init ==
    /\ models = {} /\ pipelines = {} /\ modelsMtx = "idle"
    /\ state = [s \in Servables |-> "NONE"]
    /\ gen = [s \in Servables |-> 0]
    /\ metrics = [k \in Servables \X Apis \X Interfaces \X BOOLEAN |-> 0]
    /\ req = [r \in Requests |->
                [pc |-> "idle", api |-> None, interface |-> None, name |-> None, version |-> 0, servable |-> NoServable,
                 guard |-> FALSE, parsedFor |-> 0, inputs |-> 0, outputs |-> 0, ran |-> None,
                 status |-> None, earlier |-> {}, listed |-> {}]]

Next ==
    \/ Manager
    \/ \E r \in Requests :
        \/ \E api \in Apis : 
            \E i \in InterfacesOf(api), n \in NamesOf(api) :
                \E v \in VersionsOf(api, i) : Arrive(r, api, i, n, v)
        \/ Thread(r)

\* Every request thread runs, a mutex that is free is taken and given back,
\* and an instance without guards is unloaded.
Fairness ==
    /\ \A r \in Requests : WF_vars(Thread(r))
    /\ WF_vars(ModelAdded)
    /\ \A s \in Servables : WF_vars(Unload(s))

Spec == Init /\ [][Next]_vars /\ Fairness

-----------------------------------------------------------------------------
\* Properties

\* The shape of the state: a guard is held on a servable of the request, and
\* a name is a model's or a pipeline's.
TypeOK ==
    /\ models \cap pipelines = {} /\ models \cup pipelines \subseteq Names
    /\ modelsMtx \in {"idle", "waiting", "holding"}
    /\ state \in [Servables -> States] /\ gen \in [Servables -> Nat]
    /\ metrics \in [Servables \X Apis \X Interfaces \X BOOLEAN -> 0..Cardinality(Requests)]
    /\ \A r \in Requests : req[r].guard => req[r].servable \in Servables

Done(r) == At(r, "done")

\* The counters tell the truth about the inferences: once no request is under
\* way, what a servable counted as successes are the requests that ran there
\* to the end, and what it counted as failures are the ones that failed after
\* they had found it - each of them once, whatever way they failed.
CountedOnce ==
    (\A r \in Requests : req[r].pc \in {"idle", "done"}) =>
        \A s \in Servables, api \in Inferences, i \in Interfaces :
            LET found == {r \in Requests :
                            Done(r) /\ req[r].api = api /\ req[r].interface = i /\ req[r].servable = s}
                good == {r \in found : req[r].ran = "OK"}
            IN  /\ metrics[<<s, api, i, TRUE>>] = Cardinality(good)
                /\ metrics[<<s, api, i, FALSE>>] = Cardinality(found \ good)

\* What was there when the request arrived is found, in spite of lookups in
\* several steps: its name is never reported missing, and the status of the
\* configuration lists every model and every pipeline.
FindsWhatWasThere ==
    \A r \in Requests :
        /\ req[r].status = "MODEL_NAME_MISSING" => Name(r) \notin req[r].earlier
        /\ Done(r) /\ Is(r, {"ConfigStatus"}) => req[r].earlier \subseteq req[r].listed

\* The inputs and the outputs in one metadata response, and the entry and the
\* exit node of one pipeline, come from the same load of the servable.  A REST
\* request for a model runs on the load it was parsed for, because the guard
\* is kept while the body is parsed; one for a pipeline, whose guard is not
\* kept, may run on a later definition, but then on one whose inputs and
\* outputs belong together and which takes what was parsed for the earlier.
OneGeneration ==
    \A r \in Requests :
        /\ req[r].outputs # 0 => req[r].inputs = req[r].outputs
        /\ req[r].ran = "OK" /\ Is(r, {"Predict"}) /\ Rest(r) =>
             IF Name(r) \in models THEN req[r].parsedFor = req[r].outputs
             ELSE <<req[r].parsedFor, req[r].outputs>> \in Accepts[Name(r)]

\* Every request is answered, even when a thread that holds modelsMtx takes it
\* again while a writer waits for it; and a servable that is retired is
\* unloaded, because no answered request keeps its guard.
Progress ==
    /\ \A r \in Requests : ~At(r, "idle") ~> Done(r)
    /\ \A s \in Servables : state[s] = "UNLOADING" ~> state[s] # "UNLOADING"
=============================================================================
