--------------------------- MODULE ModelInstance ----------------------------
(***************************************************************************)
(* One served version of one model: ModelInstance (src/src/modelinstance   *)
(* .cpp) with its ModelVersionStatus and ModelInstanceUnloadGuard.         *)
(*                                                                         *)
(* Two kinds of threads meet here.  The manager thread (it holds the       *)
(* manager's configMtx, so there is one at a time) loads, reloads, retires *)
(* and cleans up the instance.  Predict threads wait until the instance is *)
(* available, infer, and reload it themselves when the request needs       *)
(* another batch size and the configuration says "auto".                   *)
(*                                                                         *)
(* What protects the ov::Model, the ov::CompiledModel and the queue of     *)
(* inference requests from being replaced under a running inference is     *)
(* not a lock: a predict thread raises predictRequestsHandlesCount and     *)
(* then reads the status; a loading thread changes the status and then     *)
(* waits until the count is zero.  loadingMutex only orders the loading    *)
(* threads.                                                                *)
(***************************************************************************)
EXTENDS Integers, FiniteSets

CONSTANTS
    Predicts,       \* threads that serve predict requests
    Batches,        \* batch sizes a request or a configuration may ask for
    Native,         \* the batch size of a model as it is read from its file
    Configs,        \* configurations the config file may hold, see ConfigType
    Paths,          \* model directories
    IRPaths,        \* the ones that hold a model in the OpenVINO IR format
    Layouts,        \* layout settings
    Loaders,        \* names of custom loaders
    AutoBatch,      \* batch_size: auto
    None,           \* absent value
    Checkpoints,    \* waitCheckpoints: polls before waitForLoaded gives up
    LoadsMayFail    \* whether loading can fail

ConfigType == [path : Paths, layout : Layouts, batch : Batches \cup {AutoBatch},
               loader : Loaders \cup {None}]
Loaded == [path : Paths, batch : Batches]

ASSUME PredictsAssumption == IsFiniteSet(Predicts)
ASSUME BatchesAssumption == Native \in Batches /\ AutoBatch \notin Batches /\ None \notin Batches
ASSUME ConfigsAssumption == Configs \subseteq ConfigType
ASSUME PathsAssumption == IRPaths \subseteq Paths /\ None \notin Paths /\ "bad" \notin Paths
ASSUME NoneAssumption == None \notin Configs /\ None \notin Loaded /\ None \notin Predicts
ASSUME CheckpointsAssumption == Checkpoints \in Nat
ASSUME LoadsMayFailAssumption == LoadsMayFail \in BOOLEAN

States == {"START", "LOADING", "AVAILABLE", "UNLOADING", "END"}
ErrorCodes == {"OK", "UNKNOWN"}
Manager == "manager"

ASSUME ManagerAssumption == Manager \notin Predicts /\ Manager # None

VARIABLES
    state, errorCode,               \* ModelVersionStatus
    config,                         \* this->config
    isCustomLoaderConfigChanged,
    modelFile,                      \* modelFiles[0]: None when empty, "bad" for a missing file
    model, compiledModel,           \* what was read and compiled, or None
    inferRequestsQueue,             \* the compiled model the requests belong to, or None
    predictRequestsHandlesCount,
    loadingMutex,                   \* Manager, a predict thread, or None
    stage,                          \* where the owner of loadingMutex is
    job,                            \* what it does: configuration, batch size, attempt
    order,                          \* what the manager has decided to do, or None
    pc, batch, checks               \* per predict thread: place, request, polls left

status == <<state, errorCode>>
components == <<modelFile, model, compiledModel, inferRequestsQueue>>
predict == <<pc, batch, checks>>
vars == <<state, errorCode, config, isCustomLoaderConfigChanged, modelFile, model,
          compiledModel, inferRequestsQueue, predictRequestsHandlesCount, loadingMutex,
          stage, job, order, pc, batch, checks>>

\* Where a predict thread can be; in the second and third set it has a guard.
Places == {"idle", "check", "wait", "recheck", "giveUp", "validate", "lock", "reload", "infer"}
Guarding == {"check", "recheck", "validate", "infer"}
Using == {"validate", "infer"}

\* Where the owner of loadingMutex can be.
Stages == {"none", "drain", "drainToUnload", "unload", "fetch", "read", "tensors",
           "compile", "queue", "loaded", "failed"}
\* The stages in which it writes the components.
Touching == {"unload", "fetch", "read", "tensors", "compile", "queue"}

\* What follows unloadModelComponents: reloadModel, loadModelImpl, setEnd, return.
Afters == {"reload", "impl", "end", "return"}
Attempts == {"manager", "dynamic", "full", "recovery"}
NoJob == [cfg |-> None, batch |-> None, attempt |-> "manager", after |-> "return"]

Init ==
    /\ state = "START" /\ errorCode = "OK"
    /\ config \in Configs
    /\ isCustomLoaderConfigChanged = FALSE
    /\ modelFile = None /\ model = None /\ compiledModel = None /\ inferRequestsQueue = None
    /\ predictRequestsHandlesCount = 0
    /\ loadingMutex = None /\ stage = "none" /\ job = NoJob
    /\ order = None
    /\ pc = [p \in Predicts |-> "idle"]
    /\ batch = [p \in Predicts |-> Native]
    /\ checks = [p \in Predicts |-> 0]

SetStatus(s, e) == state' = s /\ errorCode' = e
Goto(p, place) == pc' = [pc EXCEPT ![p] = place]
WillEndUnloaded == state \in {"UNLOADING", "END"}
IsFailedLoading == state = "LOADING" /\ errorCode = "UNKNOWN"
CanUnloadInstance == predictRequestsHandlesCount = 0
TakeGuard == predictRequestsHandlesCount' = predictRequestsHandlesCount + 1
DropGuard == predictRequestsHandlesCount' = predictRequestsHandlesCount - 1

(***************************************************************************)
(* The manager decides from what it reads without loadingMutex, and acts   *)
(* once it has it.                                                         *)
(***************************************************************************)

\* ModelManager::getVersionsToChange puts the version on the list to reload.
DecideReload(c) ==
    /\ order = None
    /\ state # "START"
    /\ WillEndUnloaded \/ IsFailedLoading \/ c # config
    /\ order' = [op |-> "reload", cfg |-> c]
    /\ isCustomLoaderConfigChanged' =
           (isCustomLoaderConfigChanged \/ c.loader # config.loader)
    /\ UNCHANGED <<status, config, components, predictRequestsHandlesCount, loadingMutex,
                   stage, job, predict>>

\* Model::addVersion, retireVersions or retireAllVersions, and
\* cleanupFailedLoad or cleanupAllVersions are about to call the instance.
Decide(op) ==
    /\ order = None
    /\ (op = "load") <=> (state = "START")
    /\ order' = [op |-> op, cfg |-> config]
    /\ UNCHANGED <<status, config, isCustomLoaderConfigChanged, components,
                   predictRequestsHandlesCount, loadingMutex, stage, job, predict>>

Lock(t, first, j) ==
    /\ loadingMutex = None
    /\ loadingMutex' = t
    /\ stage' = first
    /\ job' = j

\* loadModel: the first load, which has nobody to wait for.
LoadModel ==
    /\ order # None /\ order.op = "load"
    /\ Lock(Manager, "fetch", [NoJob EXCEPT !.cfg = order.cfg])
    /\ SetStatus("LOADING", "OK")
    /\ UNCHANGED <<config, isCustomLoaderConfigChanged, components,
                   predictRequestsHandlesCount, order, predict>>

\* Wrong variant: the status is left alone while the instance is drained.
ReloadModel_StaysAvailable ==
    /\ order # None /\ order.op = "reload"
    /\ Lock(Manager, "drain", [NoJob EXCEPT !.cfg = order.cfg])
    /\ UNCHANGED <<status, config, isCustomLoaderConfigChanged, components,
                   predictRequestsHandlesCount, order, predict>>

\* reloadModel(config): the status is changed, then the instance is drained.
ReloadModel ==
    /\ order # None /\ order.op = "reload"
    /\ Lock(Manager, "drain", [NoJob EXCEPT !.cfg = order.cfg])
    /\ SetStatus("LOADING", "OK")
    /\ UNCHANGED <<config, isCustomLoaderConfigChanged, components,
                   predictRequestsHandlesCount, order, predict>>

\* retireModel(true)
RetireModel ==
    /\ order # None /\ order.op = "retire"
    /\ Lock(Manager, "drainToUnload", [NoJob EXCEPT !.after = "end"])
    /\ SetStatus("UNLOADING", "OK")
    /\ UNCHANGED <<config, isCustomLoaderConfigChanged, components,
                   predictRequestsHandlesCount, order, predict>>

CleanupFailedLoad ==
    /\ order # None /\ order.op = "cleanup"
    /\ Lock(Manager, "drainToUnload", NoJob)
    /\ SetStatus("LOADING", "UNKNOWN")
    /\ UNCHANGED <<config, isCustomLoaderConfigChanged, components,
                   predictRequestsHandlesCount, order, predict>>

\* reloadModel(batchSize, requestShapes, unloadGuard) gets loadingMutex.  It
\* reloads this->config as it is now, not as it was when the request was
\* validated.
ReloadModelDynamic(p) ==
    /\ pc[p] = "lock"
    /\ Lock(p, "drain", [NoJob EXCEPT !.cfg = config, !.batch = batch[p], !.attempt = "dynamic"])
    /\ SetStatus("LOADING", "OK")
    /\ Goto(p, "reload")
    /\ UNCHANGED <<config, isCustomLoaderConfigChanged, components,
                   predictRequestsHandlesCount, order, batch, checks>>

(***************************************************************************)
(* The owner of loadingMutex waits until no predict thread has a guard.    *)
(***************************************************************************)

\* The wait in reloadModel is over; a changed custom loader unloads first.
Drained ==
    /\ stage = "drain"
    /\ CanUnloadInstance
    /\ LET unloadFirst == config.loader # None /\ isCustomLoaderConfigChanged
       IN  /\ stage' = IF unloadFirst THEN "drainToUnload" ELSE "fetch"
           /\ isCustomLoaderConfigChanged' = (isCustomLoaderConfigChanged /\ ~unloadFirst)
           /\ job' = [job EXCEPT !.after = IF unloadFirst THEN "impl" ELSE @]
    /\ UNCHANGED <<status, config, components, predictRequestsHandlesCount,
                   loadingMutex, order, predict>>

\* The wait in unloadModelComponents is over.
DrainedToUnload ==
    /\ stage = "drainToUnload"
    /\ CanUnloadInstance
    /\ stage' = "unload"
    /\ UNCHANGED <<status, config, isCustomLoaderConfigChanged, components,
                   predictRequestsHandlesCount, loadingMutex, job, order, predict>>

\* Returning from the outermost loading call releases loadingMutex.
Unlock ==
    /\ loadingMutex' = None
    /\ stage' = "none"
    /\ job' = NoJob
    /\ order' = IF loadingMutex = Manager THEN None ELSE order

\* The rest of unloadModelComponents, and what its caller does next:
\* retireModel(true) sets END, retireModel(false) goes on to reloadModel or,
\* from within reloadModel, to loadModelImpl.
UnloadModelComponents ==
    /\ stage = "unload"
    /\ model' = None /\ compiledModel' = None /\ inferRequestsQueue' = None
    /\ modelFile' = None
    /\ \/ /\ job.after \in {"end", "return"}
          /\ IF job.after = "end" THEN SetStatus("END", "OK") ELSE UNCHANGED status
          /\ Unlock
       \/ /\ job.after = "reload" /\ SetStatus("LOADING", "OK")
          /\ stage' = "drain" /\ UNCHANGED <<loadingMutex, job, order>>
       \/ /\ job.after = "impl"
          /\ stage' = "fetch" /\ UNCHANGED <<status, loadingMutex, job, order>>
    /\ UNCHANGED <<config, isCustomLoaderConfigChanged, predictRequestsHandlesCount, predict>>

(***************************************************************************)
(* loadModelImpl, one step per component it produces.  Every step may fail *)
(* (files, device, OpenVINO exceptions, nireq out of range), which leaves  *)
(* what earlier steps produced in place.                                   *)
(***************************************************************************)

Fail == LoadsMayFail /\ stage' = "failed" /\ SetStatus("LOADING", "UNKNOWN")
Step(next) == stage' = next /\ UNCHANGED status

\* this->config, fetchModelFilepaths and setCacheOptions.  The file names of
\* an IR model are appended to modelFiles, those of another format replace
\* it; a directory without model files leaves unusable names behind.  The
\* model is read only when there is none or the layout setting changed.
FetchModelFiles ==
    LET fetched == IF job.cfg.path \in IRPaths /\ modelFile # None THEN modelFile
                   ELSE job.cfg.path
        readNeeded == model = None \/ job.cfg.layout # config.layout
    IN  /\ stage = "fetch"
        /\ config' = job.cfg
        /\ \/ /\ Step(IF readNeeded THEN "read" ELSE "tensors")
              /\ modelFile' = IF job.cfg.loader # None THEN modelFile ELSE fetched
           \/ /\ Fail
              /\ modelFile' \in IF job.cfg.loader # None THEN {modelFile}
                                ELSE {modelFile, fetched, "bad"}
        /\ UNCHANGED <<isCustomLoaderConfigChanged, model, compiledModel, inferRequestsQueue,
                       predictRequestsHandlesCount, loadingMutex, job, order, predict>>

\* loadOVModel reads modelFiles[0]; a custom loader reads the configured path.
ReadModel ==
    LET file == IF config.loader # None THEN config.path ELSE modelFile
    IN  /\ stage = "read"
        /\ \/ /\ file # "bad"
              /\ model' = [path |-> file, batch |-> Native]
              /\ Step("tensors")
           \/ Fail /\ UNCHANGED model
        /\ UNCHANGED <<config, isCustomLoaderConfigChanged, modelFile, compiledModel,
                       inferRequestsQueue, predictRequestsHandlesCount, loadingMutex, job,
                       order, predict>>

\* Wrong variant: the batch size of the request is forgotten.
LoadTensors_ConfiguredOnly ==
    LET reshaped == [model EXCEPT !.batch = IF config.batch # AutoBatch THEN config.batch ELSE @]
    IN  /\ stage = "tensors"
        /\ \/ Step("compile") /\ model' = reshaped
           \/ Fail /\ model' \in {model, reshaped}
        /\ UNCHANGED <<config, isCustomLoaderConfigChanged, modelFile, compiledModel,
                       inferRequestsQueue, predictRequestsHandlesCount, loadingMutex, job,
                       order, predict>>

\* loadTensors with configureBatchSize: the requested batch size wins over
\* the configured one; "auto" without a request leaves the model as it is.
LoadTensors ==
    LET reshaped == [model EXCEPT !.batch =
                        IF job.batch # None THEN job.batch
                        ELSE IF config.batch # AutoBatch THEN config.batch
                        ELSE @]
    IN  /\ stage = "tensors"
        /\ \/ Step("compile") /\ model' = reshaped
           \/ Fail /\ model' \in {model, reshaped}
        /\ UNCHANGED <<config, isCustomLoaderConfigChanged, modelFile, compiledModel,
                       inferRequestsQueue, predictRequestsHandlesCount, loadingMutex, job,
                       order, predict>>

\* Wrong variant: the version is announced as available too early.
CompileModel_AnnouncesEarly ==
    /\ stage = "compile"
    /\ stage' = "queue" /\ compiledModel' = model /\ SetStatus("AVAILABLE", "OK")
    /\ UNCHANGED <<config, isCustomLoaderConfigChanged, modelFile, model,
                   inferRequestsQueue, predictRequestsHandlesCount, loadingMutex, job,
                   order, predict>>

\* loadOVCompiledModel
CompileModel ==
    /\ stage = "compile"
    /\ \/ Step("queue") /\ compiledModel' = model
       \/ Fail /\ UNCHANGED compiledModel
    /\ UNCHANGED <<config, isCustomLoaderConfigChanged, modelFile, model,
                   inferRequestsQueue, predictRequestsHandlesCount, loadingMutex, job,
                   order, predict>>

\* prepareInferenceRequestsQueue, then setAvailable and notify_all.
PrepareQueue ==
    /\ stage = "queue"
    /\ \/ /\ inferRequestsQueue' = compiledModel
          /\ stage' = "loaded"
          /\ SetStatus("AVAILABLE", "OK")
       \/ Fail /\ UNCHANGED inferRequestsQueue
    /\ UNCHANGED <<config, isCustomLoaderConfigChanged, modelFile, model, compiledModel,
                   predictRequestsHandlesCount, loadingMutex, job, order, predict>>

(***************************************************************************)
(* What follows loadModelImpl.                                             *)
(***************************************************************************)

\* The manager's load or reload returns, with whatever status.
ReturnToManager ==
    /\ stage \in {"loaded", "failed"}
    /\ job.attempt = "manager"
    /\ Unlock
    /\ UNCHANGED <<status, config, isCustomLoaderConfigChanged, components,
                   predictRequestsHandlesCount, predict>>

\* The predict thread's reload worked: it takes a guard again before it
\* releases loadingMutex, and goes on to infer.
DynamicReloadDone(p) ==
    /\ loadingMutex = p
    /\ stage = "loaded"
    /\ job.attempt \in {"dynamic", "full"}
    /\ TakeGuard
    /\ Goto(p, "infer")
    /\ Unlock
    /\ UNCHANGED <<status, config, isCustomLoaderConfigChanged, components, batch, checks>>

\* It failed: reshapeWithFullReload unloads and tries again with the same
\* batch size; when that fails too, recoverFromReloadingError unloads and
\* reloads without it.
RetryReload(p) ==
    /\ loadingMutex = p
    /\ stage = "failed"
    /\ job.attempt \in {"dynamic", "full"}
    /\ job' = IF job.attempt = "dynamic"
              THEN [job EXCEPT !.attempt = "full", !.after = "reload"]
              ELSE [job EXCEPT !.attempt = "recovery", !.after = "reload",
                               !.batch = None, !.cfg = config]
    /\ SetStatus("LOADING", "OK")
    /\ stage' = "drainToUnload"
    /\ UNCHANGED <<config, isCustomLoaderConfigChanged, components,
                   predictRequestsHandlesCount, loadingMutex, order, predict>>

\* The recovery, whether it worked or not, answers the request with an error.
RecoveryDone(p) ==
    /\ loadingMutex = p
    /\ stage \in {"loaded", "failed"}
    /\ job.attempt = "recovery"
    /\ Goto(p, "idle")
    /\ Unlock
    /\ UNCHANGED <<status, config, isCustomLoaderConfigChanged, components,
                   predictRequestsHandlesCount, batch, checks>>

(***************************************************************************)
(* Predict threads                                                         *)
(***************************************************************************)

manager == <<status, config, isCustomLoaderConfigChanged, components, loadingMutex,
             stage, job, order>>

\* A request arrives and waitForLoaded takes a guard before it looks.
Arrive(p, b) ==
    /\ pc[p] = "idle"
    /\ TakeGuard
    /\ batch' = [batch EXCEPT ![p] = b]
    /\ Goto(p, "check")
    /\ UNCHANGED <<manager, checks>>

\* The instance is available: the guard is kept.
FindAvailable(p) ==
    /\ pc[p] \in {"check", "recheck"}
    /\ state = "AVAILABLE"
    /\ Goto(p, "validate")
    /\ checks' = [checks EXCEPT ![p] = 0]
    /\ UNCHANGED <<manager, predictRequestsHandlesCount, batch>>

\* It is not: the guard is dropped.
FindUnavailable(p) ==
    /\ pc[p] \in {"check", "recheck"}
    /\ state # "AVAILABLE"
    /\ DropGuard
    /\ IF pc[p] = "check"
       THEN Goto(p, "wait") /\ checks' = [checks EXCEPT ![p] = Checkpoints]
       ELSE Goto(p, "giveUp") /\ UNCHANGED checks
    /\ UNCHANGED <<manager, batch>>

\* modelLoadedNotify.wait_for returns, notified or after 100 ms, and a guard
\* is taken for another look.
Poll(p) ==
    /\ pc[p] = "wait"
    /\ checks[p] > 0
    /\ TakeGuard
    /\ checks' = [checks EXCEPT ![p] = @ - 1]
    /\ Goto(p, "recheck")
    /\ UNCHANGED <<manager, batch>>

\* A version that is going away is not waited for any longer
\* (MODEL_VERSION_NOT_LOADED_ANYMORE).
GiveUp(p) ==
    /\ pc[p] = "giveUp"
    /\ IF WillEndUnloaded
       THEN Goto(p, "idle") /\ checks' = [checks EXCEPT ![p] = 0]
       ELSE Goto(p, "wait") /\ UNCHANGED checks
    /\ UNCHANGED <<manager, predictRequestsHandlesCount, batch>>

\* No polls left (MODEL_VERSION_NOT_LOADED_YET or _ANYMORE).
TimeOut(p) ==
    /\ pc[p] = "wait"
    /\ checks[p] = 0
    /\ Goto(p, "idle")
    /\ UNCHANGED <<manager, predictRequestsHandlesCount, batch, checks>>

\* validate(): the request fits the loaded model.
ValidateOK(p) ==
    /\ pc[p] = "validate"
    /\ model.batch = batch[p]
    /\ Goto(p, "infer")
    /\ UNCHANGED <<manager, predictRequestsHandlesCount, batch, checks>>

\* Wrong variant: the guard is kept while the thread reloads the model.
ReloadRequired_KeepsGuard(p) ==
    /\ pc[p] = "validate"
    /\ model.batch # batch[p]
    /\ config.batch = AutoBatch
    /\ Goto(p, "lock")
    /\ UNCHANGED <<manager, predictRequestsHandlesCount, batch, checks>>

\* It needs another batch size and the configuration says auto: the guard is
\* dropped, then loadingMutex asked for.
ReloadRequired(p) ==
    /\ pc[p] = "validate"
    /\ model.batch # batch[p]
    /\ config.batch = AutoBatch
    /\ DropGuard
    /\ Goto(p, "lock")
    /\ UNCHANGED <<manager, batch, checks>>

\* It does not fit a model with a fixed batch size: an error.
Invalid(p) ==
    /\ pc[p] = "validate"
    /\ model.batch # batch[p]
    /\ config.batch # AutoBatch
    /\ DropGuard
    /\ Goto(p, "idle")
    /\ UNCHANGED <<manager, batch, checks>>

\* performInference ends, or fails, and the guard is destroyed.
InferenceDone(p) ==
    /\ pc[p] = "infer"
    /\ DropGuard
    /\ Goto(p, "idle")
    /\ UNCHANGED <<manager, batch, checks>>

-----------------------------------------------------------------------------

Begin == LoadModel \/ ReloadModel \/ RetireModel \/ CleanupFailedLoad

Load == FetchModelFiles \/ ReadModel \/ LoadTensors \/ CompileModel \/ PrepareQueue

\* The steps of the thread that owns loadingMutex.
Loading ==
    \/ Drained \/ DrainedToUnload \/ UnloadModelComponents
    \/ Load
    \/ ReturnToManager
    \/ \E p \in Predicts : DynamicReloadDone(p) \/ RetryReload(p) \/ RecoveryDone(p)

\* The steps of a predict thread between its arrival and its answer, apart
\* from the ones that need loadingMutex.
Serve(p) ==
    \/ FindAvailable(p) \/ FindUnavailable(p) \/ Poll(p) \/ GiveUp(p) \/ TimeOut(p)
    \/ ValidateOK(p) \/ ReloadRequired(p) \/ Invalid(p) \/ InferenceDone(p)

Next ==
    \/ \E c \in Configs : DecideReload(c)
    \/ \E op \in {"load", "retire", "cleanup"} : Decide(op)
    \/ Begin
    \/ Loading
    \/ \E p \in Predicts : \/ \E b \in Batches : Arrive(p, b)
                           \/ ReloadModelDynamic(p)
                           \/ Serve(p)

Spec == Init /\ [][Next]_vars

(***************************************************************************)
(* Threads keep running, and a predict thread that waits for loadingMutex  *)
(* gets it if it keeps becoming free.  Requests need not arrive and the    *)
(* manager need not decide anything.                                       *)
(***************************************************************************)
Fairness ==
    /\ WF_vars(Begin)
    /\ WF_vars(Loading)
    /\ \A p \in Predicts : WF_vars(Serve(p)) /\ SF_vars(ReloadModelDynamic(p))

FairSpec == Spec /\ Fairness

-----------------------------------------------------------------------------
(***************************************************************************)
(* Correctness                                                             *)
(***************************************************************************)

Jobs == [cfg : Configs \cup {None}, batch : Batches \cup {None}, attempt : Attempts, after : Afters]
Orders == [op : {"load", "reload", "retire", "cleanup"}, cfg : Configs]

\* The variables of the instance have their types; in particular the handles
\* count, an unsigned counter in the code, never goes below zero.
TypeOK ==
    /\ state \in States /\ errorCode \in ErrorCodes
    /\ config \in Configs
    /\ isCustomLoaderConfigChanged \in BOOLEAN
    /\ modelFile \in Paths \cup {"bad", None}
    /\ model \in Loaded \cup {None}
    /\ compiledModel \in Loaded \cup {None}
    /\ inferRequestsQueue \in Loaded \cup {None}
    /\ predictRequestsHandlesCount \in Nat
    /\ loadingMutex \in Predicts \cup {Manager, None}
    /\ stage \in Stages
    /\ job \in Jobs
    /\ order \in Orders \cup {None}
    /\ pc \in [Predicts -> Places]
    /\ batch \in [Predicts -> Batches]
    /\ checks \in [Predicts -> 0 .. Checkpoints]

\* While a thread writes the components, no predict thread reads them: the
\* order "raise the count, read the status" in waitForLoaded against "set the
\* status, wait for count zero" in reloadModel and unloadModelComponents.
NoUseWhileLoading ==
    stage \in Touching => \A p \in Predicts : pc[p] \notin Using

\* A running inference uses a queue of the loaded model, with the batch size
\* its request has, whatever other requests and the manager did since it was
\* validated or since its own reload (modelinstance.cpp infer).
InferenceFitsModel ==
    \A p \in Predicts :
        pc[p] = "infer" => /\ inferRequestsQueue # None
                           /\ inferRequestsQueue.batch = batch[p]
                           /\ inferRequestsQueue = model

\* An available version has its model, compiled model and queue, and they
\* belong together (loadModelImpl).
AvailableIsComplete ==
    state = "AVAILABLE" => /\ model # None
                           /\ compiledModel = model
                           /\ inferRequestsQueue = model

\* A version that reached END keeps no model in memory (retireModel).
EndIsUnloaded ==
    state = "END" => model = None /\ compiledModel = None /\ inferRequestsQueue = None

\* From some time on no new request arrives.  Requests that keep arriving can
\* keep predictRequestsHandlesCount above zero at every moment the loading
\* thread samples it, each of them holding a guard only to find the version
\* unavailable.
Calm == <>[][\A p \in Predicts : pc[p] = "idle" => pc'[p] = "idle"]_vars

\* Once requests pause, every request is answered and what the manager decided
\* is carried out: waiting is bounded, no reload waits for a guard that waits
\* for the reload, and no guard that waitForLoaded, validation or a reload took
\* is left behind.
Progress ==
    Calm => /\ \A p \in Predicts : pc[p] # "idle" ~> pc[p] = "idle"
            /\ order # None ~> order = None
=============================================================================
