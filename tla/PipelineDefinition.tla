------------------------- MODULE PipelineDefinition -------------------------
(***************************************************************************)
(* One pipeline definition: its state machine, its validation, reload and  *)
(* retirement by the manager, the requests that create pipelines from it   *)
(* and the changes of the model that its nodes use.                        *)
(* (pipelinedefinition.cpp, pipelinedefinitionstatus.hpp,                  *)
(* pipeline_factory.cpp, modelchangesubscription.cpp, and the loop of      *)
(* ModelManager::watcher around them)                                      *)
(*                                                                         *)
(* The manager is one thread: it holds configMtx through a whole cycle.    *)
(* Threads of two other kinds run beside it.  A request creates a pipeline *)
(* and holds an unload guard of the definition meanwhile.  A request to    *)
(* the used model may reload that model dynamically, which notifies the    *)
(* definitions that subscribed to the version.                             *)
(***************************************************************************)
EXTENDS Integers, FiniteSets

CONSTANTS
    Requests,       \* threads that create pipelines
    Checkpoints,    \* waitCheckpoints: looks at the status before giving up
    Metas,          \* inputs and outputs that a version of the model may have
    CustomNodes,    \* names of custom nodes
    Configs,        \* definitions the pipeline may have in the configuration
    None

ASSUME RequestsAssumption == IsFiniteSet(Requests)
ASSUME CheckpointsAssumption == Checkpoints \in Nat
ASSUME MetasAssumption == "absent" \notin Metas /\ "down" \notin Metas
ASSUME ConfigsAssumption ==
    /\ None \notin Configs
    /\ Configs \subseteq [fits : SUBSET Metas, versioned : BOOLEAN, custom : SUBSET CustomNodes]

(***************************************************************************)
(* A definition: with which models its connections are valid (a definition *)
(* that is wrong in itself fits none), whether it names a version of the   *)
(* model, and its custom nodes.                                            *)
(*                                                                         *)
(* The used model: whether it is known to the manager and its parameters   *)
(* are automatic, and what has become of the version in question: it was   *)
(* never loaded, it is not available, or it is and has some metadata.      *)
(***************************************************************************)
UsedModels == [known : BOOLEAN, auto : BOOLEAN, version : {"absent", "down"} \cup Metas]

VARIABLES
    status,         \* PipelineDefinitionStatus
    exists,         \* the definition is in PipelineFactory::definitions
    nodeInfos,      \* nodeInfos and connections
    nodeResources,  \* custom nodes with an initialized library resource
    inputsInfo,     \* the definition and the model it was computed from
    outputsInfo,
    subscribed,     \* the definition is among the model's subscribers
    requestsHandlesCounter,
    occupied,       \* a model has the pipeline's name
    mpc,            \* where the manager is
    cycle,          \* what validate() was called for: "load" or "update"
    target,         \* the definition in the new configuration, None if removed
    gated,          \* gatedModelConfigs holds the model
    model,          \* the used model
    reloading,      \* a dynamic reload by a request
    notice,         \* the status it found when it began to notify, or None
    pc, checks,     \* the requests that create pipelines
    thrown,         \* the manager attempted an invalid transition
    unnoticed,      \* a dynamic reload went unnoticed since validation began
    overwritten     \* a notification overwrote a change of the manager's

definition == <<exists, nodeInfos, nodeResources, inputsInfo, outputsInfo>>
managing == <<mpc, cycle, target, gated, occupied>>
requests == <<pc, checks, requestsHandlesCounter>>
used == <<model, reloading, notice>>
history == <<thrown, unnoticed, overwritten>>
vars == <<status, definition, subscribed, managing, used, requests, history>>

Init ==
    /\ status = "BEGIN"
    /\ exists = FALSE
    /\ nodeInfos = None
    /\ nodeResources = {}
    /\ inputsInfo = None
    /\ outputsInfo = None
    /\ subscribed = FALSE
    /\ requestsHandlesCounter = 0
    /\ occupied = FALSE
    /\ mpc = "idle"
    /\ cycle = "load"
    /\ target = None
    /\ gated = FALSE
    /\ model = [known |-> FALSE, auto |-> FALSE, version |-> "absent"]
    /\ reloading = "none"
    /\ notice = None
    /\ pc = [p \in Requests |-> "idle"]
    /\ checks = [p \in Requests |-> 0]
    /\ thrown = FALSE
    /\ unnoticed = FALSE
    /\ overwritten = FALSE

-----------------------------------------------------------------------------
(***************************************************************************)
(* The state machine                                                       *)
(***************************************************************************)
States == {"BEGIN", "RELOADING", "LOADING_PRECONDITION_FAILED",
           "LOADING_PRECONDITION_FAILED_REQUIRED_REVALIDATION",
           "AVAILABLE_REQUIRED_REVALIDATION", "AVAILABLE", "RETIRED"}

isRevalidationRequired ==
    status \in {"LOADING_PRECONDITION_FAILED_REQUIRED_REVALIDATION", "AVAILABLE_REQUIRED_REVALIDATION"}
isAvailable == status \in {"AVAILABLE", "AVAILABLE_REQUIRED_REVALIDATION"}
canEndLoaded ==
    isAvailable \/ status \in {"LOADING_PRECONDITION_FAILED_REQUIRED_REVALIDATION", "BEGIN", "RELOADING"}

\* The states in which each event is allowed; in the others handle() throws.
Reloadable == States \ {"BEGIN", "RELOADING"}
Retirable == States \ {"BEGIN", "RELOADING", "RETIRED"}
Notifiable == Retirable
Validatable == {"BEGIN", "RELOADING"} \cup
               {"LOADING_PRECONDITION_FAILED_REQUIRED_REVALIDATION", "AVAILABLE_REQUIRED_REVALIDATION"}

\* The manager raises an event: the status follows, or an exception ends the
\* server's manager thread.
Handle(allowed, next) ==
    IF status \in allowed
    THEN status' = next /\ UNCHANGED thrown
    ELSE thrown' = TRUE /\ UNCHANGED status

\* What UsedModelChangedEvent makes of a status that allows it.
AfterUsedModelChanged(s) ==
    IF s \in {"AVAILABLE", "AVAILABLE_REQUIRED_REVALIDATION"}
    THEN "AVAILABLE_REQUIRED_REVALIDATION"
    ELSE "LOADING_PRECONDITION_FAILED_REQUIRED_REVALIDATION"

-----------------------------------------------------------------------------
(***************************************************************************)
(* The used model                                                          *)
(***************************************************************************)

\* A model is never forgotten, nor is a version of it once it was loaded.
Successors ==
    {m \in UsedModels : /\ model.known => m.known
                        /\ model.version # "absent" => m.version # "absent"
                        /\ ~m.known => m.version = "absent" /\ ~m.auto}

\* The manager loads, reloads, retires or cleans up versions of the model.
\* Every subscriber is notified.  loadingMutex keeps it out of a version that
\* a request is reloading.
ManagerChanges(m) ==
    \/ m = model /\ UNCHANGED <<model, status, thrown>>
    \/ /\ m # model /\ reloading \notin {"notifying", "running"}
       /\ model' = m
       /\ IF subscribed THEN Handle(Notifiable, AfterUsedModelChanged(status))
          ELSE UNCHANGED <<status, thrown>>

\* A request to the model finds that it has to reload it, and waits for
\* loadingMutex.  By the time it has it, the configuration may be another.
QueueReload ==
    /\ reloading = "none" /\ model.version \in Metas /\ model.auto
    /\ reloading' = "queued"
    /\ UNCHANGED <<status, definition, subscribed, managing, model, notice, requests, history>>

Validating ==
    mpc \in {"initialize", "validateNodes", "updateInputs", "updateOutputs", "passed", "failed"}

\* Only definitions that name the version subscribe to the version itself.
NotifiedByVersion == subscribed /\ nodeInfos.versioned

\* An attempt to reload begins (after a failed one there is another): the
\* status of the version is LOADING and subscribers of the version are
\* notified.  handle() takes no lock: what follows from the status it finds
\* is written later, unless the event keeps the status.  A notification
\* during validation is absorbed.
StartReload ==
    /\ reloading \in {"queued", "running"} /\ model.version # "absent"
    /\ NotifiedByVersion => status \in Notifiable
    /\ model' = [model EXCEPT !.version = "down"]
    /\ IF NotifiedByVersion /\ ~isRevalidationRequired
       THEN reloading' = "notifying" /\ notice' = status
       ELSE reloading' = "running" /\ UNCHANGED notice
    /\ unnoticed' = (unnoticed \/ Validating \/ ~NotifiedByVersion)
    /\ UNCHANGED <<status, definition, subscribed, managing, requests, thrown, overwritten>>

WriteNotice ==
    /\ reloading = "notifying"
    /\ status' = AfterUsedModelChanged(notice)
    /\ overwritten' = (overwritten \/ status # notice)
    /\ reloading' = "running"
    /\ notice' = None
    /\ UNCHANGED <<definition, subscribed, managing, model, requests, thrown, unnoticed>>

\* The notification throws; the exception leaves the version in LOADING and
\* ends the request.
NotifyThrows ==
    /\ reloading \in {"queued", "running"} /\ model.version # "absent"
    /\ NotifiedByVersion /\ status \notin Notifiable
    /\ reloading' = "none"
    /\ model' = [model EXCEPT !.version = "down"]
    /\ unnoticed' = TRUE
    /\ UNCHANGED <<status, definition, subscribed, managing, notice, requests, thrown, overwritten>>

\* The reload ends with other inputs and outputs, or fails.
EndReload ==
    /\ reloading = "running"
    /\ reloading' = "none"
    /\ \E v \in {"down"} \cup Metas : model' = [model EXCEPT !.version = v]
    /\ UNCHANGED <<status, definition, subscribed, managing, notice, requests, history>>

-----------------------------------------------------------------------------
(***************************************************************************)
(* A cycle of the manager: loadConfig if the file changed, then            *)
(* updateConfigurationWithoutConfigFile                                    *)
(***************************************************************************)

\* loadModelsConfig.  A subscribed model does not become automatic: its
\* configuration is put off until the pipelines are loaded.  A model may take
\* the pipeline's name before there is a definition of that name.
LoadModels(m, t, o) ==
    /\ mpc = "idle"
    /\ m \in Successors
    /\ IF subscribed /\ m.auto
       THEN gated' = TRUE /\ UNCHANGED <<model, status, thrown>>
       ELSE gated' = FALSE /\ ManagerChanges(m)
    /\ occupied' = (occupied \/ (o /\ ~exists))
    /\ target' = t
    /\ mpc' = "pipelines"
    /\ UNCHANGED <<definition, subscribed, cycle, reloading, notice, requests, unnoticed, overwritten>>

Custom(c) == IF c = None THEN {} ELSE c.custom

CanSubscribe(c) == IF c.versioned THEN model.version # "absent" ELSE model.known

\* createDefinition: the definition subscribes and is validated before
\* requests can find it.
CreateDefinition ==
    /\ mpc = "pipelines" /\ target # None /\ ~exists
    /\ nodeInfos' = target
    /\ subscribed' = CanSubscribe(target)
    /\ unnoticed' = FALSE
    /\ mpc' = "initialize"
    /\ UNCHANGED <<status, exists, nodeResources, inputsInfo, outputsInfo, cycle, target, gated,
                   occupied, used, requests, thrown,
                   overwritten>>

\* reload: from here on no request begins to create a pipeline.
Reload ==
    /\ mpc = "pipelines" /\ target # None /\ exists
    /\ Handle(Reloadable, "RELOADING")
    /\ mpc' = "unsubscribe"
    /\ UNCHANGED <<definition, subscribed, cycle, target, gated, occupied, used, requests, unnoticed,
                   overwritten>>

ResetSubscriptions ==
    /\ mpc = "unsubscribe"
    /\ subscribed' = FALSE
    /\ mpc' = "drain"
    /\ UNCHANGED <<status, definition, cycle, target, gated, occupied, used, requests, history>>

\* Wrong variant: requests that hold a guard are not waited for.
Drained_NoWait ==
    /\ mpc = "drain"
    /\ mpc' = "replace"
    /\ UNCHANGED <<status, definition, subscribed, cycle, target, gated, occupied, used, requests, history>>

Drained ==
    /\ mpc = "drain" /\ requestsHandlesCounter = 0
    /\ mpc' = "replace"
    /\ UNCHANGED <<status, definition, subscribed, cycle, target, gated, occupied, used, requests, history>>

\* Wrong variant: the reloaded definition does not subscribe again.
Replace_Unsubscribed ==
    /\ mpc = "replace"
    /\ nodeResources' = nodeResources \ (Custom(nodeInfos) \ target.custom)
    /\ nodeInfos' = target
    /\ unnoticed' = FALSE
    /\ mpc' = "initialize"
    /\ UNCHANGED <<status, exists, inputsInfo, outputsInfo, subscribed, cycle, target, gated,
                   occupied, used, requests, thrown,
                   overwritten>>

\* The resources of custom nodes that are gone are released, and the new
\* definition subscribes.
Replace ==
    /\ mpc = "replace"
    /\ nodeResources' = nodeResources \ (Custom(nodeInfos) \ target.custom)
    /\ nodeInfos' = target
    /\ subscribed' = CanSubscribe(target)
    /\ unnoticed' = FALSE
    /\ mpc' = "initialize"
    /\ UNCHANGED <<status, exists, inputsInfo, outputsInfo, cycle, target, gated, occupied, used,
                   requests, thrown, overwritten>>

\* retireOtherThan and retire: a pipeline that is not in the configuration
\* file, or cannot be read from it, is retired once.
Retire ==
    /\ mpc = "pipelines" /\ target = None /\ exists /\ status # "RETIRED"
    /\ subscribed' = FALSE
    /\ mpc' = "retire"
    /\ UNCHANGED <<status, definition, cycle, target, gated, occupied, used, requests, history>>

RetireEvent ==
    /\ mpc = "retire"
    /\ Handle(Retirable, "RETIRED")
    /\ mpc' = "drainRetired"
    /\ UNCHANGED <<definition, subscribed, cycle, target, gated, occupied, used, requests, unnoticed,
                   overwritten>>

DrainedRetired ==
    /\ mpc = "drainRetired" /\ requestsHandlesCounter = 0
    /\ mpc' = "clear"
    /\ UNCHANGED <<status, definition, subscribed, cycle, target, gated, occupied, used, requests, history>>

Clear ==
    /\ mpc = "clear"
    /\ nodeResources' = {}
    /\ nodeInfos' = None
    /\ mpc' = "gated"
    /\ UNCHANGED <<status, exists, inputsInfo, outputsInfo, subscribed, cycle, target, gated,
                   occupied, used, requests, history>>

NothingToRetire ==
    /\ mpc = "pipelines" /\ target = None /\ (exists => status = "RETIRED")
    /\ mpc' = "gated"
    /\ UNCHANGED <<status, definition, subscribed, cycle, target, gated, occupied, used, requests, history>>

\* tryReloadGatedModelConfigs: the model becomes automatic if the pipeline no
\* longer subscribes to it.
ReloadGated(m) ==
    /\ mpc = "gated"
    /\ m \in Successors
    /\ IF gated /\ ~subscribed THEN m.auto /\ ManagerChanges(m)
       ELSE m = model /\ UNCHANGED <<model, status, thrown>>
    /\ gated' = FALSE
    /\ target' = None
    /\ mpc' = "update"
    /\ UNCHANGED <<definition, subscribed, cycle, occupied, reloading, notice, requests, unnoticed,
                   overwritten>>

\* updateConfigurationWithoutConfigFile: versions come and go with their
\* directories; a subscribed automatic model is left alone.  A version that
\* stays up stays what it is.
Update(m) ==
    /\ mpc \in {"idle", "update"}
    /\ m \in Successors
    /\ m.known = model.known /\ m.auto = model.auto
    /\ subscribed /\ model.auto => m = model
    /\ NotifiedByVersion /\ model.version \in Metas /\ m.version \in Metas => m = model
    /\ ManagerChanges(m)
    /\ mpc' = "revalidate"
    /\ UNCHANGED <<definition, subscribed, cycle, target, gated, occupied, reloading, notice, requests, unnoticed,
                   overwritten>>

\* Wrong variant: only available definitions are validated again.
Revalidate_OnlyAvailable ==
    /\ mpc = "revalidate" /\ exists /\ isRevalidationRequired
    /\ IF isAvailable THEN cycle' = "update" /\ unnoticed' = FALSE /\ mpc' = "initialize"
       ELSE mpc' = "idle" /\ UNCHANGED <<cycle, unnoticed>>
    /\ UNCHANGED <<status, definition, subscribed, target, gated, occupied, used, requests, thrown,
                   overwritten>>

\* revalidatePipelines: running requests are not waited for.
Revalidate ==
    /\ mpc = "revalidate" /\ exists /\ isRevalidationRequired
    /\ cycle' = "update"
    /\ unnoticed' = FALSE
    /\ mpc' = "initialize"
    /\ UNCHANGED <<status, definition, subscribed, target, gated, occupied, used, requests, thrown,
                   overwritten>>

NothingToRevalidate ==
    /\ mpc = "revalidate" /\ (exists => ~isRevalidationRequired)
    /\ mpc' = "idle"
    /\ UNCHANGED <<status, definition, subscribed, cycle, target, gated, occupied, used, requests, history>>

-----------------------------------------------------------------------------
(***************************************************************************)
(* validate                                                                *)
(***************************************************************************)

\* The name is taken: the new definition is thrown away again.
NameOccupied ==
    /\ mpc = "initialize" /\ occupied
    /\ subscribed' = FALSE
    /\ nodeInfos' = None
    /\ mpc' = "gated"
    /\ UNCHANGED <<status, exists, nodeResources, inputsInfo, outputsInfo, cycle, target, gated,
                   occupied, used, requests, history>>

\* initializeNodeResources goes through the custom nodes until a library
\* fails.  A node that has a resource keeps it.
InitializeNodeResources ==
    /\ mpc = "initialize" /\ ~occupied
    /\ \E initialized \in SUBSET Custom(nodeInfos) :
         /\ nodeResources' = nodeResources \cup initialized
         /\ mpc' = IF initialized = Custom(nodeInfos) THEN "validateNodes" ELSE "failed"
    /\ UNCHANGED <<status, exists, nodeInfos, inputsInfo, outputsInfo, subscribed, cycle, target,
                   gated, occupied, used, requests, history>>

\* What NodeValidator finds: models with automatic parameters are refused, and
\* so is a definition without nodes.
NodesValid == nodeInfos # None /\ model.version \in nodeInfos.fits /\ ~model.auto

\* validateNodes, validateForCycles, validateDemultiplexerGatherNodesOrder.
ValidateNodes ==
    /\ mpc = "validateNodes"
    /\ mpc' = IF NodesValid THEN "updateInputs" ELSE "failed"
    /\ UNCHANGED <<status, definition, subscribed, cycle, target, gated, occupied, used, requests, history>>

\* What inputsInfo and outputsInfo are computed from.
Source == [config |-> nodeInfos, meta |-> model.version]

UpdateInputsInfo ==
    /\ mpc = "updateInputs"
    /\ IF model.version \in Metas THEN inputsInfo' = Source /\ mpc' = "updateOutputs"
       ELSE inputsInfo' = None /\ mpc' = "failed"
    /\ UNCHANGED <<status, exists, nodeInfos, nodeResources, outputsInfo, subscribed, cycle, target,
                   gated, occupied, used, requests, history>>

UpdateOutputsInfo ==
    /\ mpc = "updateOutputs"
    /\ IF model.version \in Metas THEN outputsInfo' = Source /\ mpc' = "passed"
       ELSE outputsInfo' = None /\ mpc' = "failed"
    /\ UNCHANGED <<status, exists, nodeInfos, nodeResources, inputsInfo, subscribed, cycle, target,
                   gated, occupied, used, requests, history>>

\* The destructor of ValidationResultNotifier; a new definition is published.
NotifyResult ==
    /\ mpc \in {"passed", "failed"}
    /\ Handle(Validatable, IF mpc = "passed" THEN "AVAILABLE" ELSE "LOADING_PRECONDITION_FAILED")
    /\ exists' = TRUE
    /\ mpc' = IF cycle = "load" THEN "gated" ELSE "idle"
    /\ cycle' = "load"
    /\ UNCHANGED <<nodeInfos, nodeResources, inputsInfo, outputsInfo, subscribed, target, gated,
                   occupied, used, requests, unnoticed,
                   overwritten>>

-----------------------------------------------------------------------------
(***************************************************************************)
(* A request creates a pipeline: create and waitForLoaded                  *)
(***************************************************************************)
Goto(p, l) == pc' = [pc EXCEPT ![p] = l]
TakeGuard == requestsHandlesCounter' = requestsHandlesCounter + 1
DropGuard == requestsHandlesCounter' = requestsHandlesCounter - 1

Arrive(p) ==
    /\ pc[p] = "idle" /\ exists
    /\ TakeGuard
    /\ checks' = [checks EXCEPT ![p] = Checkpoints]
    /\ Goto(p, "check")
    /\ UNCHANGED <<status, definition, subscribed, managing, used, history>>

FindAvailable(p) ==
    /\ pc[p] = "check" /\ isAvailable
    /\ Goto(p, "create")
    /\ UNCHANGED <<status, definition, subscribed, managing, used, history, checks, requestsHandlesCounter>>

\* The guard is given up before the status is looked at again.
FindUnavailable(p) ==
    /\ pc[p] = "check" /\ ~isAvailable /\ checks[p] > 0
    /\ DropGuard
    /\ Goto(p, "look")
    /\ UNCHANGED <<status, definition, subscribed, managing, used, history, checks>>

\* The status decides whether waiting makes sense.
LookAgain(p) ==
    /\ pc[p] = "look"
    /\ Goto(p, IF canEndLoaded THEN "sleep" ELSE "idle")
    /\ UNCHANGED <<status, definition, subscribed, managing, used, history, checks, requestsHandlesCounter>>

\* loadedNotify.wait_for returns, notified or not.
Wake(p) ==
    /\ pc[p] = "sleep"
    /\ TakeGuard
    /\ checks' = [checks EXCEPT ![p] = checks[p] - 1]
    /\ Goto(p, "check")
    /\ UNCHANGED <<status, definition, subscribed, managing, used, history>>

TimeOut(p) ==
    /\ pc[p] = "check" /\ ~isAvailable /\ checks[p] = 0
    /\ DropGuard
    /\ Goto(p, "idle")
    /\ UNCHANGED <<status, definition, subscribed, managing, used, history, checks>>

\* The pipeline has been built from nodeInfos, connections, nodeResources,
\* inputsInfo and outputsInfo, and the guard goes out of scope.
Created(p) ==
    /\ pc[p] = "create"
    /\ DropGuard
    /\ Goto(p, "idle")
    /\ UNCHANGED <<status, definition, subscribed, managing, used, history, checks>>

-----------------------------------------------------------------------------

LoadConfig == \E m \in UsedModels, t \in Configs \cup {None}, o \in BOOLEAN : LoadModels(m, t, o)

\* The manager inside a cycle.
Manage ==
    \/ CreateDefinition \/ Reload \/ ResetSubscriptions \/ Drained \/ Replace
    \/ Retire \/ RetireEvent \/ DrainedRetired \/ Clear \/ NothingToRetire
    \/ \E m \in UsedModels : ReloadGated(m)
    \/ Revalidate \/ NothingToRevalidate
    \/ NameOccupied \/ InitializeNodeResources \/ ValidateNodes
    \/ UpdateInputsInfo \/ UpdateOutputsInfo \/ NotifyResult

Watch == \E m \in UsedModels : Update(m)

Serve(p) ==
    \/ FindAvailable(p) \/ FindUnavailable(p) \/ LookAgain(p) \/ Wake(p) \/ TimeOut(p) \/ Created(p)

Next ==
    \/ LoadConfig \/ Watch \/ Manage
    \/ QueueReload \/ StartReload \/ WriteNotice \/ NotifyThrows \/ EndReload
    \/ \E p \in Requests : Arrive(p) \/ Serve(p)

Spec == Init /\ [][Next]_vars

(***************************************************************************)
(* The watcher keeps coming round, threads keep running, and a reload has  *)
(* a bounded number of attempts.  Nothing makes requests arrive or the     *)
(* configuration change.                                                   *)
(***************************************************************************)
Fairness ==
    /\ WF_vars(Watch \/ Manage)
    /\ WF_vars(WriteNotice) /\ SF_vars(EndReload)
    /\ \A p \in Requests : WF_vars(Serve(p))

FairSpec == Spec /\ Fairness

-----------------------------------------------------------------------------
(***************************************************************************)
(* Correctness                                                             *)
(***************************************************************************)
ManagerPoints ==
    {"idle", "pipelines", "unsubscribe", "drain", "replace", "retire", "drainRetired", "clear",
     "gated", "update", "revalidate", "initialize", "validateNodes", "updateInputs",
     "updateOutputs", "passed", "failed"}

\* Every variable has its type.
TypeOK ==
    /\ status \in States
    /\ exists \in BOOLEAN
    /\ nodeInfos \in Configs \cup {None}
    /\ nodeResources \in SUBSET CustomNodes
    /\ inputsInfo \in [config : Configs, meta : Metas] \cup {None}
    /\ outputsInfo \in [config : Configs, meta : Metas] \cup {None}
    /\ subscribed \in BOOLEAN
    /\ requestsHandlesCounter \in Nat
    /\ occupied \in BOOLEAN
    /\ mpc \in ManagerPoints
    /\ cycle \in {"load", "update"}
    /\ target \in Configs \cup {None}
    /\ gated \in BOOLEAN
    /\ model \in UsedModels
    /\ reloading \in {"none", "queued", "notifying", "running"}
    /\ notice \in States \cup {None}
    /\ pc \in [Requests -> {"idle", "check", "look", "sleep", "create"}]
    /\ checks \in [Requests -> 0 .. Checkpoints]
    /\ thrown \in BOOLEAN
    /\ unnoticed \in BOOLEAN
    /\ overwritten \in BOOLEAN

\* A pipeline is created only from a whole definition: its nodes and their
\* resources are neither replaced nor cleared meanwhile, and every custom
\* node has a resource (create calls nodeResources.at, which throws
\* otherwise), although a revalidation may run at the same time - unless a
\* notification overwrote the status that keeps requests out.
CreatesFromWhole ==
    \A p \in Requests : pc[p] = "create" /\ ~overwritten =>
        /\ mpc \notin {"replace", "clear"}
        /\ nodeInfos # None
        /\ nodeInfos.custom \subseteq nodeResources

\* A definition that is available, with no revalidation pending, describes
\* the model as it is, which is served with fixed parameters - unless a
\* request reloaded the model and the definition was not notified, is about
\* to be, or was while it was being validated.
AvailableIsValidated ==
    status = "AVAILABLE" /\ reloading # "notifying" /\ ~unnoticed /\ ~overwritten =>
        /\ inputsInfo = Source /\ outputsInfo = Source
        /\ model.version \in nodeInfos.fits /\ ~model.auto

\* The manager never attempts an invalid transition, whose exception would
\* end the watcher thread and with it the server.
ManagerNeverThrows == ~thrown

\* From some time on no new request arrives.
Calm == <>[][\A p \in Requests : pc[p] = "idle" => pc'[p] = "idle"]_vars

\* Once requests pause, the manager again and again ends a cycle with no
\* revalidation pending and no reload half way: draining ends, and every
\* change that was notified is validated.  And every request gets a pipeline or
\* an error, also while the definition keeps changing.
Progress ==
    /\ Calm => []<>(mpc = "idle" /\ ~isRevalidationRequired /\ status # "RELOADING")
    /\ \A p \in Requests : pc[p] # "idle" ~> pc[p] = "idle"
=============================================================================
