--------------------------- MODULE ModelVersions ----------------------------
(***************************************************************************)
(* Which versions of one model are served: ModelManager::reloadModel-      *)
(* WithVersions with getVersionsToChange and the version policies, and the *)
(* operations of Model it drives (src/src/modelmanager.cpp, model.cpp,     *)
(* model_version_policy.cpp).  The model may be a stateful one whose       *)
(* versions are registered with the cleaner of idle sequences              *)
(* (statefulmodelinstance.cpp, global_sequences_viewer.cpp).               *)
(*                                                                         *)
(* The manager thread polls the model's directory.  One update lists the   *)
(* version directories, adds the missing versions (retrying with older     *)
(* ones when they fail to load), reloads the ones whose configuration      *)
(* changed, and only then retires what the policy no longer asks for.      *)
(* Requests look up the default version while this goes on, so every step  *)
(* that they can observe is a step here.                                   *)
(***************************************************************************)
EXTENDS Integers, Sequences, FiniteSets, SequencesExt, FiniteSetsExt

CONSTANTS
    DirOrder,   \* all version numbers, in the order in which directories are
                \* listed: by name, as strings (files_list_t is a std::set)
    Policies,   \* version policies the configuration may name
    Params,     \* values of the settings whose change requires a reload
    LoaderStates,\* what may become of the model's custom loader
    Refusable,  \* versions the custom loader may blacklist
    Cleanups    \* whether the model may be stateful, with idle_sequence_cleanup

Versions == Range(DirOrder)

ASSUME VersionsAssumption == DirOrder \in Seq(Nat \ {0}) /\ IsInjective(DirOrder)
ASSUME LoaderAssumption == "none" \in LoaderStates /\ LoaderStates \subseteq {"none", "found", "missing"}
ASSUME RefusableAssumption == Refusable \subseteq Versions
ASSUME CleanupsAssumption == Cleanups \subseteq BOOLEAN
ASSUME PoliciesAssumption ==
    Policies \subseteq [kind : {"all"}] \cup [kind : {"latest"}, num : Nat \ {0}]
                       \cup [kind : {"specific"}, versions : SUBSET Versions]

VARIABLES
    \* what the operator controls
    disk,           \* version directories that exist
    policy, params, \* the model's entry in the configuration file
    entry,          \* "served", "removed" from the file, or "invalid" there
    loader,         \* custom loader: "none", "found" or "missing"
    blacklist,      \* versions the custom loader refuses
    \* the Model object
    status,         \* version -> state of its ModelInstance, "absent" if none
    loadedParams,   \* version -> the settings of its ModelInstance
    defaultVersion, \* 0 when there is none
    autoCleanupEnabled,
    registration,   \* version -> its entry in registeredSequenceManagers: "none",
                    \* its "own" sequence manager or one it has dropped, "old"
    \* the update in progress
    pc,
    current,            \* the version being worked on
    availableVersions,  \* listed and not struck off
    toStart, toReload, toRetire, toCleanup,
    versionsFailed,     \* of the pass of loads in progress
    allFailedVersions,
    \* of the updates so far
    overlooked          \* versions that failed, were not found among the available
                        \* ones, and have not been loaded, retired or cleaned up since

operator == <<disk, policy, params, entry, loader, blacklist>>
cleaner == <<autoCleanupEnabled, registration>>
lists == <<availableVersions, toStart, toReload, toRetire, toCleanup, versionsFailed,
           allFailedVersions>>
vars == <<disk, policy, params, entry, loader, blacklist, status, loadedParams, defaultVersion,
          autoCleanupEnabled, registration, pc, current, availableVersions, toStart, toReload, toRetire, toCleanup,
          versionsFailed, allFailedVersions, overlooked>>

\* "FAILED" is state LOADING with error code UNKNOWN.
States == {"absent", "LOADING", "AVAILABLE", "FAILED", "UNLOADING", "END"}

Init ==
    /\ disk = {}
    /\ policy \in Policies /\ params \in Params
    /\ entry = "served" /\ loader = "none" /\ blacklist = {}
    /\ status = [v \in Versions |-> "absent"]
    /\ loadedParams = [v \in Versions |-> params]
    /\ defaultVersion = 0
    /\ autoCleanupEnabled \in Cleanups
    /\ registration = [v \in Versions |-> "none"]
    /\ pc = "idle" /\ current = 0
    /\ availableVersions = {}
    /\ toStart = {} /\ toReload = {} /\ toRetire = {} /\ toCleanup = {}
    /\ versionsFailed = {} /\ allFailedVersions = {} /\ overlooked = {}

(***************************************************************************)
(* The pure parts                                                          *)
(***************************************************************************)

\* ModelVersionPolicy::filter
Filter(p, versions) ==
    CASE p.kind = "all"      -> versions
      [] p.kind = "specific" -> versions \cap p.versions
      [] p.kind = "latest"   -> {v \in versions : Cardinality({w \in versions : w > v}) < p.num}

\* The order of the listing is the order of the numbers.
Ordered(versions) ==
    \A i, j \in DOMAIN DirOrder :
        i < j /\ DirOrder[i] \in versions /\ DirOrder[j] \in versions => DirOrder[i] < DirOrder[j]

\* What may be left of the available versions once the failed ones that
\* std::binary_search finds are removed.  It is only defined on a range in the
\* order of the numbers; on another one it may miss any of them.
RemoveFailed(available, failed) ==
    IF Ordered(available) THEN {available \ failed}
    ELSE {available \ found : found \in SUBSET failed}

Registered == {v \in Versions : status[v] # "absent"}
WillEndUnloaded(v) == status[v] \in {"UNLOADING", "END"}

\* What the policy asks for, without what the custom loader has blacklisted.
Requested(available) ==
    Filter(policy, available) \
        (IF loader = "found" THEN blacklist \cap Registered ELSE {})

\* Wrong variant: a version that failed to load is not tried again.
VersionsToReload_IgnoresFailed(available) ==
    {v \in Requested(available) \cap Registered :
        WillEndUnloaded(v) \/ loadedParams[v] # params}

\* getVersionsToChange
VersionsToStart(available) == Requested(available) \ Registered
VersionsToReload(available) ==
    {v \in Requested(available) \cap Registered :
        WillEndUnloaded(v) \/ status[v] = "FAILED" \/ loadedParams[v] # params}
VersionsToRetire(available) ==
    {v \in Registered \ Requested(available) : ~WillEndUnloaded(v)}

\* updateDefaultVersion: the highest available version, but for those ignored.
HighestAvailable(st, ignored) ==
    LET candidates == {v \in Versions \ ignored : st[v] = "AVAILABLE"}
    IN  IF candidates = {} THEN 0 ELSE Max(candidates)

SetStatus(v, s) == status' = [status EXCEPT ![v] = s]

Register(v, r) ==
    /\ registration' = [registration EXCEPT ![v] = r]
    /\ UNCHANGED autoCleanupEnabled

\* cleanupFailedLoad drops the sequence manager without unregistering it.
DropSequences(v) == Register(v, IF registration[v] = "own" THEN "old" ELSE registration[v])

(***************************************************************************)
(* The operator                                                            *)
(***************************************************************************)

\* A version directory appears or disappears, the configuration entry
\* changes, the custom loader is configured, removed, or changes its mind.
OperatorStep ==
    /\ pc = "idle"
    /\ \/ \E v \in Versions :
             disk' = (disk \ {v}) \cup ({v} \ disk) /\ UNCHANGED <<policy, params, entry, loader, blacklist>>
       \/ policy' \in Policies /\ UNCHANGED <<disk, params, entry, loader, blacklist>>
       \/ params' \in Params /\ UNCHANGED <<disk, policy, entry, loader, blacklist>>
       \/ entry' \in {"served", "removed", "invalid"} /\ UNCHANGED <<disk, policy, params, loader, blacklist>>
       \/ loader' \in LoaderStates /\ blacklist' = {} /\ UNCHANGED <<disk, policy, params, entry>>
       \/ /\ loader = "found"
          /\ \E v \in Refusable : blacklist' \in {{}, {v}}
          /\ UNCHANGED <<disk, policy, params, entry, loader>>
    /\ operator' # operator
    /\ UNCHANGED <<cleaner, status, loadedParams, defaultVersion, pc, current, lists, overlooked>>

(***************************************************************************)
(* reloadModelWithVersions                                                 *)
(***************************************************************************)

\* An update starts: the directory is listed and the first plan is made.  (If
\* the directory cannot be read, the update returns without any effect.)
BeginUpdate ==
    /\ pc = "idle" /\ entry = "served" /\ loader # "missing"
    /\ pc' = "add"
    /\ availableVersions' = disk
    /\ toStart' = VersionsToStart(disk)
    /\ toReload' = VersionsToReload(disk)
    /\ toRetire' = VersionsToRetire(disk)
    /\ UNCHANGED <<cleaner, operator, status, loadedParams, defaultVersion, current, toCleanup,
                   versionsFailed, allFailedVersions, overlooked>>

\* addVersion registers the instance before it loads it.
AddVersion ==
    /\ pc = "add" /\ toStart # {}
    /\ current' = Min(toStart)
    /\ toStart' = toStart \ {current'}
    /\ SetStatus(current', "LOADING")
    /\ pc' = "adding"
    /\ UNCHANGED <<cleaner, operator, loadedParams, defaultVersion, availableVersions, toReload, toRetire,
                   toCleanup, versionsFailed, allFailedVersions, overlooked>>

\* reloadVersions works in place: the instance is LOADING meanwhile.  A version
\* that serves is unregistered first; CleanedWhenServed shows that it is found.
ReloadVersion ==
    /\ pc = "reload" /\ toReload # {}
    /\ current' = Min(toReload)
    /\ toReload' = toReload \ {current'}
    /\ IF status[current'] = "AVAILABLE" THEN Register(current', "none") ELSE UNCHANGED cleaner
    /\ SetStatus(current', "LOADING")
    /\ pc' = "reloading"
    /\ UNCHANGED <<operator, loadedParams, defaultVersion, availableVersions, toStart, toRetire,
                   toCleanup, versionsFailed, allFailedVersions, overlooked>>

LoadEnds(s) ==
    /\ pc \in {"adding", "reloading"}
    /\ pc' = IF pc = "adding" THEN "add" ELSE "reload"
    /\ SetStatus(current, s)
    /\ loadedParams' = [loadedParams EXCEPT ![current] = params]
    /\ current' = 0

\* Wrong variant: only a new version is registered.
RegisterLoaded_New ==
    /\ registration[current] = "none"
    /\ Register(current, IF autoCleanupEnabled /\ pc = "adding" THEN "own" ELSE "none")

\* registerForCleanup
RegisterLoaded ==
    /\ registration[current] = "none"
    /\ Register(current, IF autoCleanupEnabled THEN "own" ELSE "none")

\* A version is loaded and the default version follows.
LoadSucceeds ==
    /\ LoadEnds("AVAILABLE")
    /\ RegisterLoaded
    /\ defaultVersion' = HighestAvailable(status', {})
    /\ overlooked' = overlooked \ {current}
    /\ UNCHANGED <<operator, lists>>

\* A version cannot be loaded; the default version is left alone.
LoadFails ==
    /\ LoadEnds("FAILED")
    /\ versionsFailed' = versionsFailed \cup {current}
    /\ UNCHANGED <<cleaner, operator, defaultVersion, availableVersions, toStart, toReload, toRetire,
                   toCleanup, allFailedVersions, overlooked>>

\* A version is loaded, but the cleaner still knows it from before: it counts
\* as failed.
RegistrationFails ==
    /\ LoadEnds("AVAILABLE")
    /\ registration[current] # "none"
    /\ versionsFailed' = versionsFailed \cup {current}
    /\ UNCHANGED <<cleaner, operator, defaultVersion, availableVersions, toStart, toReload, toRetire,
                   toCleanup, allFailedVersions, overlooked>>

\* Of no use for requests, or not known to the cleaner by its own sequences.
LoadFailed(v) == status[v] = "FAILED" \/ registration[v] = "old"

Overlook(available) == overlooked' = overlooked \cup {v \in versionsFailed \cap available : LoadFailed(v)}

\* All versions to start have been tried.  If one failed, it is struck off
\* the available versions and a new plan is made, which may start others.
EndOfPass ==
    /\ pc = "add" /\ toStart = {}
    /\ IF versionsFailed = {}
       THEN pc' = "reload" /\ UNCHANGED <<lists, overlooked>>
       ELSE \E available \in RemoveFailed(availableVersions, versionsFailed) :
                /\ availableVersions' = available /\ Overlook(available)
                /\ allFailedVersions' = allFailedVersions \cup versionsFailed
                /\ toStart' = VersionsToStart(available)
                /\ toReload' = VersionsToReload(available)
                /\ toRetire' = VersionsToRetire(available)
                /\ IF toStart' = {} THEN pc' = "reload" /\ UNCHANGED versionsFailed
                   ELSE pc' = "add" /\ versionsFailed' = {}
                /\ UNCHANGED toCleanup
    /\ UNCHANGED <<cleaner, operator, status, loadedParams, defaultVersion, current>>

\* Wrong variant: the versions to retire are those of the plan made before the
\* reloads.
Refresh_StalePlan ==
    /\ pc = "reload" /\ toReload = {}
    /\ pc' = "retire"
    /\ allFailedVersions' = allFailedVersions \cup versionsFailed
    /\ \E available \in RemoveFailed(availableVersions, versionsFailed) :
           /\ availableVersions' = available /\ Overlook(available)
           /\ toRetire' = toRetire \ allFailedVersions'
           /\ toCleanup' = VersionsToRetire(available) \cap allFailedVersions'
    /\ toStart' = {}
    /\ UNCHANGED <<cleaner, operator, status, loadedParams, defaultVersion, current, toReload, versionsFailed>>

\* "refresh versions to retire based on failed reloads": what failed is
\* cleaned up, the rest of what is no longer requested is retired.
Refresh ==
    /\ pc = "reload" /\ toReload = {}
    /\ pc' = "retire"
    /\ allFailedVersions' = allFailedVersions \cup versionsFailed
    /\ \E available \in RemoveFailed(availableVersions, versionsFailed) :
           /\ availableVersions' = available /\ Overlook(available)
           /\ toRetire' = VersionsToRetire(available) \ allFailedVersions'
           /\ toCleanup' = VersionsToRetire(available) \cap allFailedVersions'
    /\ toStart' = {}
    /\ UNCHANGED <<cleaner, operator, status, loadedParams, defaultVersion, current, toReload, versionsFailed>>

\* Wrong variant: the default version is looked for after the retirement.
RetireVersion_DefaultLater ==
    /\ pc = "retire" /\ toRetire # {}
    /\ current' = Min(toRetire)
    /\ toRetire' = toRetire \ {current'}
    /\ SetStatus(current', "UNLOADING") /\ Register(current', "none")
    /\ overlooked' = overlooked \ {current'}
    /\ pc' = "retiring"
    /\ UNCHANGED <<operator, loadedParams, defaultVersion, availableVersions, toStart, toReload,
                   toCleanup, versionsFailed, allFailedVersions>>

\* retireVersions: the default version moves away before the version goes.
RetireVersion ==
    /\ pc = "retire" /\ toRetire # {}
    /\ current' = Min(toRetire)
    /\ toRetire' = toRetire \ {current'}
    /\ defaultVersion' = HighestAvailable(status, {current'})
    /\ SetStatus(current', "UNLOADING") /\ Register(current', "none")
    /\ overlooked' = overlooked \ {current'}
    /\ pc' = "retiring"
    /\ UNCHANGED <<operator, loadedParams, availableVersions, toStart, toReload, toCleanup,
                   versionsFailed, allFailedVersions>>

\* cleanupFailedLoad
CleanupVersion ==
    /\ pc = "retire" /\ toRetire = {} /\ toCleanup # {}
    /\ LET v == Min(toCleanup)
       IN  /\ toCleanup' = toCleanup \ {v}
           /\ defaultVersion' = HighestAvailable(status, {v})
           /\ SetStatus(v, "FAILED") /\ DropSequences(v)
           /\ overlooked' = overlooked \ {v}
    /\ UNCHANGED <<operator, loadedParams, pc, current, availableVersions, toStart, toReload,
                   toRetire, versionsFailed, allFailedVersions>>

EndUpdate ==
    /\ pc = "retire" /\ toRetire = {} /\ toCleanup = {}
    /\ pc' = "idle"
    /\ availableVersions' = {} /\ versionsFailed' = {} /\ allFailedVersions' = {}
    /\ UNCHANGED <<cleaner, operator, status, loadedParams, defaultVersion, current, toStart, toReload,
                   toRetire, toCleanup, overlooked>>

(***************************************************************************)
(* retireAllVersions and cleanupAllVersions                                *)
(***************************************************************************)

\* The model left the configuration file, its entry there is invalid, or its
\* custom loader is gone.
BeginRetireAll ==
    /\ pc = "idle"
    /\ entry # "served" \/ loader = "missing"
    /\ Registered # {}
    /\ toRetire' = Registered
    /\ pc' = IF entry = "invalid" THEN "cleanupAll" ELSE "retireAll"
    /\ UNCHANGED <<cleaner, operator, status, loadedParams, defaultVersion, current, availableVersions,
                   toStart, toReload, toCleanup, versionsFailed, allFailedVersions, overlooked>>

RetireNext ==
    /\ pc = "retireAll" /\ toRetire # {}
    /\ current' = Min(toRetire)
    /\ toRetire' = toRetire \ {current'}
    /\ SetStatus(current', "UNLOADING") /\ Register(current', "none")
    /\ overlooked' = overlooked \ {current'}
    /\ pc' = "retiringAll"
    /\ UNCHANGED <<operator, loadedParams, defaultVersion, availableVersions, toStart, toReload,
                   toCleanup, versionsFailed, allFailedVersions>>

\* retireModel has waited for the running inferences and ends.
RetireEnds ==
    /\ pc \in {"retiring", "retiringAll"}
    /\ SetStatus(current, "END")
    /\ pc' = IF pc = "retiring" THEN "retire" ELSE "retireAll"
    /\ defaultVersion' = IF pc = "retiring" THEN defaultVersion ELSE HighestAvailable(status', {})
    /\ current' = 0
    /\ UNCHANGED <<cleaner, operator, loadedParams, lists, overlooked>>

CleanupNext ==
    /\ pc = "cleanupAll" /\ toRetire # {}
    /\ toRetire' = toRetire \ {Min(toRetire)}
    /\ SetStatus(Min(toRetire), "FAILED") /\ DropSequences(Min(toRetire))
    /\ overlooked' = overlooked \ {Min(toRetire)}
    /\ defaultVersion' = HighestAvailable(status', {})
    /\ UNCHANGED <<operator, loadedParams, pc, current, availableVersions, toStart, toReload,
                   toCleanup, versionsFailed, allFailedVersions>>

EndRetireAll ==
    /\ pc \in {"retireAll", "cleanupAll"} /\ toRetire = {}
    /\ pc' = "idle"
    /\ UNCHANGED <<cleaner, operator, status, loadedParams, defaultVersion, current, lists, overlooked>>

-----------------------------------------------------------------------------

Update ==
    \/ BeginUpdate \/ AddVersion \/ ReloadVersion \/ LoadSucceeds \/ LoadFails \/ RegistrationFails \/ EndOfPass
    \/ Refresh \/ RetireVersion \/ RetireEnds \/ CleanupVersion \/ EndUpdate
    \/ BeginRetireAll \/ RetireNext \/ CleanupNext \/ EndRetireAll

Next == OperatorStep \/ Update

Spec == Init /\ [][Next]_vars

\* The watcher thread polls for ever and every update ends.
FairSpec == Spec /\ WF_vars(Update)

-----------------------------------------------------------------------------
(***************************************************************************)
(* Correctness                                                             *)
(***************************************************************************)

PCs == {"idle", "add", "adding", "reload", "reloading", "retire", "retiring", "retireAll",
        "retiringAll", "cleanupAll"}

Served == {v \in Versions : status[v] = "AVAILABLE"}

\* The variables of the update and of the Model object have their types: in
\* particular the cleaner of idle sequences knows no version of a model that
\* did not ask for it (statefulmodelinstance.cpp:85).
TypeOK ==
    /\ disk \subseteq Versions /\ blacklist \subseteq Versions
    /\ policy \in Policies /\ params \in Params
    /\ entry \in {"served", "removed", "invalid"} /\ loader \in LoaderStates
    /\ status \in [Versions -> States]
    /\ registration \in [Versions -> IF autoCleanupEnabled THEN {"none", "own", "old"} ELSE {"none"}]
    /\ loadedParams \in [Versions -> Params]
    /\ defaultVersion \in Versions \cup {0} /\ current \in Versions \cup {0}
    /\ pc \in PCs
    /\ \A list \in {availableVersions, toStart, toReload, toRetire, toCleanup, versionsFailed,
                    allFailedVersions, overlooked} : list \subseteq Versions

\* Between updates a request without a version number gets the highest
\* version that is available, and an error only if there is none; and while
\* versions come and go it is never sent to one that is being unloaded, because
\* a new version replaces an old one (Model::updateDefaultVersion and everything
\* that must call it in time).  A version that was overlooked is the exception:
\* it is not cleaned up, and may stay the default version or be left out.
DefaultIsServed ==
    /\ pc = "idle" => \/ defaultVersion \in overlooked
                      \/ defaultVersion = HighestAvailable(status, overlooked)
    /\ pc \in {"add", "adding", "reload", "reloading", "retire", "retiring"} /\ defaultVersion # 0
        => ~WillEndUnloaded(defaultVersion)

\* An update retires an available version only if the policy does not ask for
\* it once the versions that have just failed to load are left out: "Removing available
\* version {} due to load failure", "refresh versions to retire based on
\* failed reloads" (modelmanager.cpp:1276, 1303).  It does count those that were
\* overlooked, and retires a version that serves for one of them.
Fallback(v) ==
    /\ v \in Filter(policy, disk \ {w \in allFailedVersions \ overlooked : LoadFailed(w)})
    /\ v \notin blacklist
RetiresOnlyReplaced ==
    [][\A v \in Versions :
          pc = "retire" /\ status[v] = "AVAILABLE" /\ status'[v] = "UNLOADING" => ~Fallback(v)]_vars

\* The operator leaves the configuration and the directory alone, and no
\* load fails any more.
Settled ==
    <>[][/\ UNCHANGED operator
         /\ \A v \in versionsFailed' \ versionsFailed : status'[v] = "AVAILABLE"]_vars

\* What should be served.
Wanted == IF entry = "served" /\ loader # "missing"
          THEN Filter(policy, disk) \ (IF loader = "found" THEN blacklist ELSE {})
          ELSE {}

\* Whatever happened before, once things have settled exactly the versions
\* that the policy asks for are served, and an update changes nothing any
\* more (the watcher's loop over reloadModelWithVersions).  A stateful version
\* that was cleaned up while it served is the exception: the cleaner keeps its
\* old sequence manager, and no load of it succeeds until it is retired.
Converges ==
    Settled => <>[](pc = "idle" => Served = Wanted \/ \E v \in Wanted : registration[v] = "old")

\* The cleaner of idle sequences looks after every stateful version that
\* serves, and between updates with the sequence manager that requests use, but
\* for an overlooked one; so no sequence that a client abandons is left behind
\* (loadModel, reloadModel, retireModel, cleanupFailedLoad).
CleanedWhenServed ==
    \A v \in Versions :
        autoCleanupEnabled /\ status[v] = "AVAILABLE" =>
            /\ registration[v] # "none"
            /\ pc = "idle" => registration[v] = "own" \/ v \in overlooked
=============================================================================
