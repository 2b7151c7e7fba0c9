--------------------------- MODULE Pipeline_proofs ---------------------------
(***************************************************************************)
(* Pipelines: their definitions and their execution.                       *)
(*                                                                         *)
(* For any number of requests, models and definitions: a pipeline is       *)
(* created only from a whole definition, what is available has been        *)
(* validated, and the manager never attempts an invalid transition.        *)
(*                                                                         *)
(* For any pipelines, any number of streams and any number of shards: an   *)
(* execution gives back what it takes, and a pipeline that the validation  *)
(* accepted never meets an error that only a wrong graph can cause.        *)
(***************************************************************************)
EXTENDS PipelineDefinition, PipelineExecution, FiniteSetTheorems, FunctionTheorems,
        SequenceTheorems, WellFoundedInduction, TLAPS

(***************************************************************************)
(* The inductive invariant: the counter counts the guards;                 *)
(***************************************************************************)
HoldersOf(f) == {p \in Requests : f[p] \in {"check", "create"}}
GuardsCounted == requestsHandlesCounter = Cardinality(HoldersOf(pc))

Replacing == mpc \in {"unsubscribe", "drain", "replace"}
Resting == mpc \in {"idle", "pipelines", "gated", "update", "revalidate"}

\* at every point of its cycle the manager knows the status, up to what a
\* notification makes of it;
Rewritten == overwritten /\ isRevalidationRequired
StatusOK ==
    /\ ~exists /\ ~Validating => status = "BEGIN"
    /\ Resting /\ exists => status \notin {"BEGIN", "RELOADING"}
    /\ Replacing => (status = "RELOADING" \/ Rewritten) /\ exists /\ target # None
    /\ mpc = "retire" => status \in Retirable /\ exists /\ ~subscribed
    /\ mpc \in {"drainRetired", "clear"} => (status = "RETIRED" \/ Rewritten) /\ exists
    /\ Validating /\ cycle = "load"
         => status = (IF exists THEN "RELOADING" ELSE "BEGIN") \/ (exists /\ Rewritten)
    /\ Validating /\ cycle = "update" => exists /\ isRevalidationRequired
    /\ ~Validating => cycle = "load"
    /\ occupied => ~exists /\ (Validating => mpc = "initialize")
    /\ reloading = "notifying" => exists /\ notice \in Notifiable
    /\ ~thrown

\* who subscribes has nodes, and can be notified by the manager;
SubscribedOK ==
    /\ subscribed => nodeInfos # None
    /\ Resting /\ subscribed => exists
    /\ status = "RETIRED" \/ mpc \in {"drainRetired", "clear"} => ~subscribed
    /\ mpc \in {"updateInputs", "updateOutputs", "passed"} => nodeInfos # None
    /\ Validating /\ ~overwritten => nodeInfos # None
    /\ exists /\ status \notin {"RETIRED", "RELOADING"} /\ ~overwritten => nodeInfos # None

\* what is available, or was found valid so far, has its resources;
ResourcesOK ==
    /\ isAvailable /\ ~overwritten => nodeInfos # None /\ nodeInfos.custom \subseteq nodeResources
    /\ mpc \in {"validateNodes", "updateInputs", "updateOutputs", "passed"}
         => Custom(nodeInfos) \subseteq nodeResources

\* requests find only a definition that is published, and wait only as long
\* as they may look again.
RequestsOK ==
    /\ ~exists => \A p \in Requests : pc[p] = "idle"
    /\ \A p \in Requests : pc[p] \in {"look", "sleep"} => checks[p] > 0

\* A version that exists belongs to a known model, and is not available while
\* a request reloads it.
ModelOK ==
    /\ ~model.known => model.version = "absent"
    /\ reloading \in {"notifying", "running"} => model.version = "down"

\* What was validated is subscribed, so that no change of the manager's goes
\* unnoticed,
NoticesOK ==
    /\ (isAvailable \/ isRevalidationRequired) /\ ~overwritten => subscribed \/ mpc = "retire"
    /\ reloading = "notifying" /\ status = notice /\ ~overwritten => subscribed \/ mpc = "retire"
    /\ Validating /\ ~overwritten => subscribed = CanSubscribe(nodeInfos)
    /\ subscribed => CanSubscribe(nodeInfos)
    /\ mpc \in {"updateInputs", "updateOutputs", "passed"} => model.version # "absent"

\* and what validation has seen so far is still so.
SeenOK ==
    /\ ~unnoticed /\ mpc \in {"updateInputs", "updateOutputs", "passed"}
         => model.version \in nodeInfos.fits /\ ~model.auto
    /\ ~unnoticed /\ mpc \in {"updateOutputs", "passed"} => inputsInfo = Source
    /\ ~unnoticed /\ mpc = "passed" => outputsInfo = Source

Shape == StatusOK /\ SubscribedOK /\ ResourcesOK /\ RequestsOK
Knowledge == ModelOK /\ NoticesOK /\ SeenOK
IInv == TypeOK /\ GuardsCounted /\ Shape /\ CreatesFromWhole /\ Knowledge /\ AvailableIsValidated

-----------------------------------------------------------------------------
(***************************************************************************)
(* Counting the guards                                                     *)
(***************************************************************************)
Places == {"idle", "check", "look", "sleep", "create"}
Guarding == {"check", "create"}

\* A request that takes a guard raises the number of guards by one.
LEMMA OneMoreHolder ==
    ASSUME NEW f \in [Requests -> Places], NEW p \in Requests, f[p] \notin Guarding,
           NEW place \in Guarding
    PROVE  Cardinality(HoldersOf([f EXCEPT ![p] = place])) = Cardinality(HoldersOf(f)) + 1
<1>1. HoldersOf([f EXCEPT ![p] = place]) = HoldersOf(f) \cup {p} /\ p \notin HoldersOf(f)
    BY DEF HoldersOf, Guarding
<1>2. IsFiniteSet(HoldersOf(f))
    BY RequestsAssumption, FS_Subset DEF HoldersOf
<1> QED
    BY <1>1, <1>2, FS_AddElement

\* A request that drops its guard lowers it by one.
LEMMA OneHolderLess ==
    ASSUME NEW f \in [Requests -> Places], NEW p \in Requests, f[p] \in Guarding,
           NEW place \in Places \ Guarding
    PROVE  Cardinality(HoldersOf([f EXCEPT ![p] = place])) = Cardinality(HoldersOf(f)) - 1
<1>1. HoldersOf([f EXCEPT ![p] = place]) = HoldersOf(f) \ {p} /\ p \in HoldersOf(f)
    BY DEF HoldersOf, Guarding
<1>2. IsFiniteSet(HoldersOf(f))
    BY RequestsAssumption, FS_Subset DEF HoldersOf
<1> QED
    BY <1>1, <1>2, FS_RemoveElement

\* One that goes on with its guard, or without, leaves it alone.
LEMMA SameHolders ==
    ASSUME NEW f \in [Requests -> Places], NEW p \in Requests, NEW place \in Places,
           (f[p] \in Guarding) = (place \in Guarding)
    PROVE  Cardinality(HoldersOf([f EXCEPT ![p] = place])) = Cardinality(HoldersOf(f))
<1>1. HoldersOf([f EXCEPT ![p] = place]) = HoldersOf(f)
    BY DEF HoldersOf, Guarding
<1> QED
    BY <1>1

\* When the counter is zero no request has a guard: what reload and retire
\* wait for.
LEMMA NobodyHolds ==
    ASSUME GuardsCounted, requestsHandlesCounter = 0
    PROVE  \A p \in Requests : pc[p] \notin Guarding
<1>1. IsFiniteSet(HoldersOf(pc))
    BY RequestsAssumption, FS_Subset DEF HoldersOf
<1>2. HoldersOf(pc) = {}
    BY <1>1, FS_EmptySet DEF GuardsCounted
<1> QED
    BY <1>2 DEF HoldersOf, Guarding

\* A request changes neither the definition nor the manager.
LEMMA RequestFrame ==
    ASSUME NEW p \in Requests, Arrive(p) \/ Serve(p)
    PROVE  UNCHANGED <<status, definition, subscribed, managing, used, history>>
BY DEF Arrive, Serve, FindAvailable, FindUnavailable, LookAgain, Wake, TimeOut, Created

\* The counter follows the guards: every path through create and
\* waitForLoaded drops what it took.
LEMMA CountStep == TypeOK /\ GuardsCounted /\ [Next]_vars => GuardsCounted'
<1> SUFFICES ASSUME TypeOK, GuardsCounted, [Next]_vars PROVE GuardsCounted'
    OBVIOUS
<1> USE DEF GuardsCounted, definition, managing, used, requests, history
<1>1. CASE CreateDefinition \/ Reload \/ ResetSubscriptions \/ Drained \/ Replace \/ Retire
           \/ RetireEvent \/ DrainedRetired \/ Clear \/ NothingToRetire \/ Revalidate \/
           NothingToRevalidate \/ NameOccupied \/ InitializeNodeResources \/ ValidateNodes
           \/ UpdateInputsInfo \/ UpdateOutputsInfo \/ NotifyResult \/ QueueReload \/
           StartReload \/ WriteNotice \/ NotifyThrows \/ EndReload
    BY <1>1
    DEF CreateDefinition, Reload, ResetSubscriptions, Drained, Replace, Retire, RetireEvent,
        DrainedRetired, Clear, NothingToRetire, Revalidate, NothingToRevalidate,
        NameOccupied, InitializeNodeResources, ValidateNodes, UpdateInputsInfo,
        UpdateOutputsInfo, NotifyResult, QueueReload, StartReload, WriteNotice,
        NotifyThrows, EndReload
<1>2. ASSUME NEW m \in UsedModels, NEW t \in Configs \cup {None}, NEW o \in BOOLEAN,
             LoadModels(m, t, o) \/ ReloadGated(m) \/ Update(m)
      PROVE  GuardsCounted'
    BY <1>2 DEF LoadModels, ReloadGated, Update
<1>3. ASSUME NEW p \in Requests, Arrive(p) \/ Serve(p) PROVE GuardsCounted'
  <2>1. pc \in [Requests -> Places] /\ requestsHandlesCounter \in Nat
    BY DEF TypeOK, Places
  <2>2. CASE Arrive(p) \/ Wake(p)
    <3>1. pc[p] \notin Guarding /\ TakeGuard /\ pc' = [pc EXCEPT ![p] = "check"]
      BY <2>2 DEF Arrive, Wake, Goto, Guarding
    <3> QED
      BY <2>1, <3>1, OneMoreHolder DEF TakeGuard, Guarding
  <2>3. CASE FindUnavailable(p) \/ TimeOut(p) \/ Created(p)
    <3>1. pc[p] \in Guarding /\ DropGuard
      BY <2>3 DEF FindUnavailable, TimeOut, Created, Guarding
    <3>2. PICK place \in Places \ Guarding : pc' = [pc EXCEPT ![p] = place]
      BY <2>3 DEF FindUnavailable, TimeOut, Created, Goto, Places, Guarding
    <3> QED
      BY <2>1, <3>1, <3>2, OneHolderLess DEF DropGuard
  <2>4. CASE FindAvailable(p) \/ LookAgain(p)
    <3>1. PICK place \in Places : /\ pc' = [pc EXCEPT ![p] = place]
                                  /\ (pc[p] \in Guarding) = (place \in Guarding)
      BY <2>4 DEF FindAvailable, LookAgain, Goto, Places, Guarding
    <3>2. UNCHANGED requestsHandlesCounter
      BY <2>4 DEF FindAvailable, LookAgain
    <3> QED
      BY <2>1, <3>1, <3>2, SameHolders
  <2> QED
    BY <1>3, <2>2, <2>3, <2>4 DEF Serve
<1>4. CASE UNCHANGED vars
    BY <1>4 DEF vars
<1> QED
    BY <1>1, <1>2, <1>3, <1>4 DEF Next, LoadConfig, Watch, Manage

\* What is Boolean stays Boolean.
Flags == /\ exists \in BOOLEAN /\ subscribed \in BOOLEAN /\ occupied \in BOOLEAN
         /\ gated \in BOOLEAN /\ thrown \in BOOLEAN /\ unnoticed \in BOOLEAN
         /\ overwritten \in BOOLEAN

\* Whether a definition can subscribe is a truth value.
LEMMA CanSubscribeIsBoolean ==
    ASSUME TypeOK, NEW c
    PROVE  CanSubscribe(c) \in BOOLEAN
<1>1. model.known \in BOOLEAN
    BY DEF TypeOK, UsedModels
<1> QED
    BY <1>1, Zenon DEF CanSubscribe

\* Every step keeps them so.
LEMMA FlagsStep == TypeOK /\ Flags /\ [Next]_vars => Flags'
<1> SUFFICES ASSUME TypeOK, Flags, [Next]_vars PROVE Flags'
    OBVIOUS
<1> USE DEF Flags, definition, managing, used, requests, history
<1>1. CASE CreateDefinition
    BY <1>1, CanSubscribeIsBoolean, Zenon DEF CreateDefinition
<1>2. CASE Reload
    BY <1>2, Zenon DEF Reload, Handle
<1>3. CASE ResetSubscriptions
    BY <1>3, Zenon DEF ResetSubscriptions
<1>4. CASE Drained
    BY <1>4, Zenon DEF Drained
<1>5. CASE Replace
    BY <1>5, CanSubscribeIsBoolean, Zenon DEF Replace
<1>6. CASE Retire
    BY <1>6, Zenon DEF Retire
<1>7. CASE RetireEvent
    BY <1>7, Zenon DEF RetireEvent, Handle
<1>8. CASE DrainedRetired
    BY <1>8, Zenon DEF DrainedRetired
<1>9. CASE Clear
    BY <1>9, Zenon DEF Clear
<1>10. CASE NothingToRetire
    BY <1>10, Zenon DEF NothingToRetire
<1>11. CASE Revalidate
    BY <1>11, Zenon DEF Revalidate
<1>12. CASE NothingToRevalidate
    BY <1>12, Zenon DEF NothingToRevalidate
<1>13. CASE NameOccupied
    BY <1>13, Zenon DEF NameOccupied
<1>14. CASE InitializeNodeResources
    BY <1>14, Zenon DEF InitializeNodeResources
<1>15. CASE ValidateNodes
    BY <1>15, Zenon DEF ValidateNodes
<1>16. CASE UpdateInputsInfo
    BY <1>16, Zenon DEF UpdateInputsInfo
<1>17. CASE UpdateOutputsInfo
    BY <1>17, Zenon DEF UpdateOutputsInfo
<1>18. CASE NotifyResult
    BY <1>18, Zenon DEF NotifyResult, Handle
<1>19. CASE QueueReload
    BY <1>19, Zenon DEF QueueReload
<1>20. CASE StartReload
    BY <1>20, Zenon DEF StartReload, Validating, NotifiedByVersion
<1>21. CASE WriteNotice
    BY <1>21, Zenon DEF WriteNotice
<1>22. CASE NotifyThrows
    BY <1>22, Zenon DEF NotifyThrows
<1>23. CASE EndReload
    BY <1>23, Zenon DEF EndReload
<1>24. ASSUME NEW m \in UsedModels, NEW t \in Configs \cup {None}, NEW o \in BOOLEAN,
              LoadModels(m, t, o)
       PROVE  Flags'
    BY <1>24, Zenon DEF LoadModels, ManagerChanges, Handle
<1>25. ASSUME NEW m \in UsedModels, ReloadGated(m) PROVE Flags'
    BY <1>25, Zenon DEF ReloadGated, ManagerChanges, Handle
<1>26. ASSUME NEW m \in UsedModels, Update(m) PROVE Flags'
    BY <1>26, Zenon DEF Update, ManagerChanges, Handle
<1>27. ASSUME NEW p \in Requests, Arrive(p) \/ Serve(p) PROVE Flags'
    BY <1>27, RequestFrame
<1>28. CASE UNCHANGED vars
    BY <1>28 DEF vars
<1> QED
    BY <1>1, <1>2, <1>3, <1>4, <1>5, <1>6, <1>7, <1>8, <1>9, <1>10, <1>11, <1>12, <1>13,
       <1>14, <1>15, <1>16, <1>17, <1>18, <1>19, <1>20, <1>21, <1>22, <1>23, <1>24, <1>25,
       <1>26, <1>27, <1>28
    DEF Next, LoadConfig, Watch, Manage

\* Every step keeps the types; a guard is dropped only by a request that has
\* one, so the counter, unsigned in the code, does not go below zero.
LEMMA TypeStep == TypeOK /\ GuardsCounted /\ Shape /\ [Next]_vars => TypeOK'
<1> SUFFICES ASSUME TypeOK, GuardsCounted, Shape, [Next]_vars PROVE TypeOK'
    OBVIOUS
<1>now. Flags
    BY DEF TypeOK, Flags
<1>flags. Flags'
    BY <1>now, FlagsStep
<1> USE DEF Flags
<1> USE DEF TypeOK, States, ManagerPoints, definition, managing, used, requests, history
<1>1. CASE CreateDefinition \/ Replace \/ Clear \/ NameOccupied
    BY <1>1, <1>flags
    DEF CreateDefinition, Replace, Clear, NameOccupied, Shape, StatusOK, Replacing
<1>2. CASE Reload \/ RetireEvent \/ NotifyResult
    BY <1>2, <1>flags DEF Reload, RetireEvent, NotifyResult, Handle
<1>3. CASE ResetSubscriptions \/ Retire \/ Revalidate \/ Drained \/ DrainedRetired \/
           NothingToRetire \/ NothingToRevalidate
    BY <1>3, <1>flags
    DEF ResetSubscriptions, Retire, Revalidate, Drained, DrainedRetired, NothingToRetire,
        NothingToRevalidate
<1>4. CASE InitializeNodeResources
    BY <1>4, <1>flags, ConfigsAssumption DEF InitializeNodeResources, Custom
<1>5. CASE ValidateNodes
    BY <1>5, <1>flags DEF ValidateNodes
<1>6. CASE UpdateInputsInfo \/ UpdateOutputsInfo
    BY <1>6, <1>flags
    DEF UpdateInputsInfo, UpdateOutputsInfo, Source, Shape, SubscribedOK, Validating
<1>7. CASE QueueReload \/ StartReload \/ WriteNotice \/ NotifyThrows \/ EndReload
    BY <1>7, <1>flags
    DEF QueueReload, StartReload, WriteNotice, NotifyThrows, EndReload,
        AfterUsedModelChanged, UsedModels
<1>8. ASSUME NEW m \in UsedModels, NEW t \in Configs \cup {None}, NEW o \in BOOLEAN,
             LoadModels(m, t, o) \/ ReloadGated(m) \/ Update(m)
      PROVE  TypeOK'
    BY <1>8, <1>flags
    DEF LoadModels, ReloadGated, Update, ManagerChanges, Handle, AfterUsedModelChanged
<1>9. ASSUME NEW p \in Requests, Arrive(p) \/ Serve(p) PROVE TypeOK'
  <2>0. pc' \in [Requests -> Places]
    BY <1>9 DEF Serve, Arrive, FindAvailable, FindUnavailable, LookAgain, Wake, TimeOut, Created,
             Goto, Places
  <2>1. checks' \in [Requests -> 0 .. Checkpoints]
    <3>1. CASE Wake(p)
      BY <3>1, CheckpointsAssumption DEF Wake, Shape, RequestsOK
    <3>2. CASE ~Wake(p)
      BY <1>9, <3>2, CheckpointsAssumption
      DEF Serve, Arrive, FindAvailable, FindUnavailable, LookAgain, TimeOut, Created
    <3> QED
      BY <3>1, <3>2
  <2>2. requestsHandlesCounter' \in Nat
    BY <1>9, NobodyHolds
    DEF Serve, Arrive, FindAvailable, FindUnavailable, LookAgain, Wake, TimeOut, Created,
        TakeGuard, DropGuard, Guarding
  <2> QED
    BY <1>9, <2>0, <2>1, <2>2, RequestFrame DEF Places
<1>10. CASE UNCHANGED vars
    BY <1>10 DEF vars
<1> QED
    BY <1>1, <1>2, <1>3, <1>4, <1>5, <1>6, <1>7, <1>8, <1>9, <1>10
    DEF Next, LoadConfig, Watch, Manage

\* The manager raises no event that the status does not allow, and after each
\* of its steps it knows the status.
LEMMA StatusStep == TypeOK /\ Shape /\ [Next]_vars => StatusOK'
<1> SUFFICES ASSUME TypeOK, Shape, [Next]_vars PROVE StatusOK'
    OBVIOUS
<1> USE DEF Shape, StatusOK, SubscribedOK, TypeOK, States, ManagerPoints, Reloadable,
            Retirable, Notifiable, Validatable, Validating, Resting, Replacing, isAvailable,
            isRevalidationRequired, Rewritten, definition, managing, used, requests, history
<1>1. CASE CreateDefinition \/ Replace
    BY <1>1 DEF CreateDefinition, Replace
<1>2. CASE Reload \/ RetireEvent
    BY <1>2 DEF Reload, RetireEvent, Handle
<1>3. CASE ResetSubscriptions \/ Drained \/ DrainedRetired \/ NothingToRetire \/
           NothingToRevalidate
    BY <1>3
    DEF ResetSubscriptions, Drained, DrainedRetired, NothingToRetire, NothingToRevalidate
<1>4. CASE Retire \/ Clear
    BY <1>4 DEF Retire, Clear
<1>5. CASE Revalidate
    BY <1>5 DEF Revalidate
<1>6. CASE NameOccupied
    BY <1>6 DEF NameOccupied
<1>7. CASE InitializeNodeResources \/ ValidateNodes \/ UpdateInputsInfo \/ UpdateOutputsInfo
    BY <1>7
    DEF InitializeNodeResources, ValidateNodes, UpdateInputsInfo, UpdateOutputsInfo,
        NodesValid
<1>8. CASE NotifyResult
    BY <1>8 DEF NotifyResult, Handle
<1>9. CASE QueueReload \/ StartReload \/ WriteNotice \/ NotifyThrows \/ EndReload
    BY <1>9
    DEF QueueReload, StartReload, WriteNotice, NotifyThrows, EndReload,
        AfterUsedModelChanged, NotifiedByVersion
<1>10. ASSUME NEW m \in UsedModels, NEW t \in Configs \cup {None}, NEW o \in BOOLEAN,
              LoadModels(m, t, o)
       PROVE  StatusOK'
    BY <1>10 DEF LoadModels, ManagerChanges, Handle, AfterUsedModelChanged
<1>11. ASSUME NEW m \in UsedModels, ReloadGated(m) PROVE StatusOK'
    BY <1>11 DEF ReloadGated, ManagerChanges, Handle, AfterUsedModelChanged
<1>12. ASSUME NEW m \in UsedModels, Update(m) PROVE StatusOK'
    BY <1>12 DEF Update, ManagerChanges, Handle, AfterUsedModelChanged
<1>13. ASSUME NEW p \in Requests, Arrive(p) \/ Serve(p) PROVE StatusOK'
    BY <1>13, RequestFrame
<1>14. CASE UNCHANGED vars
    BY <1>14 DEF vars
<1> QED
    BY <1>1, <1>2, <1>3, <1>4, <1>5, <1>6, <1>7, <1>8, <1>9, <1>10, <1>11, <1>12, <1>13,
       <1>14
    DEF Next, LoadConfig, Watch, Manage

\* A definition subscribes only while it has nodes and can be notified.
LEMMA SubscribedStep == TypeOK /\ Shape /\ [Next]_vars => SubscribedOK'
<1> SUFFICES ASSUME TypeOK, Shape, [Next]_vars PROVE SubscribedOK'
    OBVIOUS
<1> USE DEF Shape, StatusOK, SubscribedOK, TypeOK, States, ManagerPoints, Reloadable,
            Retirable, Notifiable, Validatable, Validating, Resting, Replacing, isAvailable,
            isRevalidationRequired, Rewritten, definition, managing, used, requests, history
<1>1. CASE CreateDefinition \/ Replace
    BY <1>1 DEF CreateDefinition, Replace
<1>2. CASE Reload \/ RetireEvent
    BY <1>2 DEF Reload, RetireEvent, Handle
<1>3. CASE ResetSubscriptions \/ Drained \/ DrainedRetired \/ NothingToRetire \/
           NothingToRevalidate
    BY <1>3
    DEF ResetSubscriptions, Drained, DrainedRetired, NothingToRetire, NothingToRevalidate
<1>4. CASE Retire \/ Clear
    BY <1>4 DEF Retire, Clear
<1>5. CASE Revalidate
    BY <1>5 DEF Revalidate
<1>6. CASE NameOccupied
    BY <1>6 DEF NameOccupied
<1>7. CASE InitializeNodeResources \/ ValidateNodes \/ UpdateInputsInfo \/ UpdateOutputsInfo
    BY <1>7
    DEF InitializeNodeResources, ValidateNodes, UpdateInputsInfo, UpdateOutputsInfo,
        NodesValid
<1>8. CASE NotifyResult
    BY <1>8 DEF NotifyResult, Handle
<1>9. CASE QueueReload \/ StartReload \/ WriteNotice \/ NotifyThrows \/ EndReload
    BY <1>9
    DEF QueueReload, StartReload, WriteNotice, NotifyThrows, EndReload,
        AfterUsedModelChanged, NotifiedByVersion
<1>10. ASSUME NEW m \in UsedModels, NEW t \in Configs \cup {None}, NEW o \in BOOLEAN,
              LoadModels(m, t, o)
       PROVE  SubscribedOK'
    BY <1>10 DEF LoadModels, ManagerChanges, Handle, AfterUsedModelChanged
<1>11. ASSUME NEW m \in UsedModels, ReloadGated(m) PROVE SubscribedOK'
    BY <1>11 DEF ReloadGated, ManagerChanges, Handle, AfterUsedModelChanged
<1>12. ASSUME NEW m \in UsedModels, Update(m) PROVE SubscribedOK'
    BY <1>12 DEF Update, ManagerChanges, Handle, AfterUsedModelChanged
<1>13. ASSUME NEW p \in Requests, Arrive(p) \/ Serve(p) PROVE SubscribedOK'
    BY <1>13, RequestFrame
<1>14. CASE UNCHANGED vars
    BY <1>14 DEF vars
<1> QED
    BY <1>1, <1>2, <1>3, <1>4, <1>5, <1>6, <1>7, <1>8, <1>9, <1>10, <1>11, <1>12, <1>13,
       <1>14
    DEF Next, LoadConfig, Watch, Manage

\* Resources are released only for nodes that are replaced, so what is
\* available keeps its resources, a failed revalidation notwithstanding.
LEMMA ResourcesStep == TypeOK /\ Shape /\ [Next]_vars => ResourcesOK'
<1> SUFFICES ASSUME TypeOK, Shape, [Next]_vars PROVE ResourcesOK'
    OBVIOUS
<1> USE DEF Shape, StatusOK, SubscribedOK, ResourcesOK, Custom, TypeOK, States,
            ManagerPoints, Reloadable, Retirable, Notifiable, Validatable, Validating,
            Resting, Replacing, isAvailable, isRevalidationRequired, Rewritten, definition,
            managing, used, requests, history
<1>1. CASE CreateDefinition \/ Replace
    BY <1>1 DEF CreateDefinition, Replace
<1>2. CASE Reload \/ RetireEvent
    BY <1>2 DEF Reload, RetireEvent, Handle
<1>3. CASE ResetSubscriptions \/ Drained \/ DrainedRetired \/ NothingToRetire \/
           NothingToRevalidate
    BY <1>3
    DEF ResetSubscriptions, Drained, DrainedRetired, NothingToRetire, NothingToRevalidate
<1>4. CASE Retire \/ Clear
    BY <1>4 DEF Retire, Clear
<1>5. CASE Revalidate
    BY <1>5 DEF Revalidate
<1>6. CASE NameOccupied
    BY <1>6 DEF NameOccupied
<1>7. CASE InitializeNodeResources \/ ValidateNodes \/ UpdateInputsInfo \/ UpdateOutputsInfo
    BY <1>7
    DEF InitializeNodeResources, ValidateNodes, UpdateInputsInfo, UpdateOutputsInfo,
        NodesValid
<1>8. CASE NotifyResult
    BY <1>8 DEF NotifyResult, Handle
<1>9. CASE QueueReload \/ StartReload \/ WriteNotice \/ NotifyThrows \/ EndReload
    BY <1>9
    DEF QueueReload, StartReload, WriteNotice, NotifyThrows, EndReload,
        AfterUsedModelChanged, NotifiedByVersion
<1>10. ASSUME NEW m \in UsedModels, NEW t \in Configs \cup {None}, NEW o \in BOOLEAN,
              LoadModels(m, t, o)
       PROVE  ResourcesOK'
    BY <1>10 DEF LoadModels, ManagerChanges, Handle, AfterUsedModelChanged
<1>11. ASSUME NEW m \in UsedModels, ReloadGated(m) PROVE ResourcesOK'
    BY <1>11 DEF ReloadGated, ManagerChanges, Handle, AfterUsedModelChanged
<1>12. ASSUME NEW m \in UsedModels, Update(m) PROVE ResourcesOK'
    BY <1>12 DEF Update, ManagerChanges, Handle, AfterUsedModelChanged
<1>13. ASSUME NEW p \in Requests, Arrive(p) \/ Serve(p) PROVE ResourcesOK'
    BY <1>13, RequestFrame
<1>14. CASE UNCHANGED vars
    BY <1>14 DEF vars
<1> QED
    BY <1>1, <1>2, <1>3, <1>4, <1>5, <1>6, <1>7, <1>8, <1>9, <1>10, <1>11, <1>12, <1>13,
       <1>14
    DEF Next, LoadConfig, Watch, Manage

\* A definition that was published stays published.
LEMMA RequestsStep == TypeOK /\ Shape /\ [Next]_vars => RequestsOK'
<1> SUFFICES ASSUME TypeOK, Shape, [Next]_vars PROVE RequestsOK'
    OBVIOUS
<1> USE DEF Shape, RequestsOK, TypeOK, definition, managing, used, requests, history
<1>1. CASE CreateDefinition \/ Replace
    BY <1>1 DEF CreateDefinition, Replace
<1>2. CASE Reload \/ RetireEvent
    BY <1>2 DEF Reload, RetireEvent, Handle
<1>3. CASE ResetSubscriptions \/ Drained \/ DrainedRetired \/ NothingToRetire \/
           NothingToRevalidate
    BY <1>3
    DEF ResetSubscriptions, Drained, DrainedRetired, NothingToRetire, NothingToRevalidate
<1>4. CASE Retire \/ Clear
    BY <1>4 DEF Retire, Clear
<1>5. CASE Revalidate
    BY <1>5 DEF Revalidate
<1>6. CASE NameOccupied
    BY <1>6 DEF NameOccupied
<1>7. CASE InitializeNodeResources \/ ValidateNodes \/ UpdateInputsInfo \/ UpdateOutputsInfo
    BY <1>7
    DEF InitializeNodeResources, ValidateNodes, UpdateInputsInfo, UpdateOutputsInfo,
        NodesValid
<1>8. CASE NotifyResult
    BY <1>8 DEF NotifyResult, Handle
<1>9. CASE QueueReload \/ StartReload \/ WriteNotice \/ NotifyThrows \/ EndReload
    BY <1>9
    DEF QueueReload, StartReload, WriteNotice, NotifyThrows, EndReload,
        AfterUsedModelChanged, NotifiedByVersion
<1>10. ASSUME NEW m \in UsedModels, NEW t \in Configs \cup {None}, NEW o \in BOOLEAN,
              LoadModels(m, t, o)
       PROVE  RequestsOK'
    BY <1>10 DEF LoadModels, ManagerChanges, Handle, AfterUsedModelChanged
<1>11. ASSUME NEW m \in UsedModels, ReloadGated(m) PROVE RequestsOK'
    BY <1>11 DEF ReloadGated, ManagerChanges, Handle, AfterUsedModelChanged
<1>12. ASSUME NEW m \in UsedModels, Update(m) PROVE RequestsOK'
    BY <1>12 DEF Update, ManagerChanges, Handle, AfterUsedModelChanged
<1>13. ASSUME NEW p \in Requests, Arrive(p) \/ Serve(p) PROVE RequestsOK'
    BY <1>13 DEF Serve, Arrive, FindAvailable, FindUnavailable, LookAgain, Wake, TimeOut, Created, Goto
<1>14. CASE UNCHANGED vars
    BY <1>14 DEF vars
<1> QED
    BY <1>1, <1>2, <1>3, <1>4, <1>5, <1>6, <1>7, <1>8, <1>9, <1>10, <1>11, <1>12, <1>13,
       <1>14
    DEF Next, LoadConfig, Watch, Manage

\* Nobody creates a pipeline while the nodes and their resources change: the
\* manager waits until the counter is zero, and the status lets nobody in.
LEMMA WholeStep == TypeOK /\ GuardsCounted /\ Shape /\ CreatesFromWhole /\ [Next]_vars => CreatesFromWhole'
<1> SUFFICES ASSUME TypeOK, GuardsCounted, Shape, CreatesFromWhole, [Next]_vars PROVE CreatesFromWhole'
    OBVIOUS
<1> USE DEF CreatesFromWhole, Shape, StatusOK, SubscribedOK, ResourcesOK, RequestsOK,
            Custom, TypeOK, States, ManagerPoints, Reloadable, Retirable, Notifiable,
            Validatable, Validating, Resting, Replacing, isAvailable,
            isRevalidationRequired, Rewritten, definition, managing, used, requests, history
<1>1. CASE CreateDefinition \/ Replace
    BY <1>1 DEF CreateDefinition, Replace
<1>2. CASE Reload \/ RetireEvent
    BY <1>2 DEF Reload, RetireEvent, Handle
<1>3. CASE ResetSubscriptions \/ NothingToRetire \/ NothingToRevalidate
    BY <1>3 DEF ResetSubscriptions, NothingToRetire, NothingToRevalidate
<1>4. CASE Drained
    BY <1>4, NobodyHolds DEF Drained, Guarding
<1>5. CASE DrainedRetired
    BY <1>5, NobodyHolds DEF DrainedRetired, Guarding
<1>6. CASE Retire \/ Clear
    BY <1>6 DEF Retire, Clear
<1>7. CASE Revalidate
    BY <1>7 DEF Revalidate
<1>8. CASE NameOccupied
    BY <1>8 DEF NameOccupied
<1>9. CASE InitializeNodeResources \/ ValidateNodes \/ UpdateInputsInfo \/ UpdateOutputsInfo
    BY <1>9
    DEF InitializeNodeResources, ValidateNodes, UpdateInputsInfo, UpdateOutputsInfo,
        NodesValid
<1>10. CASE NotifyResult
    BY <1>10 DEF NotifyResult, Handle
<1>11. CASE QueueReload \/ StartReload \/ WriteNotice \/ NotifyThrows \/ EndReload
    BY <1>11
    DEF QueueReload, StartReload, WriteNotice, NotifyThrows, EndReload,
        AfterUsedModelChanged, NotifiedByVersion
<1>12. ASSUME NEW m \in UsedModels, NEW t \in Configs \cup {None}, NEW o \in BOOLEAN,
              LoadModels(m, t, o)
       PROVE  CreatesFromWhole'
    BY <1>12 DEF LoadModels, ManagerChanges, Handle, AfterUsedModelChanged
<1>13. ASSUME NEW m \in UsedModels, ReloadGated(m) PROVE CreatesFromWhole'
    BY <1>13 DEF ReloadGated, ManagerChanges, Handle, AfterUsedModelChanged
<1>14. ASSUME NEW m \in UsedModels, Update(m) PROVE CreatesFromWhole'
    BY <1>14 DEF Update, ManagerChanges, Handle, AfterUsedModelChanged
<1>15. ASSUME NEW p \in Requests, Arrive(p) \/ Serve(p) PROVE CreatesFromWhole'
    BY <1>15, RequestFrame
    DEF Serve, Arrive, FindAvailable, FindUnavailable, LookAgain, Wake, TimeOut, Created, Goto
<1>16. CASE UNCHANGED vars
    BY <1>16 DEF vars
<1> QED
    BY <1>1, <1>2, <1>3, <1>4, <1>5, <1>6, <1>7, <1>8, <1>9, <1>10, <1>11, <1>12, <1>13,
       <1>14, <1>15, <1>16
    DEF Next, LoadConfig, Watch, Manage

\* What is known of the used model.
LEMMA ModelStep == TypeOK /\ Knowledge /\ [Next]_vars => ModelOK'
<1> SUFFICES ASSUME TypeOK, Knowledge, [Next]_vars PROVE ModelOK'
    OBVIOUS
<1> USE DEF Knowledge, ModelOK, TypeOK, UsedModels, Successors, definition, managing, used,
            requests, history
<1>1. CASE CreateDefinition \/ Replace
    BY <1>1, MetasAssumption DEF CreateDefinition, Replace
<1>2. CASE Reload \/ RetireEvent
    BY <1>2, MetasAssumption DEF Reload, RetireEvent, Handle
<1>3. CASE ResetSubscriptions \/ Drained \/ DrainedRetired \/ NothingToRetire \/
           NothingToRevalidate
    BY <1>3, MetasAssumption
    DEF ResetSubscriptions, Drained, DrainedRetired, NothingToRetire, NothingToRevalidate
<1>4. CASE Retire \/ Clear
    BY <1>4, MetasAssumption DEF Retire, Clear
<1>5. CASE Revalidate
    BY <1>5, MetasAssumption DEF Revalidate
<1>6. CASE NameOccupied
    BY <1>6, MetasAssumption DEF NameOccupied
<1>7. CASE InitializeNodeResources \/ ValidateNodes \/ UpdateInputsInfo \/ UpdateOutputsInfo
    BY <1>7, MetasAssumption
    DEF InitializeNodeResources, ValidateNodes, UpdateInputsInfo, UpdateOutputsInfo,
        NodesValid
<1>8. CASE NotifyResult
    BY <1>8, MetasAssumption DEF NotifyResult, Handle
<1>9. CASE QueueReload \/ StartReload \/ WriteNotice \/ NotifyThrows \/ EndReload
    BY <1>9, MetasAssumption
    DEF QueueReload, StartReload, WriteNotice, NotifyThrows, EndReload,
        AfterUsedModelChanged, NotifiedByVersion
<1>10. ASSUME NEW m \in UsedModels, NEW t \in Configs \cup {None}, NEW o \in BOOLEAN,
              LoadModels(m, t, o)
       PROVE  ModelOK'
    BY <1>10, MetasAssumption DEF LoadModels, ManagerChanges, Handle, AfterUsedModelChanged
<1>11. ASSUME NEW m \in UsedModels, ReloadGated(m) PROVE ModelOK'
    BY <1>11, MetasAssumption DEF ReloadGated, ManagerChanges, Handle, AfterUsedModelChanged
<1>12. ASSUME NEW m \in UsedModels, Update(m) PROVE ModelOK'
    BY <1>12, MetasAssumption DEF Update, ManagerChanges, Handle, AfterUsedModelChanged
<1>13. ASSUME NEW p \in Requests, Arrive(p) \/ Serve(p) PROVE ModelOK'
    BY <1>13, RequestFrame
<1>14. CASE UNCHANGED vars
    BY <1>14 DEF vars
<1> QED
    BY <1>1, <1>2, <1>3, <1>4, <1>5, <1>6, <1>7, <1>8, <1>9, <1>10, <1>11, <1>12, <1>13,
       <1>14
    DEF Next, LoadConfig, Watch, Manage

\* A model and its versions stay known, so that what could subscribe still
\* can, and what was found valid did subscribe.
LEMMA NoticesStep == TypeOK /\ Shape /\ Knowledge /\ [Next]_vars => NoticesOK'
<1> SUFFICES ASSUME TypeOK, Shape, Knowledge, [Next]_vars PROVE NoticesOK'
    OBVIOUS
<1> USE DEF NoticesOK, CanSubscribe, Knowledge, ModelOK, Shape, StatusOK, SubscribedOK,
            TypeOK, UsedModels, Successors, States, ManagerPoints, Reloadable, Retirable,
            Notifiable, Validatable, Validating, Resting, Replacing, isAvailable,
            isRevalidationRequired, Rewritten, definition, managing, used, requests, history
<1>1. CASE CreateDefinition \/ Replace
    BY <1>1 DEF CreateDefinition, Replace
<1>2. CASE Reload \/ RetireEvent
    BY <1>2 DEF Reload, RetireEvent, Handle
<1>3. CASE ResetSubscriptions \/ Drained \/ DrainedRetired \/ NothingToRetire \/
           NothingToRevalidate
    BY <1>3
    DEF ResetSubscriptions, Drained, DrainedRetired, NothingToRetire, NothingToRevalidate
<1>4. CASE Retire \/ Clear
    BY <1>4 DEF Retire, Clear
<1>5. CASE Revalidate
    BY <1>5 DEF Revalidate
<1>6. CASE NameOccupied
    BY <1>6 DEF NameOccupied
<1>7. CASE InitializeNodeResources \/ UpdateInputsInfo \/ UpdateOutputsInfo
    BY <1>7 DEF InitializeNodeResources, UpdateInputsInfo, UpdateOutputsInfo, NodesValid
<1>8. CASE ValidateNodes
    BY <1>8, MetasAssumption, ConfigsAssumption DEF ValidateNodes, NodesValid
<1>9. CASE NotifyResult
    BY <1>9 DEF NotifyResult, Handle
<1>10. CASE QueueReload \/ StartReload \/ WriteNotice \/ NotifyThrows
    BY <1>10
    DEF QueueReload, StartReload, WriteNotice, NotifyThrows, AfterUsedModelChanged,
        NotifiedByVersion
<1>11. CASE EndReload
    BY <1>11, MetasAssumption DEF EndReload, AfterUsedModelChanged, NotifiedByVersion
<1>12. ASSUME NEW m \in UsedModels, NEW t \in Configs \cup {None}, NEW o \in BOOLEAN,
              LoadModels(m, t, o)
       PROVE  NoticesOK'
    BY <1>12 DEF LoadModels, ManagerChanges, Handle, AfterUsedModelChanged
<1>13. ASSUME NEW m \in UsedModels, ReloadGated(m) PROVE NoticesOK'
    BY <1>13 DEF ReloadGated, ManagerChanges, Handle, AfterUsedModelChanged
<1>14. ASSUME NEW m \in UsedModels, Update(m) PROVE NoticesOK'
    BY <1>14 DEF Update, ManagerChanges, Handle, AfterUsedModelChanged
<1>15. ASSUME NEW p \in Requests, Arrive(p) \/ Serve(p) PROVE NoticesOK'
    BY <1>15, RequestFrame
<1>16. CASE UNCHANGED vars
    BY <1>16 DEF vars
<1> QED
    BY <1>1, <1>2, <1>3, <1>4, <1>5, <1>6, <1>7, <1>8, <1>9, <1>10, <1>11, <1>12, <1>13,
       <1>14, <1>15, <1>16
    DEF Next, LoadConfig, Watch, Manage

\* While a definition is validated only a request changes the model, and that
\* is what unnoticed records.
LEMMA SeenStep == TypeOK /\ Shape /\ Knowledge /\ [Next]_vars => SeenOK'
<1> SUFFICES ASSUME TypeOK, Shape, Knowledge, [Next]_vars PROVE SeenOK'
    OBVIOUS
<1> USE DEF SeenOK, Source, Knowledge, ModelOK, NoticesOK, Shape, StatusOK, SubscribedOK,
            TypeOK, UsedModels, Successors, States, ManagerPoints, Reloadable, Retirable,
            Notifiable, Validatable, Validating, Resting, Replacing, isAvailable,
            isRevalidationRequired, Rewritten, definition, managing, used, requests, history
<1>1. CASE CreateDefinition \/ Replace
    BY <1>1 DEF CreateDefinition, Replace
<1>2. CASE Reload \/ RetireEvent
    BY <1>2 DEF Reload, RetireEvent, Handle
<1>3. CASE ResetSubscriptions \/ Drained \/ DrainedRetired \/ NothingToRetire \/
           NothingToRevalidate
    BY <1>3
    DEF ResetSubscriptions, Drained, DrainedRetired, NothingToRetire, NothingToRevalidate
<1>4. CASE Retire \/ Clear
    BY <1>4 DEF Retire, Clear
<1>5. CASE Revalidate
    BY <1>5 DEF Revalidate
<1>6. CASE NameOccupied
    BY <1>6 DEF NameOccupied
<1>7. CASE InitializeNodeResources \/ ValidateNodes \/ UpdateInputsInfo \/ UpdateOutputsInfo
    BY <1>7
    DEF InitializeNodeResources, ValidateNodes, UpdateInputsInfo, UpdateOutputsInfo,
        NodesValid
<1>8. CASE NotifyResult
    BY <1>8 DEF NotifyResult, Handle
<1>9. CASE QueueReload \/ StartReload \/ WriteNotice \/ NotifyThrows
    BY <1>9
    DEF QueueReload, StartReload, WriteNotice, NotifyThrows, AfterUsedModelChanged,
        NotifiedByVersion
<1>10. CASE EndReload
    BY <1>10, MetasAssumption, ConfigsAssumption
    DEF EndReload, AfterUsedModelChanged, NotifiedByVersion
<1>11. ASSUME NEW m \in UsedModels, NEW t \in Configs \cup {None}, NEW o \in BOOLEAN,
              LoadModels(m, t, o)
       PROVE  SeenOK'
    BY <1>11 DEF LoadModels, ManagerChanges, Handle, AfterUsedModelChanged
<1>12. ASSUME NEW m \in UsedModels, ReloadGated(m) PROVE SeenOK'
    BY <1>12 DEF ReloadGated, ManagerChanges, Handle, AfterUsedModelChanged
<1>13. ASSUME NEW m \in UsedModels, Update(m) PROVE SeenOK'
    BY <1>13 DEF Update, ManagerChanges, Handle, AfterUsedModelChanged
<1>14. ASSUME NEW p \in Requests, Arrive(p) \/ Serve(p) PROVE SeenOK'
    BY <1>14, RequestFrame
<1>15. CASE UNCHANGED vars
    BY <1>15 DEF vars
<1> QED
    BY <1>1, <1>2, <1>3, <1>4, <1>5, <1>6, <1>7, <1>8, <1>9, <1>10, <1>11, <1>12, <1>13,
       <1>14, <1>15
    DEF Next, LoadConfig, Watch, Manage

\* Every other change of the model moves an available definition to
\* AVAILABLE_REQUIRED_REVALIDATION.
LEMMA AvailableStep == TypeOK /\ Shape /\ Knowledge /\ AvailableIsValidated /\ [Next]_vars => AvailableIsValidated'
<1> SUFFICES ASSUME TypeOK, Shape, Knowledge, AvailableIsValidated, [Next]_vars PROVE AvailableIsValidated'
    OBVIOUS
<1> USE DEF AvailableIsValidated, SeenOK, Source, Knowledge, ModelOK, NoticesOK, Shape,
            StatusOK, SubscribedOK, TypeOK, UsedModels, Successors, States, ManagerPoints,
            Reloadable, Retirable, Notifiable, Validatable, Validating, Resting, Replacing,
            isAvailable, isRevalidationRequired, Rewritten, definition, managing, used,
            requests, history
<1>1. CASE CreateDefinition \/ Replace
    BY <1>1 DEF CreateDefinition, Replace
<1>2. CASE Reload \/ RetireEvent
    BY <1>2 DEF Reload, RetireEvent, Handle
<1>3. CASE ResetSubscriptions \/ Drained \/ DrainedRetired \/ NothingToRetire \/
           NothingToRevalidate
    BY <1>3
    DEF ResetSubscriptions, Drained, DrainedRetired, NothingToRetire, NothingToRevalidate
<1>4. CASE Retire \/ Clear
    BY <1>4 DEF Retire, Clear
<1>5. CASE Revalidate
    BY <1>5 DEF Revalidate
<1>6. CASE NameOccupied
    BY <1>6 DEF NameOccupied
<1>7. CASE InitializeNodeResources \/ ValidateNodes \/ UpdateInputsInfo \/ UpdateOutputsInfo
    BY <1>7
    DEF InitializeNodeResources, ValidateNodes, UpdateInputsInfo, UpdateOutputsInfo,
        NodesValid
<1>8. CASE NotifyResult
    BY <1>8 DEF NotifyResult, Handle
<1>9. CASE QueueReload \/ StartReload \/ WriteNotice \/ NotifyThrows
    BY <1>9
    DEF QueueReload, StartReload, WriteNotice, NotifyThrows, AfterUsedModelChanged,
        NotifiedByVersion
<1>10. CASE EndReload
    BY <1>10, MetasAssumption, ConfigsAssumption
    DEF EndReload, AfterUsedModelChanged, NotifiedByVersion
<1>11. ASSUME NEW m \in UsedModels, NEW t \in Configs \cup {None}, NEW o \in BOOLEAN,
              LoadModels(m, t, o)
       PROVE  AvailableIsValidated'
    BY <1>11 DEF LoadModels, ManagerChanges, Handle, AfterUsedModelChanged
<1>12. ASSUME NEW m \in UsedModels, ReloadGated(m) PROVE AvailableIsValidated'
    BY <1>12 DEF ReloadGated, ManagerChanges, Handle, AfterUsedModelChanged
<1>13. ASSUME NEW m \in UsedModels, Update(m) PROVE AvailableIsValidated'
    BY <1>13 DEF Update, ManagerChanges, Handle, AfterUsedModelChanged
<1>14. ASSUME NEW p \in Requests, Arrive(p) \/ Serve(p) PROVE AvailableIsValidated'
    BY <1>14, RequestFrame
<1>15. CASE UNCHANGED vars
    BY <1>15 DEF vars
<1> QED
    BY <1>1, <1>2, <1>3, <1>4, <1>5, <1>6, <1>7, <1>8, <1>9, <1>10, <1>11, <1>12, <1>13,
       <1>14, <1>15
    DEF Next, LoadConfig, Watch, Manage

-----------------------------------------------------------------------------
(***************************************************************************)
(* The invariant holds from the start and in every behaviour               *)
(***************************************************************************)

\* Before the first cycle there is no definition and nobody asks for one.
LEMMA InvInit == Init => IInv
<1> SUFFICES ASSUME Init PROVE IInv
    OBVIOUS
<1> USE DEF Init
<1>1. TypeOK
  <2>1. model \in UsedModels
    <3>1. FALSE \in BOOLEAN
      OBVIOUS
    <3> QED
      BY <3>1 DEF UsedModels
  <2>2. Flags
    BY Zenon DEF Flags
  <2> QED
    BY <2>1, <2>2, CheckpointsAssumption DEF TypeOK, Flags, States, ManagerPoints
<1>2. GuardsCounted
  <2>1. HoldersOf(pc) = {}
    BY DEF HoldersOf
  <2> QED
    BY <2>1, FS_EmptySet DEF GuardsCounted
<1>3. Shape
    BY DEF Shape, StatusOK, SubscribedOK, ResourcesOK, RequestsOK, Validating, Resting, Replacing,
           isAvailable, Custom
<1>4. CreatesFromWhole /\ Knowledge /\ AvailableIsValidated
    BY DEF CreatesFromWhole, Knowledge, ModelOK, NoticesOK, SeenOK, AvailableIsValidated,
           Validating, isAvailable, isRevalidationRequired
<1> QED
    BY <1>1, <1>2, <1>3, <1>4 DEF IInv

\* Each conjunct is kept by every step, given the others.
LEMMA InvStep == IInv /\ [Next]_vars => IInv'
<1> SUFFICES ASSUME IInv, [Next]_vars PROVE IInv'
    OBVIOUS
<1>1. TypeOK /\ GuardsCounted /\ Shape /\ CreatesFromWhole /\ Knowledge /\ AvailableIsValidated
    BY DEF IInv
<1>2. TypeOK' /\ GuardsCounted'
    BY <1>1, TypeStep, CountStep
<1>3. Shape'
    BY <1>1, StatusStep, SubscribedStep, ResourcesStep, RequestsStep DEF Shape
<1>4. Knowledge'
    BY <1>1, ModelStep, NoticesStep, SeenStep DEF Knowledge
<1>5. CreatesFromWhole' /\ AvailableIsValidated'
    BY <1>1, WholeStep, AvailableStep
<1> QED
    BY <1>2, <1>3, <1>4, <1>5 DEF IInv

\* The invariant holds in every behaviour of the definition.
LEMMA InvHolds == Spec => []IInv
BY InvInit, InvStep, PTL DEF Spec

-----------------------------------------------------------------------------
(***************************************************************************)
(* The theorems of a definition                                            *)
(***************************************************************************)

\* The definition is always well typed; in particular requestsHandlesCounter,
\* which is unsigned in pipelinedefinition.hpp, never goes below zero.
THEOREM DefinitionTypeCorrect == Spec => []TypeOK
<1>1. IInv => TypeOK
    BY DEF IInv
<1> QED
    BY InvHolds, <1>1, PTL

\* However many requests create pipelines, none reads nodes or resources that
\* a reload or a retirement replaces, and none asks for a resource that is not
\* there (create against reload, retire and validate), unless a notification
\* has overwritten the status.
THEOREM PipelinesAreCreatedFromWhole == Spec => []CreatesFromWhole
<1>1. IInv => CreatesFromWhole
    BY DEF IInv
<1> QED
    BY InvHolds, <1>1, PTL

\* What is AVAILABLE describes the model that it uses, as long as notifications
\* reach the definition, outside of validation, and overwrite nothing
\* (notifyUsedModelChanged and ValidationResultNotifier).
THEOREM AvailableDefinitionsAreValidated == Spec => []AvailableIsValidated
<1>1. IInv => AvailableIsValidated
    BY DEF IInv
<1> QED
    BY InvHolds, <1>1, PTL

\* No event that the manager raises is refused by the state machine in
\* pipelinedefinitionstatus.hpp.
THEOREM ManagerRaisesValidEvents == Spec => []ManagerNeverThrows
<1>1. IInv => ManagerNeverThrows
    BY DEF IInv, Shape, StatusOK, ManagerNeverThrows
<1> QED
    BY InvHolds, <1>1, PTL

-----------------------------------------------------------------------------
(***************************************************************************)
(* The execution: a walk, a check and a feeding as the steps they consist  *)
(* of                                                                      *)
(***************************************************************************)

\* What holds of zero, and of each number after one of which it holds, holds of
\* all numbers (with the least number of which it does not).
LEMMA Induction ==
    ASSUME NEW T, 0 \in T, \A k \in Nat : k \in T => k + 1 \in T
    PROVE  \A k \in Nat : k \in T
<1> SUFFICES ASSUME NEW k \in Nat, k \notin T PROVE FALSE
  OBVIOUS
<1> DEFINE Rest == {i \in Nat : i \notin T}
           R == OpToRel(<, Nat)
<1>1. PICK x \in Rest : \A y \in Rest : <<y, x>> \notin R
  <2>1. Rest \in SUBSET Nat /\ Rest # {}
    OBVIOUS
  <2> HIDE DEF Rest
  <2> QED
    BY <2>1, NatLessThanWellFounded, WFMin, Zenon
<1>2. \A y \in Rest : ~(y < x)
  BY <1>1 DEF OpToRel
<1>3. x \in Nat /\ x \notin T
  BY <1>1
<1>4. x # 0
  BY <1>3
<1>5. x - 1 \in Nat /\ (x - 1) + 1 = x
  BY <1>3, <1>4
<1>6. x - 1 \in T
  BY <1>2, <1>5
<1> QED
  BY <1>3, <1>5, <1>6

WalkStart(g) ==
    [node |-> ExitOf(g), visited |-> {ExitOf(g)}, parentNodes |-> <<>>, done |-> FALSE, cycle |-> FALSE]
CheckNext(g, check, m, d) == IF check.ok THEN CheckConnection(g, check, m, d) ELSE check
OrderStart(g) ==
    [ok |-> TRUE, nodesToCheck |-> <<ExitOf(g)>>,
     stacks |-> Put(<<>>, ExitOf(g), IF g.gatherFrom[ExitOf(g)] = {} THEN <<>> ELSE <<g.gatherFrom[ExitOf(g)]>>)]

\* The walk of validateForCycles, one visit after another.
WalkedSteps(g, n, h) ==
    /\ DOMAIN h = 0 .. n /\ h[0] = WalkStart(g)
    /\ \A i \in 0 .. n - 1 : h[i + 1] = Visit(g, h[i])
    /\ Walked(g) = h[n]

\* The walk of validateForCycles is made of its visits.
LEMMA WalkedIs ==
    ASSUME NEW g, NEW n \in Nat, 2 * Cardinality(g.nodes) = n
    PROVE  \E h : WalkedSteps(g, n, h)
<1> DEFINE F(k, h) == h = [i \in 0 .. k |-> IF i = 0 THEN WalkStart(g) ELSE Visit(g, h[i - 1])]
           T == {k \in Nat : \E h : F(k, h)}
<1>1. 0 \in T
  <2> F(0, [i \in 0 .. 0 |-> WalkStart(g)])
    OBVIOUS
  <2> QED
    OBVIOUS
<1>2. ASSUME NEW k \in Nat, k \in T PROVE k + 1 \in T
  <2>1. PICK h : F(k, h)
    BY <1>2
  <2> DEFINE e == [i \in 0 .. k + 1 |-> IF i = 0 THEN WalkStart(g) ELSE Visit(g, h[i - 1])]
  <2>2. \A i \in 1 .. k + 1 : i - 1 \in 0 .. k /\ i - 1 \in 0 .. k + 1
    OBVIOUS
  <2>3. \A i \in 1 .. k + 1 : e[i - 1] = h[i - 1]
    BY <2>1, <2>2
  <2>4. e = [i \in 0 .. k + 1 |-> IF i = 0 THEN WalkStart(g) ELSE Visit(g, h[i - 1])]
    OBVIOUS
  <2> HIDE DEF e
  <2>5. ASSUME NEW i \in 0 .. k + 1, i # 0 PROVE Visit(g, h[i - 1]) = Visit(g, e[i - 1])
    <3>1. i \in 1 .. k + 1
      BY <2>5
    <3> QED
      BY <2>3, <3>1
  <2>6. F(k + 1, e)
    BY <2>4, <2>5
  <2> HIDE DEF F
  <2> QED
    BY <2>6
<1>3. n \in T
  <2> HIDE DEF T
  <2> QED
    BY <1>1, <1>2, Induction
<1> DEFINE c == CHOOSE h : F(n, h)
<1>4. F(n, c)
  BY <1>3
<1>5. Walked(g) = c[n]
  BY DEF Walked, WalkStart
<1> HIDE DEF c
<1>6. DOMAIN c = 0 .. n /\ c[0] = WalkStart(g)
  BY <1>4
<1>7. \A i \in 0 .. n - 1 : i + 1 \in 0 .. n /\ i + 1 # 0 /\ (i + 1) - 1 = i
  OBVIOUS
<1>8. ASSUME NEW i \in 0 .. n - 1 PROVE c[i + 1] = Visit(g, c[i])
  <2> DEFINE j == i + 1
  <2>1. j \in 0 .. n /\ j # 0 /\ j - 1 = i
    BY <1>7
  <2> HIDE DEF j
  <2>2. c[j] = Visit(g, c[j - 1])
    BY <1>4, <2>1
  <2> QED
    BY <2>1, <2>2 DEF j
<1> QED
  BY <1>5, <1>6, <1>8 DEF WalkedSteps

\* The connections of a node, one after another.
ConnectionsSteps(g, check, m, ds, n, h) ==
    /\ DOMAIN h = 0 .. n /\ h[0] = check
    /\ \A i \in 0 .. n - 1 : h[i + 1] = CheckNext(g, h[i], m, ds[i + 1])
    /\ CheckConnections(g, check, m) = h[n]

\* The check of a node is made of the checks of its connections.
LEMMA ConnectionsIs ==
    ASSUME NEW g, NEW check, NEW m, NEW ds, ds = SetToSeq(g.deps[m]), NEW n \in Nat, Len(ds) = n
    PROVE  \E h : ConnectionsSteps(g, check, m, ds, n, h)
<1> DEFINE F(k, h) == h = [i \in 0 .. k |-> IF i = 0 THEN check ELSE CheckNext(g, h[i - 1], m, ds[i])]
           T == {k \in Nat : \E h : F(k, h)}
<1>1. 0 \in T
  <2> F(0, [i \in 0 .. 0 |-> check])
    OBVIOUS
  <2> QED
    OBVIOUS
<1>2. ASSUME NEW k \in Nat, k \in T PROVE k + 1 \in T
  <2>1. PICK h : F(k, h)
    BY <1>2
  <2> DEFINE e == [i \in 0 .. k + 1 |-> IF i = 0 THEN check ELSE CheckNext(g, h[i - 1], m, ds[i])]
  <2>2. \A i \in 1 .. k + 1 : i - 1 \in 0 .. k /\ i - 1 \in 0 .. k + 1
    OBVIOUS
  <2>3. \A i \in 1 .. k + 1 : e[i - 1] = h[i - 1]
    BY <2>1, <2>2
  <2>4. e = [i \in 0 .. k + 1 |-> IF i = 0 THEN check ELSE CheckNext(g, h[i - 1], m, ds[i])]
    OBVIOUS
  <2> HIDE DEF e
  <2>5. ASSUME NEW i \in 0 .. k + 1, i # 0 PROVE CheckNext(g, h[i - 1], m, ds[i]) = CheckNext(g, e[i - 1], m, ds[i])
    <3>1. i \in 1 .. k + 1
      BY <2>5
    <3> QED
      BY <2>3, <3>1
  <2>6. F(k + 1, e)
    BY <2>4, <2>5
  <2> HIDE DEF F
  <2> QED
    BY <2>6
<1>3. n \in T
  <2> HIDE DEF T
  <2> QED
    BY <1>1, <1>2, Induction
<1> DEFINE c == CHOOSE h : F(n, h)
<1>4. F(n, c)
  BY <1>3
<1>5. CheckConnections(g, check, m) = c[n]
  BY DEF CheckConnections, CheckNext
<1> HIDE DEF c
<1>6. DOMAIN c = 0 .. n /\ c[0] = check
  BY <1>4
<1>7. \A i \in 0 .. n - 1 : i + 1 \in 0 .. n /\ i + 1 # 0 /\ (i + 1) - 1 = i
  OBVIOUS
<1>8. ASSUME NEW i \in 0 .. n - 1 PROVE c[i + 1] = CheckNext(g, c[i], m, ds[i + 1])
  <2> DEFINE j == i + 1
  <2>1. j \in 0 .. n /\ j # 0 /\ j - 1 = i
    BY <1>7
  <2> HIDE DEF j
  <2>2. c[j] = CheckNext(g, c[j - 1], m, ds[j])
    BY <1>4, <2>1
  <2> QED
    BY <2>1, <2>2 DEF j
<1> QED
  BY <1>5, <1>6, <1>8 DEF ConnectionsSteps

\* The nodes, one after another.
OrderCheckSteps(g, n, h) ==
    /\ DOMAIN h = 0 .. n /\ h[0] = OrderStart(g)
    /\ \A i \in 0 .. n - 1 : h[i + 1] = CheckNode(g, h[i])
    /\ OrderCheck(g) = h[n]

\* validateDemultiplexerGatherNodesOrder is made of the checks of the nodes.
LEMMA OrderCheckIs ==
    ASSUME NEW g, NEW n \in Nat, Cardinality(g.nodes) = n
    PROVE  \E h : OrderCheckSteps(g, n, h)
<1> DEFINE F(k, h) == h = [i \in 0 .. k |-> IF i = 0 THEN OrderStart(g) ELSE CheckNode(g, h[i - 1])]
           T == {k \in Nat : \E h : F(k, h)}
<1>1. 0 \in T
  <2> F(0, [i \in 0 .. 0 |-> OrderStart(g)])
    OBVIOUS
  <2> QED
    OBVIOUS
<1>2. ASSUME NEW k \in Nat, k \in T PROVE k + 1 \in T
  <2>1. PICK h : F(k, h)
    BY <1>2
  <2> DEFINE e == [i \in 0 .. k + 1 |-> IF i = 0 THEN OrderStart(g) ELSE CheckNode(g, h[i - 1])]
  <2>2. \A i \in 1 .. k + 1 : i - 1 \in 0 .. k /\ i - 1 \in 0 .. k + 1
    OBVIOUS
  <2>3. \A i \in 1 .. k + 1 : e[i - 1] = h[i - 1]
    BY <2>1, <2>2
  <2>4. e = [i \in 0 .. k + 1 |-> IF i = 0 THEN OrderStart(g) ELSE CheckNode(g, h[i - 1])]
    OBVIOUS
  <2> HIDE DEF e
  <2>5. ASSUME NEW i \in 0 .. k + 1, i # 0 PROVE CheckNode(g, h[i - 1]) = CheckNode(g, e[i - 1])
    <3>1. i \in 1 .. k + 1
      BY <2>5
    <3> QED
      BY <2>3, <3>1
  <2>6. F(k + 1, e)
    BY <2>4, <2>5
  <2> HIDE DEF F
  <2> QED
    BY <2>6
<1>3. n \in T
  <2> HIDE DEF T
  <2> QED
    BY <1>1, <1>2, Induction
<1> DEFINE c == CHOOSE h : F(n, h)
<1>4. F(n, c)
  BY <1>3
<1>5. OrderCheck(g) = c[n]
  BY DEF OrderCheck, OrderStart
<1> HIDE DEF c
<1>6. DOMAIN c = 0 .. n /\ c[0] = OrderStart(g)
  BY <1>4
<1>7. \A i \in 0 .. n - 1 : i + 1 \in 0 .. n /\ i + 1 # 0 /\ (i + 1) - 1 = i
  OBVIOUS
<1>8. ASSUME NEW i \in 0 .. n - 1 PROVE c[i + 1] = CheckNode(g, c[i])
  <2> DEFINE j == i + 1
  <2>1. j \in 0 .. n /\ j # 0 /\ j - 1 = i
    BY <1>7
  <2> HIDE DEF j
  <2>2. c[j] = CheckNode(g, c[j - 1])
    BY <1>4, <2>1
  <2> QED
    BY <2>1, <2>2 DEF j
<1> QED
  BY <1>5, <1>6, <1>8 DEF OrderCheckSteps

\* The product of the sizes, one level after another.
ProductSteps(s, n, h) ==
    /\ DOMAIN h = 0 .. n /\ h[0] = 1
    /\ \A i \in 0 .. n - 1 : h[i + 1] = h[i] * s[i + 1]
    /\ Product(s) = h[n]

\* The number of combinations is multiplied up level by level.
LEMMA ProductIs ==
    ASSUME NEW s, NEW n \in Nat, Len(s) = n
    PROVE  \E h : ProductSteps(s, n, h)
<1> DEFINE F(k, h) == h = [i \in 0 .. k |-> IF i = 0 THEN 1 ELSE h[i - 1] * s[i]]
           T == {k \in Nat : \E h : F(k, h)}
<1>1. 0 \in T
  <2> F(0, [i \in 0 .. 0 |-> 1])
    OBVIOUS
  <2> QED
    OBVIOUS
<1>2. ASSUME NEW k \in Nat, k \in T PROVE k + 1 \in T
  <2>1. PICK h : F(k, h)
    BY <1>2
  <2> DEFINE e == [i \in 0 .. k + 1 |-> IF i = 0 THEN 1 ELSE h[i - 1] * s[i]]
  <2>2. \A i \in 1 .. k + 1 : i - 1 \in 0 .. k /\ i - 1 \in 0 .. k + 1
    OBVIOUS
  <2>3. \A i \in 1 .. k + 1 : e[i - 1] = h[i - 1]
    BY <2>1, <2>2
  <2>4. e = [i \in 0 .. k + 1 |-> IF i = 0 THEN 1 ELSE h[i - 1] * s[i]]
    OBVIOUS
  <2> HIDE DEF e
  <2>5. ASSUME NEW i \in 0 .. k + 1, i # 0 PROVE h[i - 1] * s[i] = e[i - 1] * s[i]
    <3>1. i \in 1 .. k + 1
      BY <2>5
    <3> QED
      BY <2>3, <3>1
  <2>6. F(k + 1, e)
    BY <2>4, <2>5
  <2> HIDE DEF F
  <2> QED
    BY <2>6
<1>3. n \in T
  <2> HIDE DEF T
  <2> QED
    BY <1>1, <1>2, Induction
<1> DEFINE c == CHOOSE h : F(n, h)
<1>4. F(n, c)
  BY <1>3
<1>5. Product(s) = c[n]
  BY DEF Product
<1> HIDE DEF c
<1>6. DOMAIN c = 0 .. n /\ c[0] = 1
  BY <1>4
<1>7. \A i \in 0 .. n - 1 : i + 1 \in 0 .. n /\ i + 1 # 0 /\ (i + 1) - 1 = i
  OBVIOUS
<1>8. ASSUME NEW i \in 0 .. n - 1 PROVE c[i + 1] = c[i] * s[i + 1]
  <2> DEFINE j == i + 1
  <2>1. j \in 0 .. n /\ j # 0 /\ j - 1 = i
    BY <1>7
  <2> HIDE DEF j
  <2>2. c[j] = c[j - 1] * s[j]
    BY <1>4, <2>1
  <2> QED
    BY <2>1, <2>2 DEF j
<1> QED
  BY <1>5, <1>6, <1>8 DEF ProductSteps

\* The number of a shard, one level after another (getShardId).
ShardIdSteps(meta, names, levels, n, h) ==
    /\ DOMAIN h = 0 .. n /\ h[0] = 0
    /\ \A i \in 0 .. n - 1 : h[i + 1] = h[i] * levels[i + 1].size + levels[i + 1].id
    /\ getShardId(meta, names) = h[n]

\* getShardId goes through the levels from the outermost to the innermost.
LEMMA ShardIdIs ==
    ASSUME NEW meta, NEW names, NEW levels, levels = LastLevels(meta, names), NEW n \in Nat, Len(levels) = n
    PROVE  \E h : ShardIdSteps(meta, names, levels, n, h)
<1> DEFINE F(k, h) == h = [i \in 0 .. k |-> IF i = 0 THEN 0 ELSE h[i - 1] * levels[i].size + levels[i].id]
           T == {k \in Nat : \E h : F(k, h)}
<1>1. 0 \in T
  <2> F(0, [i \in 0 .. 0 |-> 0])
    OBVIOUS
  <2> QED
    OBVIOUS
<1>2. ASSUME NEW k \in Nat, k \in T PROVE k + 1 \in T
  <2>1. PICK h : F(k, h)
    BY <1>2
  <2> DEFINE e == [i \in 0 .. k + 1 |-> IF i = 0 THEN 0 ELSE h[i - 1] * levels[i].size + levels[i].id]
  <2>2. \A i \in 1 .. k + 1 : i - 1 \in 0 .. k /\ i - 1 \in 0 .. k + 1
    OBVIOUS
  <2>3. \A i \in 1 .. k + 1 : e[i - 1] = h[i - 1]
    BY <2>1, <2>2
  <2>4. e = [i \in 0 .. k + 1 |-> IF i = 0 THEN 0 ELSE h[i - 1] * levels[i].size + levels[i].id]
    OBVIOUS
  <2> HIDE DEF e
  <2>5. ASSUME NEW i \in 0 .. k + 1, i # 0 PROVE h[i - 1] * levels[i].size + levels[i].id = e[i - 1] * levels[i].size + levels[i].id
    <3>1. i \in 1 .. k + 1
      BY <2>5
    <3> QED
      BY <2>3, <3>1
  <2>6. F(k + 1, e)
    BY <2>4, <2>5
  <2> HIDE DEF F
  <2> QED
    BY <2>6
<1>3. n \in T
  <2> HIDE DEF T
  <2> QED
    BY <1>1, <1>2, Induction
<1> DEFINE c == CHOOSE h : F(n, h)
<1>4. F(n, c)
  BY <1>3
<1>5. getShardId(meta, names) = c[n]
  BY DEF getShardId
<1> HIDE DEF c
<1>6. DOMAIN c = 0 .. n /\ c[0] = 0
  BY <1>4
<1>7. \A i \in 0 .. n - 1 : i + 1 \in 0 .. n /\ i + 1 # 0 /\ (i + 1) - 1 = i
  OBVIOUS
<1>8. ASSUME NEW i \in 0 .. n - 1 PROVE c[i + 1] = c[i] * levels[i + 1].size + levels[i + 1].id
  <2> DEFINE j == i + 1
  <2>1. j \in 0 .. n /\ j # 0 /\ j - 1 = i
    BY <1>7
  <2> HIDE DEF j
  <2>2. c[j] = c[j - 1] * levels[j].size + levels[j].id
    BY <1>4, <2>1
  <2> QED
    BY <2>1, <2>2 DEF j
<1> QED
  BY <1>5, <1>6, <1>8 DEF ShardIdSteps

\* The results for one node, one after another.
FeedNodeSteps(start, m, d, results, n, h) ==
    /\ DOMAIN h = 0 .. n /\ h[0] = start
    /\ \A i \in 0 .. n - 1 : h[i + 1] = setInputs(h[i], m, d, results[i + 1])
    /\ FeedNode(start, m, d, results) = h[n]

\* A node takes the results of a dependency one by one (Node::setInputs).
LEMMA FeedNodeIs ==
    ASSUME NEW start, NEW m, NEW d, NEW results, NEW n \in Nat, Len(results) = n
    PROVE  \E h : FeedNodeSteps(start, m, d, results, n, h)
<1> DEFINE F(k, h) == h = [i \in 0 .. k |-> IF i = 0 THEN start ELSE setInputs(h[i - 1], m, d, results[i])]
           T == {k \in Nat : \E h : F(k, h)}
<1>1. 0 \in T
  <2> F(0, [i \in 0 .. 0 |-> start])
    OBVIOUS
  <2> QED
    OBVIOUS
<1>2. ASSUME NEW k \in Nat, k \in T PROVE k + 1 \in T
  <2>1. PICK h : F(k, h)
    BY <1>2
  <2> DEFINE e == [i \in 0 .. k + 1 |-> IF i = 0 THEN start ELSE setInputs(h[i - 1], m, d, results[i])]
  <2>2. \A i \in 1 .. k + 1 : i - 1 \in 0 .. k /\ i - 1 \in 0 .. k + 1
    OBVIOUS
  <2>3. \A i \in 1 .. k + 1 : e[i - 1] = h[i - 1]
    BY <2>1, <2>2
  <2>4. e = [i \in 0 .. k + 1 |-> IF i = 0 THEN start ELSE setInputs(h[i - 1], m, d, results[i])]
    OBVIOUS
  <2> HIDE DEF e
  <2>5. ASSUME NEW i \in 0 .. k + 1, i # 0 PROVE setInputs(h[i - 1], m, d, results[i]) = setInputs(e[i - 1], m, d, results[i])
    <3>1. i \in 1 .. k + 1
      BY <2>5
    <3> QED
      BY <2>3, <3>1
  <2>6. F(k + 1, e)
    BY <2>4, <2>5
  <2> HIDE DEF F
  <2> QED
    BY <2>6
<1>3. n \in T
  <2> HIDE DEF T
  <2> QED
    BY <1>1, <1>2, Induction
<1> DEFINE c == CHOOSE h : F(n, h)
<1>4. F(n, c)
  BY <1>3
<1>5. FeedNode(start, m, d, results) = c[n]
  BY DEF FeedNode
<1> HIDE DEF c
<1>6. DOMAIN c = 0 .. n /\ c[0] = start
  BY <1>4
<1>7. \A i \in 0 .. n - 1 : i + 1 \in 0 .. n /\ i + 1 # 0 /\ (i + 1) - 1 = i
  OBVIOUS
<1>8. ASSUME NEW i \in 0 .. n - 1 PROVE c[i + 1] = setInputs(c[i], m, d, results[i + 1])
  <2> DEFINE j == i + 1
  <2>1. j \in 0 .. n /\ j # 0 /\ j - 1 = i
    BY <1>7
  <2> HIDE DEF j
  <2>2. c[j] = setInputs(c[j - 1], m, d, results[j])
    BY <1>4, <2>1
  <2> QED
    BY <2>1, <2>2 DEF j
<1> QED
  BY <1>5, <1>6, <1>8 DEF FeedNodeSteps

\* The next nodes, one after another.
FeedSteps(sessions, ns, d, results, n, h) ==
    /\ DOMAIN h = 0 .. n /\ h[0] = [ok |-> TRUE, sessions |-> sessions]
    /\ \A i \in 0 .. n - 1 : h[i + 1] = FeedNode(h[i], ns[i + 1], d, results)
    /\ Feed(sessions, ns, d, results) = h[n]

\* The next nodes take the results one after another.
LEMMA FeedIs ==
    ASSUME NEW sessions, NEW ns, NEW d, NEW results, NEW n \in Nat, Len(ns) = n
    PROVE  \E h : FeedSteps(sessions, ns, d, results, n, h)
<1> DEFINE F(k, h) == h = [i \in 0 .. k |-> IF i = 0 THEN [ok |-> TRUE, sessions |-> sessions] ELSE FeedNode(h[i - 1], ns[i], d, results)]
           T == {k \in Nat : \E h : F(k, h)}
<1>1. 0 \in T
  <2> F(0, [i \in 0 .. 0 |-> [ok |-> TRUE, sessions |-> sessions]])
    OBVIOUS
  <2> QED
    OBVIOUS
<1>2. ASSUME NEW k \in Nat, k \in T PROVE k + 1 \in T
  <2>1. PICK h : F(k, h)
    BY <1>2
  <2> DEFINE e == [i \in 0 .. k + 1 |-> IF i = 0 THEN [ok |-> TRUE, sessions |-> sessions] ELSE FeedNode(h[i - 1], ns[i], d, results)]
  <2>2. \A i \in 1 .. k + 1 : i - 1 \in 0 .. k /\ i - 1 \in 0 .. k + 1
    OBVIOUS
  <2>3. \A i \in 1 .. k + 1 : e[i - 1] = h[i - 1]
    BY <2>1, <2>2
  <2>4. e = [i \in 0 .. k + 1 |-> IF i = 0 THEN [ok |-> TRUE, sessions |-> sessions] ELSE FeedNode(h[i - 1], ns[i], d, results)]
    OBVIOUS
  <2> HIDE DEF e
  <2>5. ASSUME NEW i \in 0 .. k + 1, i # 0 PROVE FeedNode(h[i - 1], ns[i], d, results) = FeedNode(e[i - 1], ns[i], d, results)
    <3>1. i \in 1 .. k + 1
      BY <2>5
    <3> QED
      BY <2>3, <3>1
  <2>6. F(k + 1, e)
    BY <2>4, <2>5
  <2> HIDE DEF F
  <2> QED
    BY <2>6
<1>3. n \in T
  <2> HIDE DEF T
  <2> QED
    BY <1>1, <1>2, Induction
<1> DEFINE c == CHOOSE h : F(n, h)
<1>4. F(n, c)
  BY <1>3
<1>5. Feed(sessions, ns, d, results) = c[n]
  BY DEF Feed
<1> HIDE DEF c
<1>6. DOMAIN c = 0 .. n /\ c[0] = [ok |-> TRUE, sessions |-> sessions]
  BY <1>4
<1>7. \A i \in 0 .. n - 1 : i + 1 \in 0 .. n /\ i + 1 # 0 /\ (i + 1) - 1 = i
  OBVIOUS
<1>8. ASSUME NEW i \in 0 .. n - 1 PROVE c[i + 1] = FeedNode(c[i], ns[i + 1], d, results)
  <2> DEFINE j == i + 1
  <2>1. j \in 0 .. n /\ j # 0 /\ j - 1 = i
    BY <1>7
  <2> HIDE DEF j
  <2>2. c[j] = FeedNode(c[j - 1], ns[j], d, results)
    BY <1>4, <2>1
  <2> QED
    BY <2>1, <2>2 DEF j
<1> QED
  BY <1>5, <1>6, <1>8 DEF FeedSteps

\* A sequence that is not empty is its front and its last element.
LEMMA FrontIs ==
    ASSUME NEW S, NEW s \in Seq(S), s # <<>>
    PROVE  /\ Front(s) \in Seq(S) /\ Len(s) \in Nat \ {0} /\ Len(Front(s)) = Len(s) - 1
           /\ \A i \in 1 .. Len(s) - 1 : Front(s)[i] = s[i]
           /\ Last(s) \in S /\ Last(s) = s[Len(s)]
           /\ DOMAIN s = 1 .. Len(s) /\ DOMAIN Front(s) = 1 .. Len(s) - 1
<1>1. Len(s) \in Nat \ {0} /\ DOMAIN s = 1 .. Len(s) /\ \A i \in 1 .. Len(s) : s[i] \in S
  BY EmptySeq, LenProperties, ElementOfSeq
<1>2. /\ SubSeq(s, 1, Len(s) - 1) \in Seq(S)
      /\ Len(SubSeq(s, 1, Len(s) - 1)) = IF 1 <= Len(s) - 1 THEN (Len(s) - 1) - 1 + 1 ELSE 0
      /\ \A i \in 1 .. (Len(s) - 1) - 1 + 1 : SubSeq(s, 1, Len(s) - 1)[i] = s[1 + i - 1]
  <2>1. Len(s) - 1 \in Int /\ 1 \in Int /\ \A i \in 1 .. Len(s) - 1 : s[i] \in S
    BY <1>1
  <2> QED
    BY <2>1, SubSeqProperties
<1>3. Front(s) \in Seq(S) /\ Len(Front(s)) = Len(s) - 1
  BY <1>1, <1>2 DEF Front
<1>4. \A i \in 1 .. Len(s) - 1 : Front(s)[i] = s[i]
  BY <1>1, <1>2 DEF Front
<1>5. DOMAIN Front(s) = 1 .. Len(s) - 1
  BY <1>3, LenProperties
<1>6. Last(s) \in S /\ Last(s) = s[Len(s)]
  BY <1>1 DEF Last
<1> QED
  BY <1>1, <1>3, <1>4, <1>5, <1>6

\* The elements of a finite set in a sequence, each once.
LEMMA SetToSeqIs ==
    ASSUME NEW S, IsFiniteSet(S)
    PROVE  /\ SetToSeq(S) \in Seq(S) /\ Len(SetToSeq(S)) = Cardinality(S) /\ Cardinality(S) \in Nat
           /\ \A i, j \in 1 .. Cardinality(S) : SetToSeq(S)[i] = SetToSeq(S)[j] => i = j
           /\ \A x \in S : \E i \in 1 .. Cardinality(S) : SetToSeq(S)[i] = x
<1> DEFINE n == Cardinality(S)
<1>1. n \in Nat /\ ExistsBijection(1 .. n, S)
  BY FS_CardinalityType
<1>2. PICK b \in [1 .. n -> S] : IsInjective(b)
  <2>1. PICK b : b \in Bijection(1 .. n, S)
    BY <1>1 DEF ExistsBijection
  <2>2. b \in Injection(1 .. n, S)
    BY <2>1 DEF Bijection
  <2>3. b \in [1 .. n -> S] /\ \A i, j \in 1 .. n : b[i] = b[j] => i = j
    BY <2>2 DEF Injection, IsInjective
  <2>4. IsInjective(b)
    BY <2>3 DEF IsInjective
  <2> QED
    BY <2>3, <2>4
<1> DEFINE f == SetToSeq(S)
<1>3. f \in [1 .. n -> S] /\ IsInjective(f)
  BY <1>2 DEF SetToSeq
<1> HIDE DEF f
<1>4. \A i, j \in 1 .. n : f[i] = f[j] => i = j
  BY <1>3 DEF IsInjective
<1>5. f \in Injection(1 .. n, S)
  BY <1>3, <1>4 DEF Injection, IsInjective
<1>6. IsFiniteSet(1 .. n) /\ Cardinality(1 .. n) = n
  BY <1>1, FS_Interval
<1>7. f \in Surjection(1 .. n, S)
  <2> HIDE DEF n
  <2>1. Cardinality(1 .. n) = Cardinality(S)
    BY <1>6 DEF n
  <2> QED
    BY <1>5, <2>1, FS_Injection
<1>8. \A x \in S : \E i \in 1 .. n : f[i] = x
  <2> HIDE DEF n
  <2> QED
    BY <1>7 DEF Surjection
<1>9. f \in Seq(S) /\ Len(f) = n
  BY <1>1, <1>3
<1> QED
  BY <1>1, <1>4, <1>8, <1>9 DEF f

-----------------------------------------------------------------------------
(***************************************************************************)
(* What is reached                                                         *)
(***************************************************************************)

\* The kind of a node that validateNodes wants once is that of one node.
LEMMA OneOfKind ==
    ASSUME NEW g, IsGraph(g), validateNodes(g)
    PROVE  /\ ExitOf(g) \in g.nodes /\ EntryOf(g) \in g.nodes
           /\ \A n \in g.nodes : g.kind[n] = "EXIT" <=> n = ExitOf(g)
           /\ \A n \in g.nodes : g.kind[n] = "ENTRY" <=> n = EntryOf(g)
<1>1. \E n : OfKind(g, "ENTRY") = {n}
  <2>1. IsFiniteSet(OfKind(g, "ENTRY"))
    BY FS_Subset DEF IsGraph, OfKind
  <2> QED
    BY <2>1, FS_Singleton DEF validateNodes
<1>2. \E n : OfKind(g, "EXIT") = {n}
  <2>1. IsFiniteSet(OfKind(g, "EXIT"))
    BY FS_Subset DEF IsGraph, OfKind
  <2> QED
    BY <2>1, FS_Singleton DEF validateNodes
<1> QED
  BY <1>1, <1>2 DEF OfKind, ExitOf, EntryOf

\* The walk visits only what the exit depends on, directly or not.
LEMMA VisitedWithin ==
    ASSUME NEW g, IsGraph(g), validateNodes(g),
           NEW C, C \subseteq g.nodes, ExitOf(g) \in C, \A n \in C : g.deps[n] \subseteq C
    PROVE  Walked(g).visited \subseteq C
<1> DEFINE W == [node : C, visited : SUBSET C, parentNodes : Seq(C), done : BOOLEAN, cycle : BOOLEAN]
           n == 2 * Cardinality(g.nodes)
<1>1. n \in Nat
  BY FS_CardinalityType DEF IsGraph
<1>2. PICK h : WalkedSteps(g, n, h)
  <2> HIDE DEF n
  <2>1. 2 * Cardinality(g.nodes) = n
    BY DEF n
  <2> QED
    BY <1>1, <2>1, WalkedIs
<1>3. WalkStart(g) \in W
  BY EmptySeq DEF WalkStart
<1>4. ASSUME NEW w \in W PROVE Visit(g, w) \in W
  <2> DEFINE unvisited == g.deps[w.node] \ w.visited
             next == CHOOSE x \in unvisited : TRUE
  <2>1. w.node \in C /\ w.visited \in SUBSET C /\ w.parentNodes \in Seq(C) /\ g.deps[w.node] \subseteq C
    OBVIOUS
  <2>2. unvisited # {} => next \in C
    BY <2>1
  <2>3. unvisited # {} => [w EXCEPT !.node = next, !.visited = @ \cup {next}, !.parentNodes = Append(@, w.node)] \in W
    <3> SUFFICES ASSUME unvisited # {} PROVE [w EXCEPT !.node = next, !.visited = @ \cup {next}, !.parentNodes = Append(@, w.node)] \in W
      OBVIOUS
    <3>1. Append(w.parentNodes, w.node) \in Seq(C)
      BY <2>1, AppendProperties
    <3> HIDE DEF next, unvisited
    <3> QED
      BY <2>1, <2>2, <3>1
  <2>4. w.parentNodes # <<>> => [w EXCEPT !.node = Last(w.parentNodes), !.parentNodes = Front(@)] \in W
    <3> SUFFICES ASSUME w.parentNodes # <<>> PROVE [w EXCEPT !.node = Last(w.parentNodes), !.parentNodes = Front(@)] \in W
      OBVIOUS
    <3>1. Front(w.parentNodes) \in Seq(C) /\ Last(w.parentNodes) \in C
      BY <2>1, FrontIs
    <3> QED
      BY <2>1, <3>1
  <2>5. [w EXCEPT !.done = TRUE, !.cycle = TRUE] \in W /\ [w EXCEPT !.done = TRUE] \in W
    OBVIOUS
  <2> HIDE DEF W
  <2> QED
    BY <2>3, <2>4, <2>5 DEF Visit
<1> DEFINE T == {i \in Nat : i <= n => h[i] \in W}
<1>5. 0 \in T
  <2> HIDE DEF W, n
  <2> QED
    BY <1>2, <1>3 DEF WalkedSteps
<1>6. ASSUME NEW i \in Nat, i \in T PROVE i + 1 \in T
  <2> HIDE DEF W, n
  <2> SUFFICES ASSUME i + 1 <= n PROVE h[i + 1] \in W
    OBVIOUS
  <2>1. i \in 0 .. n - 1 /\ h[i] \in W
    BY <1>1, <1>6
  <2>2. h[i + 1] = Visit(g, h[i])
    BY <1>2, <2>1 DEF WalkedSteps
  <2> QED
    BY <1>4, <2>1, <2>2
<1>7. n \in T
  <2> HIDE DEF T, n
  <2> QED
    BY <1>1, <1>5, <1>6, Induction
<1>8. Walked(g) \in W
  <2> HIDE DEF W, n
  <2> QED
    BY <1>1, <1>2, <1>7 DEF WalkedSteps
<1> QED
  BY <1>8

-----------------------------------------------------------------------------
(***************************************************************************)
(* The stacks of validateDemultiplexerGatherNodesOrder                     *)
(***************************************************************************)

FirstStack(g) == IF g.gatherFrom[ExitOf(g)] = {} THEN <<>> ELSE <<g.gatherFrom[ExitOf(g)]>>

\* What the check has found so far: the nodes that are done, and the ones that
\* are to be checked, have a stack.
Seen(g, c, done) ==
    /\ c = [ok |-> c.ok, nodesToCheck |-> c.nodesToCheck, stacks |-> c.stacks] /\ c.ok \in BOOLEAN
    /\ c.nodesToCheck \in Seq(g.nodes)
    /\ \A i, j \in 1 .. Len(c.nodesToCheck) : c.nodesToCheck[i] = c.nodesToCheck[j] => i = j
    /\ done \subseteq g.nodes
    /\ \A i \in 1 .. Len(c.nodesToCheck) : c.nodesToCheck[i] \notin done
    /\ DOMAIN c.stacks = done \cup {c.nodesToCheck[i] : i \in 1 .. Len(c.nodesToCheck)}
    /\ c.stacks \in [DOMAIN c.stacks -> Seq(SUBSET g.nodes)]
    /\ ExitOf(g) \in DOMAIN c.stacks /\ c.stacks[ExitOf(g)] = FirstStack(g)

Linked(g, stacks, n, d) ==
    /\ n \in DOMAIN stacks /\ d \in DOMAIN stacks
    /\ Crossed(g, stacks[n], d) = [ok |-> TRUE, stack |-> stacks[d]]

\* What is beyond a connection that can be crossed is a stack.
LEMMA CrossedIs ==
    ASSUME NEW g, IsGraph(g), NEW stack \in Seq(SUBSET g.nodes), NEW d \in g.nodes
    PROVE  /\ Crossed(g, stack, d).ok \in BOOLEAN /\ Crossed(g, stack, d).stack \in Seq(SUBSET g.nodes)
           /\ Crossed(g, stack, d) = [ok |-> Crossed(g, stack, d).ok, stack |-> Crossed(g, stack, d).stack]
<1> DEFINE S == SUBSET g.nodes
           left == Last(stack) \ {d}
           met == IF left = {} THEN Front(stack) ELSE Append(Front(stack), left)
           pushed == IF g.gatherFrom[d] = {} THEN <<>> ELSE <<g.gatherFrom[d]>>
           new == (IF d \in Demultiplexers(g) THEN met ELSE stack) \o pushed
           bad == \/ d \in Demultiplexers(g) /\ (stack = <<>> \/ d \notin Last(stack))
                  \/ g.kind[d] = "ENTRY" /\ new # <<>>
<1>1. Crossed(g, stack, d) = IF bad THEN Bad ELSE [ok |-> TRUE, stack |-> new]
  BY DEF Crossed
<1>2. pushed \in Seq(S)
  <2>1. g.gatherFrom[d] \in S
    BY DEF IsGraph
  <2> QED
    <3> DEFINE G == g.gatherFrom[d]
    <3> HIDE DEF G
    <3>1. G \in S /\ pushed = IF G = {} THEN <<>> ELSE <<G>>
      BY <2>1 DEF G
    <3> HIDE DEF S, pushed
    <3>2. <<G>> \in Seq(S) /\ <<>> \in Seq(S)
      BY <3>1
    <3> QED
      BY <3>1, <3>2
<1>3. ASSUME stack # <<>> PROVE met \in Seq(S)
  <2>1. Front(stack) \in Seq(S) /\ Last(stack) \in S
    BY <1>3, FrontIs
  <2>2. left \in S
    BY <2>1
  <2> HIDE DEF left
  <2> QED
    BY <2>1, <2>2, AppendProperties
<1>4. ~bad => new \in Seq(S)
  <2> HIDE DEF pushed, met
  <2>1. ~bad => (IF d \in Demultiplexers(g) THEN met ELSE stack) \in Seq(S)
    BY <1>3
  <2> QED
    BY <1>2, <2>1, ConcatProperties
<1>5. Bad = [ok |-> FALSE, stack |-> <<>>] /\ <<>> \in Seq(S)
  BY EmptySeq DEF Bad
<1> HIDE DEF bad, new
<1>6. CASE bad
  BY <1>1, <1>5, <1>6
<1>7. CASE ~bad
  BY <1>1, <1>4, <1>7
<1> QED
  BY <1>6, <1>7

\* One connection: the node beyond it has a stack afterwards, the one that its
\* crossing gives, and the other stacks are as they were.
LEMMA ConnectionIs ==
    ASSUME NEW g, IsGraph(g), NEW c, NEW done, Seen(g, c, done), c.ok, NEW n \in done, NEW d \in g.deps[n],
           NEW e, e = CheckConnection(g, c, n, d), e.ok
    PROVE  /\ Seen(g, e, done) /\ Linked(g, e.stacks, n, d)
           /\ \A x, y \in g.nodes : Linked(g, c.stacks, x, y) => Linked(g, e.stacks, x, y)
<1> DEFINE crossed == Crossed(g, c.stacks[n], d)
<1>1. n \in DOMAIN c.stacks /\ c.stacks[n] \in Seq(SUBSET g.nodes) /\ d \in g.nodes
  BY DEF Seen, IsGraph
<1>2. crossed.ok \in BOOLEAN /\ crossed.stack \in Seq(SUBSET g.nodes) /\ crossed = [ok |-> crossed.ok, stack |-> crossed.stack]
  BY <1>1, CrossedIs
<1> HIDE DEF crossed
<1>3. crossed.ok /\ (d \in DOMAIN c.stacks => c.stacks[d] = crossed.stack)
  <2> SUFFICES ASSUME ~crossed.ok \/ (d \in DOMAIN c.stacks /\ c.stacks[d] # crossed.stack) PROVE FALSE
    BY <1>2
  <2>1. e = [c EXCEPT !.ok = FALSE]
    BY DEF CheckConnection, crossed
  <2> QED
    BY <2>1 DEF Seen
<1>4. crossed = [ok |-> TRUE, stack |-> crossed.stack]
  BY <1>2, <1>3
<1>5. CASE d \in DOMAIN c.stacks
  <2>1. e = c
    BY <1>3, <1>5 DEF CheckConnection, crossed
  <2> QED
    BY <1>1, <1>3, <1>4, <1>5, <2>1 DEF Linked, crossed
<1>6. CASE d \notin DOMAIN c.stacks
  <2>1. e = [c EXCEPT !.stacks = Put(@, d, crossed.stack), !.nodesToCheck = Append(@, d)]
    BY <1>3, <1>6 DEF CheckConnection, crossed
  <2>2. e = [ok |-> TRUE, nodesToCheck |-> Append(c.nodesToCheck, d), stacks |-> Put(c.stacks, d, crossed.stack)]
    BY <2>1 DEF Seen
  <2>3. /\ e.ok = TRUE /\ e.nodesToCheck = Append(c.nodesToCheck, d)
        /\ DOMAIN e.stacks = DOMAIN c.stacks \cup {d} /\ e.stacks[d] = crossed.stack
        /\ \A x \in DOMAIN c.stacks : e.stacks[x] = c.stacks[x]
        /\ e.stacks = [x \in DOMAIN e.stacks |-> e.stacks[x]]
    BY <1>6, <2>2 DEF Put
  <2> DEFINE q == c.nodesToCheck
  <2>4. /\ q \in Seq(g.nodes) /\ Len(q) \in Nat
        /\ Append(q, d) \in Seq(g.nodes) /\ Len(Append(q, d)) = Len(q) + 1
        /\ \A i \in 1 .. Len(q) : Append(q, d)[i] = q[i]
        /\ Append(q, d)[Len(q) + 1] = d
    BY <1>1, LenProperties, AppendProperties DEF Seen
  <2>5. \A i \in 1 .. Len(q) : q[i] # d
    BY <1>6 DEF Seen
  <2>6. d \notin done
    BY <1>6 DEF Seen
  <2>7. {Append(q, d)[i] : i \in 1 .. Len(Append(q, d))} = {q[i] : i \in 1 .. Len(q)} \cup {d}
    <3>1. 1 .. Len(q) + 1 = (1 .. Len(q)) \cup {Len(q) + 1}
      BY <2>4
    <3> QED
      BY <2>4, <3>1
  <2>8. \A i, j \in 1 .. Len(q) + 1 : Append(q, d)[i] = Append(q, d)[j] => i = j
    <3>1. \A i \in 1 .. Len(q) + 1 : i \in 1 .. Len(q) \/ i = Len(q) + 1
      BY <2>4
    <3> QED
      BY <2>4, <2>5, <3>1 DEF Seen
  <2>9. \A i \in 1 .. Len(q) + 1 : Append(q, d)[i] \notin done
    <3>1. \A i \in 1 .. Len(q) + 1 : i \in 1 .. Len(q) \/ i = Len(q) + 1
      BY <2>4
    <3> QED
      BY <2>4, <2>6, <3>1 DEF Seen
  <2>10. e.stacks \in [DOMAIN e.stacks -> Seq(SUBSET g.nodes)]
    <3>1. ASSUME NEW x \in DOMAIN e.stacks PROVE e.stacks[x] \in Seq(SUBSET g.nodes)
      <4>1. CASE x = d
        BY <1>2, <2>3, <4>1
      <4>2. CASE x # d
        <5>1. x \in DOMAIN c.stacks
          BY <2>3, <4>2
        <5> QED
          BY <2>3, <5>1 DEF Seen
      <4> QED
        BY <4>1, <4>2
    <3> QED
      BY <2>3, <3>1
  <2>11. Seen(g, e, done)
    <3>1. DOMAIN e.stacks = done \cup {e.nodesToCheck[i] : i \in 1 .. Len(e.nodesToCheck)}
      <4>1. DOMAIN c.stacks = done \cup {q[i] : i \in 1 .. Len(q)}
        BY DEF Seen
      <4> HIDE DEF q
      <4>2. e.nodesToCheck = Append(q, d)
        BY <2>3 DEF q
      <4> QED
        BY <2>3, <2>7, <4>1, <4>2
    <3>2. e = [ok |-> e.ok, nodesToCheck |-> e.nodesToCheck, stacks |-> e.stacks] /\ e.ok \in BOOLEAN
      BY <2>2
    <3>3. ExitOf(g) \in DOMAIN e.stacks /\ e.stacks[ExitOf(g)] = FirstStack(g)
      BY <2>3 DEF Seen
    <3>4. done \subseteq g.nodes
      BY DEF Seen
    <3>5. e.nodesToCheck = Append(q, d) /\ Len(Append(q, d)) = Len(q) + 1
      BY <2>3, <2>4
    <3>6. /\ e.nodesToCheck \in Seq(g.nodes)
          /\ \A i, j \in 1 .. Len(e.nodesToCheck) : e.nodesToCheck[i] = e.nodesToCheck[j] => i = j
          /\ \A i \in 1 .. Len(e.nodesToCheck) : e.nodesToCheck[i] \notin done
      <4> HIDE DEF q
      <4> QED
        BY <2>4, <2>8, <2>9, <3>5
    <3> QED
      BY <2>10, <3>1, <3>2, <3>3, <3>4, <3>6, Zenon DEF Seen
  <2>12. Linked(g, e.stacks, n, d)
    BY <1>1, <1>4, <2>3 DEF Linked, crossed
  <2>13. \A x, y \in g.nodes : Linked(g, c.stacks, x, y) => Linked(g, e.stacks, x, y)
    BY <2>3 DEF Linked
  <2> QED
    BY <2>11, <2>12, <2>13
<1> QED
  BY <1>5, <1>6

\* All connections of a node.
LEMMA ConnectionsAre ==
    ASSUME NEW g, IsGraph(g), NEW c, NEW done, Seen(g, c, done), c.ok, NEW n \in done,
           NEW e, e = CheckConnections(g, c, n)
    PROVE  /\ e.ok \in BOOLEAN
           /\ e.ok => /\ Seen(g, e, done) /\ \A d \in g.deps[n] : Linked(g, e.stacks, n, d)
                      /\ \A x, y \in g.nodes : Linked(g, c.stacks, x, y) => Linked(g, e.stacks, x, y)
<1> DEFINE ds == SetToSeq(g.deps[n])
           m == Cardinality(g.deps[n])
<1>1. IsFiniteSet(g.deps[n])
  BY FS_Subset DEF IsGraph, Seen
<1>2. /\ Len(ds) = m /\ m \in Nat /\ (\A i \in 1 .. m : ds[i] \in g.deps[n])
      /\ \A x \in g.deps[n] : \E i \in 1 .. m : ds[i] = x
  <2>1. ds \in Seq(g.deps[n]) /\ Len(ds) = m /\ m \in Nat /\ \A x \in g.deps[n] : \E i \in 1 .. m : ds[i] = x
    BY <1>1, SetToSeqIs
  <2> HIDE DEF ds, m
  <2> QED
    BY <2>1, ElementOfSeq
<1>3. PICK h : ConnectionsSteps(g, c, n, ds, m, h)
  <2>1. ds = SetToSeq(g.deps[n])
    OBVIOUS
  <2> HIDE DEF ds, m
  <2> QED
    BY <1>2, <2>1, ConnectionsIs
<1> HIDE DEF ds, m
<1>4. h[0] = c /\ e = h[m] /\ \A i \in 0 .. m - 1 : h[i + 1] = CheckNext(g, h[i], n, ds[i + 1])
  BY <1>3 DEF ConnectionsSteps
<1> DEFINE P(i) == /\ Seen(g, h[i], done)
                   /\ \A j \in 1 .. i : Linked(g, h[i].stacks, n, ds[j])
                   /\ \A x, y \in g.nodes : Linked(g, c.stacks, x, y) => Linked(g, h[i].stacks, x, y)
           T == {i \in Nat : i <= m => (h[i].ok => P(i)) /\ h[i].ok \in BOOLEAN}
<1>5. 0 \in T
  <2>1. h[0] = c
    BY <1>4
  <2>2. c.ok \in BOOLEAN
    BY DEF Seen
  <2>3. 1 .. 0 = {}
    OBVIOUS
  <2>4. P(0)
    BY <2>1, <2>3
  <2> HIDE DEF P
  <2> QED
    BY <2>1, <2>2, <2>4
<1>6. ASSUME NEW i \in Nat, i \in T PROVE i + 1 \in T
  <2> SUFFICES ASSUME i + 1 <= m PROVE (h[i + 1].ok => P(i + 1)) /\ h[i + 1].ok \in BOOLEAN
    OBVIOUS
  <2>1. i \in 0 .. m - 1 /\ i + 1 \in 1 .. m /\ (h[i].ok => P(i)) /\ h[i].ok \in BOOLEAN
    BY <1>2, <1>6
  <2>2. h[i + 1] = CheckNext(g, h[i], n, ds[i + 1]) /\ ds[i + 1] \in g.deps[n]
    BY <1>2, <1>4, <2>1
  <2>3. CASE ~h[i].ok
    <3>1. h[i + 1] = h[i]
      BY <2>2, <2>3 DEF CheckNext
    <3> HIDE DEF P
    <3> QED
      BY <2>1, <2>3, <3>1
  <2>4. CASE h[i].ok
    <3>1. h[i + 1] = CheckConnection(g, h[i], n, ds[i + 1]) /\ P(i)
      BY <2>1, <2>2, <2>4 DEF CheckNext
    <3>2. h[i + 1].ok \in BOOLEAN
      <4>1. Seen(g, h[i], done)
        BY <3>1
      <4> HIDE DEF P
      <4> QED
        BY <3>1, <4>1, <2>4 DEF CheckConnection, Seen
    <3>3. ASSUME h[i + 1].ok PROVE P(i + 1)
      <4>1. Seen(g, h[i], done)
        BY <3>1
      <4>2. /\ Seen(g, h[i + 1], done) /\ Linked(g, h[i + 1].stacks, n, ds[i + 1])
            /\ \A x, y \in g.nodes : Linked(g, h[i].stacks, x, y) => Linked(g, h[i + 1].stacks, x, y)
        <5> HIDE DEF P
        <5> QED
          BY <2>2, <2>4, <3>1, <3>3, <4>1, ConnectionIs
      <4>3. \A j \in 1 .. i : ds[j] \in g.nodes
        BY <1>2, <2>1 DEF IsGraph, Seen
      <4>4. n \in g.nodes
        BY DEF Seen
      <4>5. ASSUME NEW j \in 1 .. i + 1 PROVE Linked(g, h[i + 1].stacks, n, ds[j])
        <5>1. CASE j = i + 1
          BY <4>2, <5>1
        <5>2. CASE j # i + 1
          <6>1. j \in 1 .. i
            BY <5>2
          <6> QED
            BY <3>1, <4>2, <4>3, <4>4, <6>1
        <5> QED
          BY <5>1, <5>2
      <4>6. \A x, y \in g.nodes : Linked(g, c.stacks, x, y) => Linked(g, h[i + 1].stacks, x, y)
        BY <3>1, <4>2
      <4> QED
        BY <4>2, <4>5, <4>6
    <3> QED
      BY <3>2, <3>3
  <2> QED
    BY <2>1, <2>3, <2>4
<1>7. m \in T
  <2> HIDE DEF T
  <2> QED
    BY <1>2, <1>5, <1>6, Induction
<1>8. e.ok \in BOOLEAN /\ (e.ok => P(m))
  BY <1>2, <1>4, <1>7
<1>9. e.ok => \A d \in g.deps[n] : Linked(g, e.stacks, n, d)
  BY <1>2, <1>4, <1>8
<1> QED
  BY <1>4, <1>8, <1>9

AllLinked(g, stacks, done) == \A n \in done : \A d \in g.deps[n] : Linked(g, stacks, n, d)

\* One node: it is done afterwards, if no error was found.
LEMMA CheckNodeIs ==
    ASSUME NEW g, IsGraph(g), NEW c, NEW done, Seen(g, c, done), AllLinked(g, c.stacks, done), c.ok,
           c.nodesToCheck # <<>>, NEW e, e = CheckNode(g, c)
    PROVE  /\ e.ok \in BOOLEAN
           /\ e.ok => \E n \in g.nodes \ done : Seen(g, e, done \cup {n}) /\ AllLinked(g, e.stacks, done \cup {n})
<1> DEFINE q == c.nodesToCheck
           n == Last(q)
           p == [c EXCEPT !.nodesToCheck = Front(q)]
<1>1. /\ q \in Seq(g.nodes) /\ Front(q) \in Seq(g.nodes) /\ Len(q) \in Nat \ {0} /\ Len(Front(q)) = Len(q) - 1
      /\ \A i \in 1 .. Len(q) - 1 : Front(q)[i] = q[i]
      /\ n \in g.nodes /\ n = q[Len(q)]
  <2>1. q \in Seq(g.nodes) /\ q # <<>>
    BY DEF Seen
  <2> HIDE DEF q
  <2> QED
    BY <2>1, FrontIs
<1>2. e = CheckConnections(g, p, n)
  BY DEF CheckNode
<1>3. p = [ok |-> TRUE, nodesToCheck |-> Front(q), stacks |-> c.stacks]
  <2>1. ASSUME NEW o, NEW r, NEW s, NEW f, c = [ok |-> o, nodesToCheck |-> r, stacks |-> s]
        PROVE  [c EXCEPT !.nodesToCheck = f] = [ok |-> o, nodesToCheck |-> f, stacks |-> s]
    <3>1. [[ok |-> o, nodesToCheck |-> r, stacks |-> s] EXCEPT !.nodesToCheck = f] = [ok |-> o, nodesToCheck |-> f, stacks |-> s]
      OBVIOUS
    <3> QED
      BY <2>1, <3>1, Zenon
  <2>2. c = [ok |-> c.ok, nodesToCheck |-> q, stacks |-> c.stacks] /\ c.ok = TRUE
    BY DEF Seen
  <2> HIDE DEF q
  <2>3. p = [ok |-> c.ok, nodesToCheck |-> Front(q), stacks |-> c.stacks]
    BY <2>1, <2>2
  <2> QED
    BY <2>2, <2>3
<1> HIDE DEF p, n
<1>4. p.ok = TRUE /\ p.nodesToCheck = Front(q) /\ p.stacks = c.stacks
  BY <1>3
<1>5. n \notin done
  BY <1>1 DEF Seen
<1>6. Seen(g, p, done \cup {n})
  <2>1. \A i \in 1 .. Len(q) : i \in 1 .. Len(q) - 1 \/ i = Len(q)
    BY <1>1
  <2>2. \A i \in 1 .. Len(q) - 1 : q[i] # n /\ q[i] \notin done
    BY <1>1 DEF Seen
  <2>3. {q[i] : i \in 1 .. Len(q)} = {q[i] : i \in 1 .. Len(q) - 1} \cup {n}
    BY <1>1, <2>1
  <2>4. {Front(q)[i] : i \in 1 .. Len(Front(q))} = {q[i] : i \in 1 .. Len(q) - 1}
    BY <1>1
  <2>5. DOMAIN c.stacks = done \cup {q[i] : i \in 1 .. Len(q)}
    BY DEF Seen
  <2>6. DOMAIN p.stacks = (done \cup {n}) \cup {p.nodesToCheck[i] : i \in 1 .. Len(p.nodesToCheck)}
    <3> HIDE DEF q
    <3> QED
      BY <1>4, <2>3, <2>4, <2>5
  <2>7. \A i, j \in 1 .. Len(Front(q)) : Front(q)[i] = Front(q)[j] => i = j
    BY <1>1 DEF Seen
  <2>8. \A i \in 1 .. Len(Front(q)) : Front(q)[i] \notin done \cup {n}
    BY <1>1, <2>2
  <2>9. p = [ok |-> p.ok, nodesToCheck |-> p.nodesToCheck, stacks |-> p.stacks] /\ p.ok \in BOOLEAN
    BY <1>3
  <2>10. done \subseteq g.nodes /\ c.stacks \in [DOMAIN c.stacks -> Seq(SUBSET g.nodes)]
         /\ ExitOf(g) \in DOMAIN c.stacks /\ c.stacks[ExitOf(g)] = FirstStack(g)
    BY DEF Seen
  <2> HIDE DEF q
  <2> QED
    BY <1>1, <1>4, <2>6, <2>7, <2>8, <2>9, <2>10 DEF Seen
<1>7. /\ e.ok \in BOOLEAN
      /\ e.ok => /\ Seen(g, e, done \cup {n}) /\ \A d \in g.deps[n] : Linked(g, e.stacks, n, d)
                 /\ \A x, y \in g.nodes : Linked(g, c.stacks, x, y) => Linked(g, e.stacks, x, y)
  <2>1. n \in done \cup {n}
    OBVIOUS
  <2> QED
    BY <1>2, <1>4, <1>6, <2>1, ConnectionsAre
<1>8. e.ok => AllLinked(g, e.stacks, done \cup {n})
  <2>1. done \subseteq g.nodes /\ \A x \in g.nodes : g.deps[x] \subseteq g.nodes
    BY DEF Seen, IsGraph
  <2> QED
    BY <1>7, <2>1 DEF AllLinked
<1> QED
  BY <1>1, <1>5, <1>7, <1>8

\* A pipeline that passed the validation has a stack for every node, empty at the
\* entry, and crossing a connection gives the stack of the node beyond it.
LEMMA StacksAre ==
    ASSUME NEW g, IsGraph(g), validate(g), NEW stacks, stacks = OrderCheck(g).stacks
    PROVE  /\ stacks \in [g.nodes -> Seq(SUBSET g.nodes)]
           /\ stacks[ExitOf(g)] = FirstStack(g)
           /\ AllLinked(g, stacks, g.nodes)
<1> DEFINE m == Cardinality(g.nodes)
<1>1. m \in Nat /\ validateNodes(g) /\ OrderCheck(g).ok /\ Walked(g).visited = g.nodes
  BY FS_CardinalityType DEF IsGraph, validate, validateDemultiplexerGatherNodesOrder, validateForCycles
<1>2. PICK h : OrderCheckSteps(g, m, h)
  <2>1. Cardinality(g.nodes) = m
    OBVIOUS
  <2> HIDE DEF m
  <2> QED
    BY <1>1, <2>1, OrderCheckIs
<1> DEFINE P(i, done) ==
             /\ Seen(g, h[i], done) /\ AllLinked(g, h[i].stacks, done)
             /\ h[i].nodesToCheck = <<>> \/ Cardinality(done) >= i
           T == {i \in Nat : i <= m => h[i].ok \in BOOLEAN /\ (h[i].ok => \E done : P(i, done))}
<1> HIDE DEF m
<1>3. 0 \in T
  <2>1. h[0] = OrderStart(g) /\ h[0].ok = TRUE
    BY <1>2 DEF OrderCheckSteps, OrderStart
  <2> DEFINE x == ExitOf(g)
  <2>2. x \in g.nodes
    BY <1>1, OneOfKind
  <2>3. g.gatherFrom[x] \in SUBSET g.nodes
    BY <2>2 DEF IsGraph
  <2>4. FirstStack(g) \in Seq(SUBSET g.nodes)
    <3> DEFINE G == g.gatherFrom[x]
               S == SUBSET g.nodes
    <3>1. FirstStack(g) = IF G = {} THEN <<>> ELSE <<G>>
      BY DEF FirstStack
    <3>2. G \in S
      BY <2>3
    <3> HIDE DEF G, S
    <3>3. <<>> \in Seq(S) /\ <<G>> \in Seq(S)
      BY <3>2
    <3>4. FirstStack(g) \in Seq(S)
      BY <3>1, <3>3
    <3> QED
      BY <3>4 DEF S
  <2>5. h[0] = [ok |-> TRUE, nodesToCheck |-> <<x>>, stacks |-> Put(<<>>, x, FirstStack(g))]
    BY <2>1 DEF OrderStart, FirstStack
  <2> HIDE DEF x
  <2>6. Put(<<>>, x, FirstStack(g)) = [y \in {x} |-> FirstStack(g)]
    BY DEF Put
  <2>7. /\ h[0].nodesToCheck = <<x>> /\ Len(<<x>>) = 1 /\ <<x>>[1] = x /\ <<x>> \in Seq(g.nodes)
        /\ h[0].stacks = [y \in {x} |-> FirstStack(g)]
    <3> DEFINE N == g.nodes
    <3>1. x \in N
      BY <2>2
    <3> HIDE DEF N
    <3>3. Len(<<x>>) = 1 /\ <<x>>[1] = x
      OBVIOUS
    <3>4. <<x>> \in Seq(N)
      BY <3>1
    <3>2. h[0].nodesToCheck = <<x>> /\ h[0].stacks = Put(<<>>, x, FirstStack(g))
      BY <2>5
    <3> QED
      BY <2>6, <3>2, <3>3, <3>4 DEF N
  <2>8. Seen(g, h[0], {})
    <3>1. 1 .. 1 = {1}
      OBVIOUS
    <3>2. {<<x>>[i] : i \in 1 .. 1} = {x}
      BY <2>7, <3>1
    <3>3. h[0] = [ok |-> h[0].ok, nodesToCheck |-> h[0].nodesToCheck, stacks |-> h[0].stacks] /\ h[0].ok \in BOOLEAN
      BY <2>5
    <3>4. h[0].stacks \in [{x} -> Seq(SUBSET g.nodes)] /\ DOMAIN h[0].stacks = {x} /\ h[0].stacks[x] = FirstStack(g)
      BY <2>4, <2>7
    <3>5. DOMAIN h[0].stacks = {} \cup {h[0].nodesToCheck[i] : i \in 1 .. Len(h[0].nodesToCheck)}
      BY <2>7, <3>2, <3>4
    <3>6. \A i, j \in 1 .. Len(h[0].nodesToCheck) : h[0].nodesToCheck[i] = h[0].nodesToCheck[j] => i = j
      BY <2>7, <3>1
    <3> QED
      BY <2>7, <3>3, <3>4, <3>5, <3>6 DEF Seen, x
  <2>9. P(0, {})
    BY <2>8, FS_EmptySet DEF AllLinked
  <2> HIDE DEF P
  <2> QED
    BY <2>1, <2>9
<1>4. ASSUME NEW i \in Nat, i \in T PROVE i + 1 \in T
  <2> SUFFICES ASSUME i + 1 <= m PROVE h[i + 1].ok \in BOOLEAN /\ (h[i + 1].ok => \E done : P(i + 1, done))
    OBVIOUS
  <2>1. i \in 0 .. m - 1 /\ h[i].ok \in BOOLEAN /\ (h[i].ok => \E done : P(i, done))
    BY <1>1, <1>4
  <2>2. h[i + 1] = CheckNode(g, h[i])
    BY <1>2, <2>1 DEF OrderCheckSteps
  <2>3. CASE ~h[i].ok
    <3>1. h[i + 1] = h[i]
      BY <2>2, <2>3 DEF CheckNode
    <3> HIDE DEF P
    <3> QED
      BY <2>1, <2>3, <3>1
  <2>4. CASE h[i].ok
    <3>1. PICK done : P(i, done)
      <4> HIDE DEF P
      <4> QED
        BY <2>1, <2>4
    <3>2. CASE h[i].nodesToCheck = <<>>
      <4>1. h[i + 1] = h[i]
        BY <2>2, <3>2 DEF CheckNode
      <4>2. P(i + 1, done)
        BY <3>1, <3>2, <4>1
      <4> HIDE DEF P
      <4> QED
        BY <2>1, <4>1, <4>2
    <3>3. CASE h[i].nodesToCheck # <<>>
      <4>1. h[i + 1].ok \in BOOLEAN
        BY <2>2, <2>4, <3>1, <3>3, CheckNodeIs
      <4>2. ASSUME h[i + 1].ok PROVE \E d2 : P(i + 1, d2)
        <5>1. Seen(g, h[i], done) /\ AllLinked(g, h[i].stacks, done) /\ Cardinality(done) >= i
          BY <3>1, <3>3
        <5>2. PICK n \in g.nodes \ done : Seen(g, h[i + 1], done \cup {n}) /\ AllLinked(g, h[i + 1].stacks, done \cup {n})
          BY <2>2, <2>4, <3>3, <4>2, <5>1, CheckNodeIs
        <5>3. IsFiniteSet(done)
          BY <5>1, FS_Subset DEF Seen, IsGraph
        <5>4. Cardinality(done \cup {n}) = Cardinality(done) + 1 /\ Cardinality(done) \in Nat
          BY <5>2, <5>3, FS_AddElement, FS_CardinalityType
        <5>5. P(i + 1, done \cup {n})
          BY <5>1, <5>2, <5>4
        <5> HIDE DEF P
        <5> QED
          BY <5>5
      <4> QED
        BY <4>1, <4>2
    <3> QED
      BY <3>2, <3>3
  <2> QED
    BY <2>1, <2>3, <2>4
<1>5. m \in T
  <2> HIDE DEF T
  <2> QED
    BY <1>1, <1>3, <1>4, Induction
<1>6. OrderCheck(g) = h[m] /\ h[m].ok
  BY <1>1, <1>2 DEF OrderCheckSteps
<1>7. PICK done : P(m, done)
  <2> HIDE DEF P
  <2> QED
    BY <1>1, <1>5, <1>6
<1>8. h[m].nodesToCheck = <<>>
  <2> SUFFICES ASSUME h[m].nodesToCheck # <<>> PROVE FALSE
    OBVIOUS
  <2>1. done \in SUBSET g.nodes /\ Cardinality(done) >= m
    BY <1>7 DEF Seen
  <2>2. Cardinality(done) <= Cardinality(g.nodes) /\ (Cardinality(g.nodes) = Cardinality(done) => g.nodes = done) /\ Cardinality(done) \in Nat
    BY <2>1, FS_Subset, FS_CardinalityType DEF IsGraph
  <2>3. g.nodes = done
    BY <1>1, <2>1, <2>2 DEF m
  <2>4. h[m].nodesToCheck \in Seq(g.nodes) /\ Len(h[m].nodesToCheck) \in Nat \ {0}
    BY <1>7, EmptySeq DEF Seen
  <2>5. h[m].nodesToCheck[1] \in g.nodes /\ 1 \in 1 .. Len(h[m].nodesToCheck)
    BY <2>4, ElementOfSeq
  <2> QED
    BY <1>7, <2>3, <2>5 DEF Seen
<1>9. DOMAIN stacks = done
  <2>1. {h[m].nodesToCheck[i] : i \in 1 .. Len(h[m].nodesToCheck)} = {}
    BY <1>8
  <2> QED
    BY <1>6, <1>7, <2>1 DEF Seen
<1>10. done = g.nodes
  <2>1. done \subseteq g.nodes /\ ExitOf(g) \in done
    BY <1>6, <1>7, <1>9 DEF Seen
  <2>2. \A n \in done : g.deps[n] \subseteq done
    BY <1>6, <1>7, <1>9 DEF AllLinked, Linked
  <2>3. Walked(g).visited \subseteq done
    BY <1>1, <2>1, <2>2, VisitedWithin
  <2> QED
    BY <1>1, <2>1, <2>3
<1>11. stacks = h[m].stacks
  BY <1>6
<1>12. stacks \in [g.nodes -> Seq(SUBSET g.nodes)] /\ stacks[ExitOf(g)] = FirstStack(g)
  BY <1>7, <1>9, <1>10, <1>11 DEF Seen
<1>13. AllLinked(g, stacks, g.nodes)
  BY <1>7, <1>10, <1>11
<1> QED
  BY <1>12, <1>13

-----------------------------------------------------------------------------
(***************************************************************************)
(* Metadata and stacks                                                     *)
(***************************************************************************)

\* The demultiplexers of the metadata, outermost first, are those of the stack,
\* set by set: cut says where each set ends.
FitsWith(meta, stack, cut) ==
    /\ cut \in [0 .. Len(stack) -> 0 .. Len(meta)]
    /\ cut[0] = 0 /\ cut[Len(stack)] = Len(meta)
    /\ \A k \in 1 .. Len(stack) :
          /\ cut[k] = cut[k - 1] + Cardinality(stack[k])
          /\ {meta[i].node : i \in cut[k - 1] + 1 .. cut[k]} = stack[k]
Fits(meta, stack) == \E cut : FitsWith(meta, stack, cut)

\* Nothing is gathered by nobody.
LEMMA FitsNothing ==
    /\ Fits(<<>>, <<>>)
    /\ \A L : \A meta \in Seq(L) : Fits(meta, <<>>) => meta = <<>>
<1>1. FitsWith(<<>>, <<>>, [k \in 0 .. 0 |-> 0])
  BY DEF FitsWith
<1>2. ASSUME NEW L, NEW meta \in Seq(L), Fits(meta, <<>>) PROVE meta = <<>>
  <2>1. PICK cut : FitsWith(meta, <<>>, cut)
    BY <1>2 DEF Fits
  <2>2. Len(meta) = 0
    BY <2>1 DEF FitsWith
  <2> QED
    BY <2>2, EmptySeq
<1> QED
  BY <1>1, <1>2 DEF Fits

\* What fits a stack has its last set as its last levels, and without them it
\* fits the rest of the stack (createSessionKey, getCollapsedSessionMetadata).
LEMMA FitsFront ==
    ASSUME NEW N, IsFiniteSet(N), NEW L, NEW stack \in Seq(SUBSET N), stack # <<>>,
           NEW meta \in Seq(L), Fits(meta, stack), NEW G, G = Last(stack)
    PROVE  /\ Collapsible(meta, G) /\ Cardinality(G) \in Nat
           /\ Collapsed(meta, G) \in Seq(L) /\ Len(Collapsed(meta, G)) = Len(meta) - Cardinality(G)
           /\ \A i \in 1 .. Len(meta) - Cardinality(G) : Collapsed(meta, G)[i] = meta[i]
           /\ LastLevels(meta, G) \in Seq(L) /\ Len(LastLevels(meta, G)) = Cardinality(G)
           /\ \A i \in 1 .. Cardinality(G) : LastLevels(meta, G)[i] = meta[Len(meta) - Cardinality(G) + i]
           /\ Cardinality(G) <= Len(meta)
           /\ Fits(Collapsed(meta, G), Front(stack))
<1> DEFINE n == Len(stack)
           m == Len(meta)
           g == Cardinality(G)
<1>1. PICK cut : FitsWith(meta, stack, cut)
  BY DEF Fits
<1>2. /\ n \in Nat \ {0} /\ Front(stack) \in Seq(SUBSET N) /\ Len(Front(stack)) = n - 1 /\ G = stack[n] /\ G \in SUBSET N
      /\ \A k \in 1 .. n - 1 : Front(stack)[k] = stack[k]
  BY FrontIs
<1>3. m \in Nat /\ DOMAIN meta = 1 .. m /\ \A i \in 1 .. m : meta[i] \in L
  BY LenProperties, ElementOfSeq
<1>4. g \in Nat
  BY <1>2, FS_Subset, FS_CardinalityType
<1> HIDE DEF n, m, g
<1>5. /\ cut \in [0 .. n -> 0 .. m] /\ cut[0] = 0 /\ cut[n] = m
      /\ \A k \in 1 .. n : /\ cut[k] = cut[k - 1] + Cardinality(stack[k])
                           /\ {meta[i].node : i \in cut[k - 1] + 1 .. cut[k]} = stack[k]
  BY <1>1 DEF FitsWith, n, m
<1>6. n \in 1 .. n /\ n - 1 \in 0 .. n /\ n - 1 \in Nat
  BY <1>2
<1>7. m = cut[n - 1] + g /\ {meta[i].node : i \in cut[n - 1] + 1 .. m} = G
  BY <1>2, <1>5, <1>6 DEF g
<1>8. cut[n - 1] \in Nat /\ cut[n - 1] = m - g /\ g <= m
  BY <1>3, <1>4, <1>5, <1>6, <1>7
<1> DEFINE last == LastLevels(meta, G)
           rest == Collapsed(meta, G)
<1>9. last \in Seq(L) /\ Len(last) = g /\ \A i \in 1 .. g : last[i] = meta[m - g + i]
  <2>1. last = SubSeq(meta, m - g + 1, m)
    BY DEF LastLevels, m, g
  <2>2. m - g + 1 \in Int /\ m \in Int /\ \A i \in m - g + 1 .. m : meta[i] \in L
    BY <1>3, <1>4, <1>8
  <2> HIDE DEF last
  <2>3. /\ SubSeq(meta, m - g + 1, m) \in Seq(L)
        /\ Len(SubSeq(meta, m - g + 1, m)) = IF m - g + 1 <= m THEN m - (m - g + 1) + 1 ELSE 0
        /\ \A i \in 1 .. m - (m - g + 1) + 1 : SubSeq(meta, m - g + 1, m)[i] = meta[m - g + 1 + i - 1]
    BY <2>2, SubSeqProperties
  <2>4. /\ (IF m - g + 1 <= m THEN m - (m - g + 1) + 1 ELSE 0) = g /\ m - (m - g + 1) + 1 = g
        /\ \A i \in 1 .. g : m - g + 1 + i - 1 = m - g + i
    BY <1>3, <1>4
  <2> QED
    BY <2>1, <2>3, <2>4
<1>10. rest \in Seq(L) /\ Len(rest) = m - g /\ \A i \in 1 .. m - g : rest[i] = meta[i]
  <2>1. rest = SubSeq(meta, 1, m - g)
    BY DEF Collapsed, m, g
  <2>2. 1 \in Int /\ m - g \in Int /\ \A i \in 1 .. m - g : meta[i] \in L
    BY <1>3, <1>4, <1>8
  <2> HIDE DEF rest
  <2>3. /\ SubSeq(meta, 1, m - g) \in Seq(L)
        /\ Len(SubSeq(meta, 1, m - g)) = IF 1 <= m - g THEN (m - g) - 1 + 1 ELSE 0
        /\ \A i \in 1 .. (m - g) - 1 + 1 : SubSeq(meta, 1, m - g)[i] = meta[1 + i - 1]
    BY <2>2, SubSeqProperties
  <2>4. /\ (IF 1 <= m - g THEN (m - g) - 1 + 1 ELSE 0) = m - g /\ (m - g) - 1 + 1 = m - g
        /\ \A i \in 1 .. m - g : 1 + i - 1 = i
    BY <1>3, <1>4, <1>8
  <2> QED
    BY <2>1, <2>3, <2>4
<1>11. Collapsible(meta, G)
  <2> HIDE DEF last
  <2>1. Levels(last) = G
    <3>1. DOMAIN last = 1 .. g
      BY <1>9, LenProperties
    <3>2. Levels(last) = {meta[m - g + i].node : i \in 1 .. g}
      BY <1>9, <3>1 DEF Levels
    <3>3. {meta[m - g + i].node : i \in 1 .. g} = {meta[i].node : i \in m - g + 1 .. m}
      <4>1. \A i \in 1 .. g : m - g + i \in m - g + 1 .. m
        BY <1>3, <1>4, <1>8
      <4>2. \A i \in m - g + 1 .. m : i - (m - g) \in 1 .. g /\ m - g + (i - (m - g)) = i
        BY <1>3, <1>4, <1>8
      <4> QED
        BY <4>1, <4>2
    <3> QED
      BY <1>7, <1>8, <3>2, <3>3
  <2>2. G \subseteq Levels(meta)
    <3>1. \A i \in cut[n - 1] + 1 .. m : i \in DOMAIN meta
      BY <1>3, <1>8
    <3> QED
      BY <1>7, <3>1 DEF Levels
  <2> QED
    BY <1>8, <2>1, <2>2 DEF Collapsible, last, m, g
<1>12. Fits(rest, Front(stack))
  <2> HIDE DEF rest
  <2> DEFINE c == [k \in 0 .. n - 1 |-> cut[k]]
  <2>1. ASSUME NEW k \in 0 .. n - 1 PROVE cut[k] \in 0 .. m - g
    <3> DEFINE T == {j \in Nat : j <= n - 1 => cut[n - 1 - j] <= m - g}
    <3>1. 0 \in T
      BY <1>2, <1>8
    <3>2. ASSUME NEW j \in Nat, j \in T PROVE j + 1 \in T
      <4> SUFFICES ASSUME j + 1 <= n - 1 PROVE cut[n - 1 - (j + 1)] <= m - g
        OBVIOUS
      <4> DEFINE i == n - 1 - j
      <4>1. i \in 1 .. n /\ i - 1 = n - 1 - (j + 1) /\ i - 1 \in 0 .. n /\ cut[i] <= m - g
        BY <1>2, <3>2
      <4> HIDE DEF i
      <4>2. cut[i] = cut[i - 1] + Cardinality(stack[i]) /\ cut[i] \in Nat /\ cut[i - 1] \in Nat
        BY <1>5, <4>1
      <4>3. Cardinality(stack[i]) \in Nat
        <5>1. stack[i] \in SUBSET N
          BY <4>1, ElementOfSeq DEF n
        <5> QED
          BY <5>1, FS_Subset, FS_CardinalityType
      <4>4. m - g \in Nat
        BY <1>8
      <4>5. cut[i - 1] <= m - g
        BY <4>1, <4>2, <4>3, <4>4
      <4> QED
        BY <4>1, <4>5
    <3>3. n - 1 - k \in T
      <4> HIDE DEF T
      <4>1. n - 1 - k \in Nat
        BY <1>2
      <4> QED
        BY <3>1, <3>2, <4>1, Induction
    <3>4. n - 1 - (n - 1 - k) = k /\ n - 1 - k <= n - 1
      BY <1>2
    <3> QED
      BY <1>2, <1>3, <1>4, <1>5, <3>3, <3>4
  <2>2. c \in [0 .. n - 1 -> 0 .. m - g] /\ c[0] = 0 /\ c[n - 1] = m - g
    BY <1>2, <1>5, <1>6, <1>8, <2>1
  <2>3. ASSUME NEW k \in 1 .. n - 1
        PROVE  /\ c[k] = c[k - 1] + Cardinality(Front(stack)[k])
               /\ {rest[i].node : i \in c[k - 1] + 1 .. c[k]} = Front(stack)[k]
    <3>1. k \in 1 .. n /\ k \in 0 .. n - 1 /\ k - 1 \in 0 .. n - 1 /\ Front(stack)[k] = stack[k]
      BY <1>2
    <3>2. c[k] = cut[k] /\ c[k - 1] = cut[k - 1]
      BY <3>1
    <3> HIDE DEF c
    <3>3. cut[k] \in 0 .. m - g /\ cut[k - 1] \in 0 .. m - g
      BY <2>1, <3>1
    <3>4. \A i \in cut[k - 1] + 1 .. cut[k] : i \in 1 .. m - g
      BY <1>3, <1>4, <3>3
    <3>5. {rest[i].node : i \in cut[k - 1] + 1 .. cut[k]} = {meta[i].node : i \in cut[k - 1] + 1 .. cut[k]}
      BY <1>10, <3>4
    <3> QED
      BY <1>5, <3>1, <3>2, <3>5
  <2> HIDE DEF c
  <2>4. FitsWith(rest, Front(stack), c)
    BY <1>2, <1>10, <2>2, <2>3 DEF FitsWith
  <2> QED
    BY <2>4 DEF Fits
<1> QED
  BY <1>4, <1>8, <1>9, <1>10, <1>11, <1>12 DEF m, g

\* What fits the stack beyond a demultiplexer fits, with its level, the stack
\* before it (generateSubsessions).
LEMMA FitsDivided ==
    ASSUME NEW N, IsFiniteSet(N), NEW L, NEW stack \in Seq(SUBSET N), stack # <<>>, NEW l \in L, l.node \in Last(stack),
           NEW meta \in Seq(L), NEW left, left = Last(stack) \ {l.node},
           Fits(meta, IF left = {} THEN Front(stack) ELSE Append(Front(stack), left))
    PROVE  Fits(Append(meta, l), stack)
<1> DEFINE n == Len(stack)
           m == Len(meta)
           met == IF left = {} THEN Front(stack) ELSE Append(Front(stack), left)
           e == Append(meta, l)
<1>1. PICK cut : FitsWith(meta, met, cut)
  BY DEF Fits
<1>2. /\ n \in Nat \ {0} /\ Front(stack) \in Seq(SUBSET N) /\ Len(Front(stack)) = n - 1 /\ Last(stack) = stack[n] /\ stack[n] \in SUBSET N
      /\ \A k \in 1 .. n - 1 : Front(stack)[k] = stack[k]
  BY FrontIs
<1>3. m \in Nat /\ DOMAIN meta = 1 .. m /\ e \in Seq(L) /\ Len(e) = m + 1 /\ (\A i \in 1 .. m : e[i] = meta[i]) /\ e[m + 1] = l
  BY LenProperties, AppendProperties
<1>4. left \in SUBSET N /\ IsFiniteSet(left) /\ Cardinality(left) \in Nat /\ IsFiniteSet(stack[n])
      /\ stack[n] = left \cup {l.node} /\ Cardinality(stack[n]) = Cardinality(left) + 1
  <2>1. left \in SUBSET N /\ stack[n] = left \cup {l.node} /\ l.node \notin left
    BY <1>2
  <2>2. IsFiniteSet(left) /\ IsFiniteSet(stack[n]) /\ Cardinality(left) \in Nat
    BY <1>2, <2>1, FS_Subset, FS_CardinalityType
  <2>3. Cardinality(left \cup {l.node}) = Cardinality(left) + 1
    BY <2>1, <2>2, FS_AddElement
  <2> QED
    BY <2>1, <2>2, <2>3
<1> HIDE DEF n, m, e
<1>5. \* up to the last set the cuts are the same, and what is left ends the metadata
      /\ cut[0] = 0 /\ \A k \in 0 .. n - 1 : cut[k] \in 0 .. m
      /\ \A k \in 1 .. n - 1 : cut[k] = cut[k - 1] + Cardinality(stack[k]) /\ {meta[i].node : i \in cut[k - 1] + 1 .. cut[k]} = stack[k]
      /\ m = cut[n - 1] + Cardinality(left) /\ {meta[i].node : i \in cut[n - 1] + 1 .. m} = left
  <2>1. CASE left = {}
    <3>1. met = Front(stack) /\ Len(met) = n - 1
      BY <1>2, <2>1
    <3> HIDE DEF met
    <3>2. cut[n - 1] = m /\ cut[0] = 0 /\ cut \in [0 .. n - 1 -> 0 .. m]
      BY <1>1, <3>1 DEF FitsWith, m
    <3>3. \A k \in 1 .. n - 1 : cut[k] = cut[k - 1] + Cardinality(met[k]) /\ {meta[i].node : i \in cut[k - 1] + 1 .. cut[k]} = met[k]
      BY <1>1, <3>1 DEF FitsWith
    <3>4. Cardinality(left) = 0 /\ m = m + 0 /\ m + 1 .. m = {}
      <4>1. Cardinality(left) = 0
        BY <2>1, FS_EmptySet
      <4> QED
        BY <1>3, <4>1
    <3> QED
      BY <1>2, <2>1, <3>1, <3>2, <3>3, <3>4
  <2>2. CASE left # {}
    <3>1. met = Append(Front(stack), left) /\ Len(met) = n /\ (\A k \in 1 .. n - 1 : met[k] = stack[k]) /\ met[n] = left
      <4>1. /\ Len(Append(Front(stack), left)) = Len(Front(stack)) + 1
            /\ (\A k \in 1 .. Len(Front(stack)) : Append(Front(stack), left)[k] = Front(stack)[k])
            /\ Append(Front(stack), left)[Len(Front(stack)) + 1] = left
        BY <1>2, <1>4, AppendProperties
      <4> QED
        BY <1>2, <2>2, <4>1
    <3> HIDE DEF met
    <3>2. cut[n] = m /\ cut[0] = 0 /\ cut \in [0 .. n -> 0 .. m]
      BY <1>1, <3>1 DEF FitsWith, m
    <3>3. \A k \in 1 .. n : cut[k] = cut[k - 1] + Cardinality(met[k]) /\ {meta[i].node : i \in cut[k - 1] + 1 .. cut[k]} = met[k]
      BY <1>1, <3>1 DEF FitsWith
    <3>4. n \in 1 .. n /\ (\A k \in 0 .. n - 1 : k \in 0 .. n) /\ (\A k \in 1 .. n - 1 : k \in 1 .. n)
      BY <1>2
    <3> QED
      BY <3>1, <3>2, <3>3, <3>4
  <2> QED
    BY <2>1, <2>2
<1> DEFINE c == [k \in 0 .. n |-> IF k = n THEN m + 1 ELSE cut[k]]
<1>6. c \in [0 .. n -> 0 .. m + 1] /\ c[0] = 0 /\ c[n] = m + 1 /\ \A k \in 0 .. n - 1 : c[k] = cut[k]
  <2>1. \A k \in 0 .. n : k = n \/ k \in 0 .. n - 1
    BY <1>2
  <2>2. \A k \in 0 .. n - 1 : k \in 0 .. n /\ k # n /\ cut[k] \in 0 .. m + 1
    <3> SUFFICES ASSUME NEW k \in 0 .. n - 1 PROVE k \in 0 .. n /\ k # n /\ cut[k] \in 0 .. m + 1
      OBVIOUS
    <3>1. cut[k] \in 0 .. m
      BY <1>5
    <3> QED
      BY <1>2, <1>3, <3>1
  <2>3. 0 \in 0 .. n - 1 /\ n \in 0 .. n /\ m + 1 \in 0 .. m + 1
    BY <1>2, <1>3
  <2> QED
    BY <1>5, <2>1, <2>2, <2>3
<1>7. ASSUME NEW k \in 1 .. n PROVE c[k] = c[k - 1] + Cardinality(stack[k]) /\ {e[i].node : i \in c[k - 1] + 1 .. c[k]} = stack[k]
  <2> HIDE DEF c
  <2>1. CASE k = n
    <3>1. c[k] = m + 1 /\ c[k - 1] = cut[n - 1] /\ cut[n - 1] \in Nat
      BY <1>2, <1>5, <1>6, <2>1
    <3>2. cut[n - 1] + 1 .. m + 1 = (cut[n - 1] + 1 .. m) \cup {m + 1}
      <4>1. cut[n - 1] <= m
        BY <1>3, <1>4, <1>5, <3>1
      <4> QED
        BY <1>3, <3>1, <4>1
    <3>3. \A i \in cut[n - 1] + 1 .. m : i \in 1 .. m
      BY <1>3, <3>1
    <3>4. {e[i].node : i \in cut[n - 1] + 1 .. m + 1} = {meta[i].node : i \in cut[n - 1] + 1 .. m} \cup {l.node}
      BY <1>3, <3>2, <3>3
    <3>5. c[k] = c[k - 1] + Cardinality(stack[k])
      <4>1. m = cut[n - 1] + Cardinality(left) /\ Cardinality(stack[n]) = Cardinality(left) + 1 /\ Cardinality(left) \in Nat
        BY <1>4, <1>5
      <4> DEFINE y == cut[n - 1]
                 z == Cardinality(left)
                 w == Cardinality(stack[n])
      <4>2. m = y + z /\ w = z + 1 /\ y \in Nat /\ z \in Nat
        BY <3>1, <4>1
      <4>3. c[k] = m + 1 /\ c[k - 1] = y /\ Cardinality(stack[k]) = w
        BY <2>1, <3>1
      <4> HIDE DEF y, z, w
      <4> QED
        BY <4>2, <4>3
    <3>6. {e[i].node : i \in c[k - 1] + 1 .. c[k]} = stack[k]
      BY <1>4, <1>5, <2>1, <3>1, <3>4
    <3> QED
      BY <3>5, <3>6
  <2>2. CASE k # n
    <3>1. k \in 1 .. n - 1 /\ k \in 0 .. n - 1 /\ k - 1 \in 0 .. n - 1
      BY <1>2, <2>2
    <3>2. c[k] = cut[k] /\ c[k - 1] = cut[k - 1] /\ cut[k] \in 0 .. m /\ cut[k - 1] \in 0 .. m
      BY <1>5, <1>6, <3>1
    <3>3. \A i \in cut[k - 1] + 1 .. cut[k] : i \in 1 .. m
      BY <1>3, <3>2
    <3>4. {e[i].node : i \in cut[k - 1] + 1 .. cut[k]} = {meta[i].node : i \in cut[k - 1] + 1 .. cut[k]}
      BY <1>3, <3>3
    <3> QED
      BY <1>5, <3>1, <3>2, <3>4
  <2> QED
    BY <2>1, <2>2
<1> HIDE DEF c
<1>8. FitsWith(e, stack, c)
  BY <1>3, <1>6, <1>7 DEF FitsWith, n
<1> QED
  BY <1>8 DEF Fits, e

\* How many levels there are, and which, is a matter of the stack.
LEMMA FitsAlike ==
    ASSUME NEW N, IsFiniteSet(N), NEW L, NEW stack \in Seq(SUBSET N), NEW a \in Seq(L), NEW b \in Seq(L), Fits(a, stack), Fits(b, stack)
    PROVE  Len(a) = Len(b) /\ \A i \in 1 .. Len(a) : \E j \in 1 .. Len(b) : b[j].node = a[i].node
<1> DEFINE n == Len(stack)
<1>1. PICK ca : FitsWith(a, stack, ca)
  BY DEF Fits
<1>2. PICK cb : FitsWith(b, stack, cb)
  BY DEF Fits
<1>3. n \in Nat /\ Len(a) \in Nat /\ Len(b) \in Nat
  BY LenProperties
<1> DEFINE T == {k \in Nat : k <= n => ca[k] = cb[k] /\ \A i \in 1 .. ca[k] : \E j \in 1 .. cb[k] : b[j].node = a[i].node}
<1> HIDE DEF n
<1>4. /\ ca \in [0 .. n -> 0 .. Len(a)] /\ cb \in [0 .. n -> 0 .. Len(b)] /\ ca[0] = 0 /\ cb[0] = 0 /\ ca[n] = Len(a) /\ cb[n] = Len(b)
      /\ \A k \in 1 .. n : /\ ca[k] = ca[k - 1] + Cardinality(stack[k]) /\ cb[k] = cb[k - 1] + Cardinality(stack[k])
                           /\ {a[i].node : i \in ca[k - 1] + 1 .. ca[k]} = stack[k]
                           /\ {b[i].node : i \in cb[k - 1] + 1 .. cb[k]} = stack[k]
  BY <1>1, <1>2 DEF FitsWith, n
<1>5. 0 \in T
  BY <1>4
<1>6. ASSUME NEW k \in Nat, k \in T PROVE k + 1 \in T
  <2> SUFFICES ASSUME k + 1 <= n PROVE ca[k + 1] = cb[k + 1] /\ \A i \in 1 .. ca[k + 1] : \E j \in 1 .. cb[k + 1] : b[j].node = a[i].node
    OBVIOUS
  <2>1. k + 1 \in 1 .. n /\ (k + 1) - 1 = k /\ k \in 0 .. n /\ k + 1 \in 0 .. n
    BY <1>3
  <2>2. ca[k] = cb[k] /\ \A i \in 1 .. ca[k] : \E j \in 1 .. cb[k] : b[j].node = a[i].node
    BY <1>6, <2>1
  <2>3. ca[k + 1] = ca[k] + Cardinality(stack[k + 1]) /\ cb[k + 1] = cb[k] + Cardinality(stack[k + 1])
    BY <1>4, <2>1
  <2>4. {a[i].node : i \in ca[k] + 1 .. ca[k + 1]} = {b[i].node : i \in cb[k] + 1 .. cb[k + 1]}
    BY <1>4, <2>1
  <2>5. ca[k + 1] = cb[k + 1]
    BY <2>2, <2>3
  <2>6. ca[k] \in Nat /\ ca[k + 1] \in Nat /\ cb[k] \in Nat /\ cb[k + 1] \in Nat
    BY <1>4, <2>1
  <2>7. ASSUME NEW i \in 1 .. ca[k + 1] PROVE \E j \in 1 .. cb[k + 1] : b[j].node = a[i].node
    <3>1. CASE i <= ca[k]
      <4>1. PICK j \in 1 .. cb[k] : b[j].node = a[i].node
        BY <2>2, <2>6, <3>1
      <4>2. cb[k] <= cb[k + 1]
        <5>1. stack[k + 1] \in SUBSET N
          BY <2>1, ElementOfSeq DEF n
        <5>2. Cardinality(stack[k + 1]) \in Nat
          BY <5>1, FS_Subset, FS_CardinalityType
        <5> QED
          BY <2>3, <2>6, <5>2
      <4> QED
        BY <2>6, <4>1, <4>2
    <3>2. CASE ~(i <= ca[k])
      <4>1. i \in ca[k] + 1 .. ca[k + 1]
        BY <2>6, <3>2
      <4>2. PICK j \in cb[k] + 1 .. cb[k + 1] : b[j].node = a[i].node
        BY <2>4, <4>1
      <4> QED
        BY <2>6, <4>2
    <3> QED
      BY <3>1, <3>2
  <2> QED
    BY <2>5, <2>7
<1>7. n \in T
  <2> HIDE DEF T
  <2> QED
    BY <1>3, <1>5, <1>6, Induction
<1>8. n <= n
  BY <1>3
<1>9. ca[n] = cb[n] /\ \A i \in 1 .. ca[n] : \E j \in 1 .. cb[n] : b[j].node = a[i].node
  BY <1>7, <1>8
<1> QED
  BY <1>4, <1>9

-----------------------------------------------------------------------------
(***************************************************************************)
(* The stacks of an accepted pipeline                                      *)
(***************************************************************************)

Stack(g, n) == OrderCheck(g).stacks[n]

\* What the metadata of the sessions of a node fit.
KeyStack(g, n) == IF g.gatherFrom[n] = {} THEN Stack(g, n) ELSE Front(Stack(g, n))

\* Every node but the exit feeds another one.
LEMMA Consumed ==
    ASSUME NEW g, IsGraph(g), validate(g)
    PROVE  \A d \in g.nodes : d # ExitOf(g) => \E n \in g.nodes : d \in g.deps[n]
<1> DEFINE C == {d \in g.nodes : d = ExitOf(g) \/ \E n \in g.nodes : d \in g.deps[n]}
<1>1. validateNodes(g) /\ Walked(g).visited = g.nodes
  BY DEF validate, validateForCycles
<1>2. C \subseteq g.nodes /\ ExitOf(g) \in C /\ \A n \in C : g.deps[n] \subseteq C
  BY <1>1, OneOfKind DEF IsGraph
<1>3. g.nodes \subseteq C
  <2> HIDE DEF C
  <2> QED
    BY <1>1, <1>2, VisitedWithin
<1> QED
  BY <1>3

\* The last set of a stack is what the node gathers; a connection from a
\* demultiplexer is crossed by meeting it there.
LEMMA KeyStacks ==
    ASSUME NEW g, IsGraph(g), validate(g)
    PROVE  /\ \A n \in g.nodes : Stack(g, n) \in Seq(SUBSET g.nodes) /\ KeyStack(g, n) \in Seq(SUBSET g.nodes)
           /\ \A n \in g.nodes : g.gatherFrom[n] # {} => Stack(g, n) # <<>> /\ Last(Stack(g, n)) = g.gatherFrom[n]
           /\ KeyStack(g, ExitOf(g)) = <<>>
           /\ KeyStack(g, EntryOf(g)) = <<>>
           /\ \A n \in g.nodes : \A d \in g.deps[n] :
                 /\ g.demultiplyCount[d] = 0 => KeyStack(g, d) = Stack(g, n)
                 /\ g.demultiplyCount[d] # 0 =>
                       /\ Stack(g, n) # <<>> /\ d \in Last(Stack(g, n))
                       /\ LET left == Last(Stack(g, n)) \ {d}
                          IN  KeyStack(g, d) = IF left = {} THEN Front(Stack(g, n)) ELSE Append(Front(Stack(g, n)), left)
<1> DEFINE st == OrderCheck(g).stacks
           S == SUBSET g.nodes
           met(stack, d) == IF Last(stack) \ {d} = {} THEN Front(stack) ELSE Append(Front(stack), Last(stack) \ {d})
           pushed(d) == IF g.gatherFrom[d] = {} THEN <<>> ELSE <<g.gatherFrom[d]>>
           beyond(n, d) == IF d \in Demultiplexers(g) THEN met(st[n], d) ELSE st[n]
<1>1. /\ st \in [g.nodes -> Seq(S)] /\ st[ExitOf(g)] = FirstStack(g)
      /\ \A n \in g.nodes : \A d \in g.deps[n] : Crossed(g, st[n], d) = [ok |-> TRUE, stack |-> st[d]]
  <2>1. st = OrderCheck(g).stacks
    OBVIOUS
  <2> HIDE DEF st
  <2>2. st \in [g.nodes -> Seq(SUBSET g.nodes)] /\ st[ExitOf(g)] = FirstStack(g) /\ AllLinked(g, st, g.nodes)
    BY <2>1, StacksAre
  <2> QED
    BY <2>2 DEF AllLinked, Linked
<1>2. /\ ExitOf(g) \in g.nodes /\ EntryOf(g) \in g.nodes /\ ExitOf(g) # EntryOf(g) /\ g.kind[EntryOf(g)] = "ENTRY"
  BY OneOfKind DEF validate
<1>3. \A d \in g.nodes : g.gatherFrom[d] \in S /\ g.deps[d] \subseteq g.nodes
  BY DEF IsGraph
<1>4. ASSUME NEW stack \in Seq(S), NEW G \in S
      PROVE  LET new == stack \o <<G>> IN new \in Seq(S) /\ new # <<>> /\ Last(new) = G /\ Front(new) = stack
  <2> DEFINE new == stack \o <<G>>
  <2>1. new \in Seq(S) /\ Len(new) = Len(stack) + 1 /\ (\A i \in 1 .. Len(stack) : new[i] = stack[i]) /\ new[Len(stack) + 1] = G /\ Len(stack) \in Nat
    <3> HIDE DEF S
    <3>1. <<G>> \in Seq(S) /\ Len(<<G>>) = 1 /\ <<G>>[1] = G
      OBVIOUS
    <3>2. /\ stack \o <<G>> \in Seq(S) /\ Len(stack \o <<G>>) = Len(stack) + Len(<<G>>)
          /\ \A i \in 1 .. Len(stack) + Len(<<G>>) :
                (stack \o <<G>>)[i] = IF i <= Len(stack) THEN stack[i] ELSE <<G>>[i - Len(stack)]
      BY <3>1, ConcatProperties
    <3>3. Len(stack) \in Nat
      BY LenProperties
    <3> QED
      BY <3>1, <3>2, <3>3
  <2> HIDE DEF new
  <2>2. new # <<>>
    BY <2>1
  <2>3. /\ Front(new) \in Seq(S) /\ Len(Front(new)) = Len(stack) /\ (\A i \in 1 .. Len(stack) : Front(new)[i] = stack[i])
        /\ Last(new) = G
    <3> HIDE DEF S
    <3> QED
      BY <2>1, <2>2, FrontIs
  <2>4. Front(new) = stack
    <3> HIDE DEF S
    <3> QED
      BY <2>3, SeqEqual
  <2> QED
    BY <2>1, <2>2, <2>3, <2>4 DEF new
<1>5. ASSUME NEW n \in g.nodes, NEW d \in g.deps[n]
      PROVE  /\ st[d] = beyond(n, d) \o pushed(d)
             /\ d \in Demultiplexers(g) => st[n] # <<>> /\ d \in Last(st[n])
             /\ g.kind[d] = "ENTRY" => st[d] = <<>>
  <2>1. Crossed(g, st[n], d) = [ok |-> TRUE, stack |-> st[d]]
    BY <1>1, <1>5
  <2>2. Crossed(g, st[n], d) # Bad
    BY <2>1 DEF Bad
  <2>3. /\ d \in Demultiplexers(g) => st[n] # <<>> /\ d \in Last(st[n])
        /\ g.kind[d] = "ENTRY" => beyond(n, d) \o pushed(d) = <<>>
        /\ Crossed(g, st[n], d) = [ok |-> TRUE, stack |-> beyond(n, d) \o pushed(d)]
    <3> HIDE DEF st
    <3> QED
      BY <2>2 DEF Crossed, Bad
  <2>4. [ok |-> TRUE, stack |-> st[d]].stack = [ok |-> TRUE, stack |-> beyond(n, d) \o pushed(d)].stack
    BY <2>1, <2>3
  <2> HIDE DEF st, beyond, pushed
  <2>5. st[d] = beyond(n, d) \o pushed(d)
    BY <2>4
  <2> QED
    BY <2>3, <2>5
<1>6. ASSUME NEW n \in g.nodes, NEW d \in g.deps[n] PROVE beyond(n, d) \in Seq(S)
  <2>1. st[n] \in Seq(S)
    BY <1>1
  <2>2. ASSUME d \in Demultiplexers(g) PROVE met(st[n], d) \in Seq(S)
    <3>1. st[n] # <<>>
      BY <1>5, <2>2
    <3>2. Front(st[n]) \in Seq(S) /\ Last(st[n]) \in S
      <4> HIDE DEF S, st
      <4> QED
        BY <2>1, <3>1, FrontIs
    <3>3. Last(st[n]) \ {d} \in S
      BY <3>2
    <3> DEFINE left == Last(st[n]) \ {d}
               front == Front(st[n])
    <3> HIDE DEF S, left, front, st
    <3>4. Append(front, left) \in Seq(S)
      BY <3>2, <3>3, AppendProperties DEF left, front
    <3> QED
      BY <3>2, <3>4 DEF left, front
  <2> HIDE DEF met, S, st
  <2> QED
    BY <2>1, <2>2
<1> HIDE DEF beyond, S
<1>7. ASSUME NEW n \in g.nodes, NEW d \in g.deps[n]
      PROVE  /\ KeyStack(g, d) = beyond(n, d)
             /\ g.gatherFrom[d] # {} => st[d] # <<>> /\ Last(st[d]) = g.gatherFrom[d]
  <2>1. beyond(n, d) \in Seq(S) /\ st[d] = beyond(n, d) \o pushed(d) /\ g.gatherFrom[d] \in S
    BY <1>3, <1>5, <1>6, <1>7
  <2>2. CASE g.gatherFrom[d] = {}
    <3>1. st[d] = beyond(n, d)
      <4>1. beyond(n, d) \o <<>> = beyond(n, d)
        <5> DEFINE b == beyond(n, d)
        <5> HIDE DEF b
        <5> b \in Seq(S)
          BY <2>1 DEF b
        <5>1. b \o <<>> = b
          OBVIOUS
        <5> QED
          BY <5>1 DEF b
      <4> QED
        BY <2>1, <2>2, <4>1
    <3> QED
      BY <2>2, <3>1 DEF KeyStack, Stack
  <2>3. CASE g.gatherFrom[d] # {}
    <3>1. st[d] = beyond(n, d) \o <<g.gatherFrom[d]>>
      BY <2>1, <2>3
    <3>2. st[d] # <<>> /\ Last(st[d]) = g.gatherFrom[d] /\ Front(st[d]) = beyond(n, d)
      BY <1>4, <2>1, <3>1
    <3> QED
      BY <2>3, <3>2 DEF KeyStack, Stack
  <2> QED
    BY <2>2, <2>3
<1> HIDE DEF pushed
<1>8. \A d \in g.nodes : d = ExitOf(g) \/ \E n \in g.nodes : d \in g.deps[n]
  BY Consumed
<1>9. ASSUME g.gatherFrom[ExitOf(g)] # {}
      PROVE  st[ExitOf(g)] # <<>> /\ Last(st[ExitOf(g)]) = g.gatherFrom[ExitOf(g)] /\ Front(st[ExitOf(g)]) = <<>>
  <2> DEFINE G == g.gatherFrom[ExitOf(g)]
  <2>1. st[ExitOf(g)] = <<G>> /\ G \in S
    BY <1>1, <1>2, <1>3, <1>9 DEF FirstStack
  <2> HIDE DEF G
  <2>2. <<>> \o <<G>> = <<G>> /\ <<>> \in Seq(S)
    OBVIOUS
  <2>3. <<G>> # <<>> /\ Last(<<G>>) = G /\ Front(<<G>>) = <<>>
    BY <1>4, <2>1, <2>2
  <2> QED
    BY <2>1, <2>3 DEF G
<1>10. \A n \in g.nodes : g.gatherFrom[n] # {} => st[n] # <<>> /\ Last(st[n]) = g.gatherFrom[n]
  BY <1>7, <1>8, <1>9
<1>11. KeyStack(g, ExitOf(g)) = <<>>
  BY <1>1, <1>9 DEF KeyStack, Stack, FirstStack
<1>12. \A n \in g.nodes : Stack(g, n) \in Seq(S) /\ KeyStack(g, n) \in Seq(S)
  <2> SUFFICES ASSUME NEW n \in g.nodes PROVE Stack(g, n) \in Seq(S) /\ KeyStack(g, n) \in Seq(S)
    OBVIOUS
  <2>1. Stack(g, n) \in Seq(S)
    BY <1>1 DEF Stack
  <2>2. g.gatherFrom[n] # {} => Front(Stack(g, n)) \in Seq(S)
    BY <1>10, <2>1, FrontIs DEF Stack
  <2> QED
    BY <2>1, <2>2 DEF KeyStack
<1>13. KeyStack(g, EntryOf(g)) = <<>>
  <2> DEFINE en == EntryOf(g)
  <2>1. PICK n \in g.nodes : en \in g.deps[n]
    BY <1>2, <1>8
  <2>2. st[en] = <<>>
    BY <1>2, <1>5, <2>1
  <2>3. g.gatherFrom[en] = {}
    BY <1>2, <1>10, <2>2
  <2> QED
    BY <2>2, <2>3 DEF KeyStack, Stack
<1>14. ASSUME NEW n \in g.nodes, NEW d \in g.deps[n]
       PROVE  /\ g.demultiplyCount[d] = 0 => KeyStack(g, d) = Stack(g, n)
              /\ g.demultiplyCount[d] # 0 =>
                    /\ Stack(g, n) # <<>> /\ d \in Last(Stack(g, n))
                    /\ KeyStack(g, d) = met(Stack(g, n), d)
  <2>1. d \in g.nodes /\ (d \in Demultiplexers(g) <=> g.demultiplyCount[d] # 0)
    BY <1>3 DEF Demultiplexers
  <2> QED
    BY <1>5, <1>7, <1>14, <2>1 DEF beyond, Stack
<1> QED
  BY <1>10, <1>11, <1>12, <1>13, <1>14 DEF S, Stack

-----------------------------------------------------------------------------
(***************************************************************************)
(* Metadata                                                                *)
(***************************************************************************)

LevelSet(g) == [node : g.nodes, id : Nat, size : Nat]

\* The levels are within their sizes, which are those of their demultiplexers,
\* and before each is what its demultiplexer can have had.
LevelsOK(g, sh, meta) ==
    /\ meta \in Seq(LevelSet(g))
    /\ \A i \in 1 .. Len(meta) :
          /\ meta[i].id < meta[i].size /\ meta[i].size = sh[meta[i].node]
          /\ Fits(SubSeq(meta, 1, i - 1), KeyStack(g, meta[i].node))
IsMeta(g, sh, meta, stack) == LevelsOK(g, sh, meta) /\ Fits(meta, stack)

\* The beginning of metadata.
LEMMA PrefixIs ==
    ASSUME NEW L, NEW meta \in Seq(L), NEW k \in 0 .. Len(meta)
    PROVE  /\ SubSeq(meta, 1, k) \in Seq(L) /\ Len(SubSeq(meta, 1, k)) = k
           /\ \A i \in 1 .. k : SubSeq(meta, 1, k)[i] = meta[i]
           /\ \A e \in Seq(L) : Len(e) >= k /\ (\A i \in 1 .. k : e[i] = meta[i]) => SubSeq(e, 1, k) = SubSeq(meta, 1, k)
<1>1. ASSUME NEW m \in Seq(L), k <= Len(m)
      PROVE  SubSeq(m, 1, k) \in Seq(L) /\ Len(SubSeq(m, 1, k)) = k /\ \A i \in 1 .. k : SubSeq(m, 1, k)[i] = m[i]
  <2>1. Len(m) \in Nat /\ \A i \in 1 .. Len(m) : m[i] \in L
    BY LenProperties, ElementOfSeq
  <2>2. 1 \in Int /\ k \in Int /\ \A i \in 1 .. k : m[i] \in L
    BY <1>1, <2>1
  <2>3. /\ SubSeq(m, 1, k) \in Seq(L)
        /\ Len(SubSeq(m, 1, k)) = IF 1 <= k THEN k - 1 + 1 ELSE 0
        /\ \A i \in 1 .. k - 1 + 1 : SubSeq(m, 1, k)[i] = m[1 + i - 1]
    BY <2>2, SubSeqProperties
  <2>4. k \in Nat
    OBVIOUS
  <2> QED
    BY <2>3, <2>4
<1>2. Len(meta) \in Nat /\ k <= Len(meta)
  BY LenProperties
<1>3. ASSUME NEW e \in Seq(L), Len(e) >= k, \A i \in 1 .. k : e[i] = meta[i] PROVE SubSeq(e, 1, k) = SubSeq(meta, 1, k)
  <2>1. Len(e) \in Nat /\ k <= Len(e)
    BY <1>3, LenProperties
  <2>2. SubSeq(e, 1, k) \in Seq(L) /\ Len(SubSeq(e, 1, k)) = k /\ \A i \in 1 .. k : SubSeq(e, 1, k)[i] = e[i]
    BY <1>1, <2>1
  <2>3. SubSeq(meta, 1, k) \in Seq(L) /\ Len(SubSeq(meta, 1, k)) = k /\ \A i \in 1 .. k : SubSeq(meta, 1, k)[i] = meta[i]
    BY <1>1, <1>2
  <2> DEFINE a == SubSeq(e, 1, k)
             b == SubSeq(meta, 1, k)
  <2> HIDE DEF a, b
  <2>4. a \in Seq(L) /\ b \in Seq(L) /\ Len(a) = Len(b) /\ \A i \in 1 .. Len(a) : a[i] = b[i]
    BY <1>3, <2>2, <2>3 DEF a, b
  <2>5. a = b
    BY <2>4, SeqEqual
  <2> QED
    BY <2>5 DEF a, b
<1> QED
  BY <1>1, <1>2, <1>3

SameLevels(a, b) == Len(a) = Len(b) /\ \A i \in 1 .. Len(a) : a[i].node = b[i].node /\ a[i].size = b[i].size

\* Where the level of a demultiplexer is, and of how many shards, is a matter of
\* the pipeline: two metadata of one place have the same demultiplexers and sizes.
LEMMA MetaAlike ==
    ASSUME NEW g, IsGraph(g), validate(g), NEW sh, NEW stack \in Seq(SUBSET g.nodes),
           NEW a, NEW b, IsMeta(g, sh, a, stack), IsMeta(g, sh, b, stack)
    PROVE  SameLevels(a, b)
<1> DEFINE L == LevelSet(g)
<1>1. IsFiniteSet(g.nodes) /\ a \in Seq(L) /\ b \in Seq(L) /\ Fits(a, stack) /\ Fits(b, stack)
  BY DEF IsGraph, IsMeta, LevelsOK
<1>2. Len(a) = Len(b) /\ \A i \in 1 .. Len(a) : \E j \in 1 .. Len(b) : b[j].node = a[i].node
  <2> HIDE DEF L
  <2> QED
    BY <1>1, FitsAlike
<1>3. ASSUME NEW i \in 1 .. Len(a) PROVE a[i].node = b[i].node /\ a[i].size = b[i].size
  <2>1. PICK j \in 1 .. Len(b) : b[j].node = a[i].node
    BY <1>2
  <2> DEFINE key == KeyStack(g, a[i].node)
             pa == SubSeq(a, 1, i - 1)
             pb == SubSeq(b, 1, j - 1)
  <2>2. /\ Fits(pa, key) /\ Fits(pb, key) /\ a[i].size = sh[a[i].node] /\ b[j].size = sh[b[j].node]
    BY <1>3, <2>1 DEF IsMeta, LevelsOK
  <2>3. a[i] \in L
    BY <1>1, ElementOfSeq
  <2>4. key \in Seq(SUBSET g.nodes)
    BY <2>3, KeyStacks DEF LevelSet
  <2>10. Len(a) \in Nat /\ Len(b) \in Nat
    <3> HIDE DEF L
    <3> QED
      BY <1>1, LenProperties
  <2>5. Len(a) \in Nat /\ Len(b) \in Nat /\ i - 1 \in 0 .. Len(a) /\ j - 1 \in 0 .. Len(b)
    BY <2>10
  <2>6. pa \in Seq(L) /\ Len(pa) = i - 1
    <3> HIDE DEF L
    <3> QED
      BY <1>1, <2>5, PrefixIs
  <2>7. pb \in Seq(L) /\ Len(pb) = j - 1
    <3> HIDE DEF L
    <3> QED
      BY <1>1, <2>5, PrefixIs
  <2> HIDE DEF pa, pb, key, L
  <2>11. pa \in Seq(L) /\ pb \in Seq(L) /\ Fits(pa, key) /\ Fits(pb, key) /\ IsFiniteSet(g.nodes)
    BY <1>1, <2>2, <2>6, <2>7 DEF pa, pb, key
  <2>8. Len(pa) = Len(pb)
    <3>1. Len(pa) = Len(pb) /\ \A x \in 1 .. Len(pa) : \E y \in 1 .. Len(pb) : pb[y].node = pa[x].node
      BY <2>4, <2>11, FitsAlike
    <3> QED
      BY <3>1
  <2>9. i = j
    BY <2>6, <2>7, <2>8
  <2> QED
    BY <2>1, <2>2, <2>9
<1> QED
  BY <1>2, <1>3 DEF SameLevels

\* Arithmetic of digits.
LEMMA Digits ==
    /\ \A u, v, t \in Nat : u * t \in Nat /\ (u < v => u * t + t <= v * t)
    /\ \A x, y, s, k \in Nat : x < y /\ k < s => y * s \in Nat /\ x * s + k \in Nat /\ x * s + k < y * s
    /\ \A p, q, t, c, d \in Nat : c < t /\ d < t /\ p * t + c = q * t + d => p = q /\ c = d
<1>1. ASSUME NEW u \in Nat, NEW v \in Nat, NEW t \in Nat, u < v PROVE u * t + t <= v * t
  <2>1. PICK z \in Nat : v = u + 1 + z
    <3>1. v - u - 1 \in Nat /\ v = u + 1 + (v - u - 1)
      BY <1>1
    <3> QED
      BY <3>1
  <2>2. v * t = u * t + t + z * t /\ z * t \in Nat /\ u * t \in Nat
    BY <2>1
  <2> DEFINE a == v * t
             b == u * t
             c == z * t
  <2>3. a = b + t + c /\ c \in Nat /\ b \in Nat
    BY <2>2
  <2> HIDE DEF a, b, c
  <2>4. b + t <= a
    BY <2>3
  <2> QED
    BY <2>4 DEF a, b
<1>2. \A u, t \in Nat : u * t \in Nat
  OBVIOUS
<1>3. ASSUME NEW x \in Nat, NEW y \in Nat, NEW s \in Nat, NEW k \in Nat, x < y, k < s
      PROVE  y * s \in Nat /\ x * s + k \in Nat /\ x * s + k < y * s
  <2> DEFINE a == y * s
             b == x * s
  <2>1. a \in Nat /\ b \in Nat /\ b + s <= a
    BY <1>1, <1>2, <1>3
  <2> HIDE DEF a, b
  <2>2. a \in Nat /\ b + k \in Nat /\ b + k < a
    BY <1>3, <2>1
  <2> QED
    BY <2>2 DEF a, b
<1>4. ASSUME NEW p \in Nat, NEW q \in Nat, NEW t \in Nat, NEW c \in Nat, NEW d \in Nat, c < t, d < t, p * t + c = q * t + d
      PROVE  p = q /\ c = d
  <2> DEFINE a == p * t
             b == q * t
  <2>1. a \in Nat /\ b \in Nat /\ a + c = b + d
    BY <1>2, <1>4
  <2>2. (p < q => a + t <= b) /\ (q < p => b + t <= a)
    BY <1>1
  <2>4. p = q => a = b
    OBVIOUS
  <2> HIDE DEF a, b
  <2>3. ~(p < q) /\ ~(q < p)
    BY <1>4, <2>1, <2>2
  <2>5. p = q
    BY <2>3
  <2>6. a = b
    BY <2>4, <2>5
  <2> QED
    BY <2>1, <2>5, <2>6
<1> QED
  BY <1>1, <1>2, <1>3, <1>4

Within(sizes, meta, names) ==
    Product(sizes) \in Nat /\ getShardId(meta, names) \in 0 .. Product(sizes) - 1 /\ (Len(sizes) = 0 => Product(sizes) = 1)

\* The number of a shard is less than the product of the sizes.
LEMMA ShardsWithin ==
    ASSUME NEW levels, NEW n \in Nat, Len(levels) = n, DOMAIN levels = 1 .. n,
           \A i \in 1 .. n : levels[i].id \in Nat /\ levels[i].size \in Nat /\ levels[i].id < levels[i].size,
           NEW meta, NEW names, levels = LastLevels(meta, names),
           NEW sizes, sizes = [i \in 1 .. n |-> levels[i].size]
    PROVE  Within(sizes, meta, names)
<1>1. Len(sizes) = n /\ \A i \in 1 .. n : sizes[i] = levels[i].size
  OBVIOUS
<1>2. PICK p : ProductSteps(sizes, n, p)
  BY <1>1, ProductIs
<1>3. PICK h : ShardIdSteps(meta, names, levels, n, h)
  BY ShardIdIs
<1> DEFINE T == {i \in Nat : i <= n => p[i] \in Nat /\ h[i] \in Nat /\ h[i] < p[i]}
<1>4. 0 \in T
  BY <1>2, <1>3 DEF ProductSteps, ShardIdSteps
<1>5. ASSUME NEW i \in Nat, i \in T PROVE i + 1 \in T
  <2> SUFFICES ASSUME i + 1 <= n PROVE p[i + 1] \in Nat /\ h[i + 1] \in Nat /\ h[i + 1] < p[i + 1]
    OBVIOUS
  <2>1. i \in 0 .. n - 1 /\ i + 1 \in 1 .. n /\ p[i] \in Nat /\ h[i] \in Nat /\ h[i] < p[i]
    BY <1>5
  <2>2. p[i + 1] = p[i] * levels[i + 1].size /\ h[i + 1] = h[i] * levels[i + 1].size + levels[i + 1].id
    BY <1>1, <1>2, <1>3, <2>1 DEF ProductSteps, ShardIdSteps
  <2> DEFINE x == h[i]
             y == p[i]
             t == levels[i + 1].size
             k == levels[i + 1].id
  <2>3. x \in Nat /\ y \in Nat /\ t \in Nat /\ k \in Nat /\ x < y /\ k < t /\ p[i + 1] = y * t /\ h[i + 1] = x * t + k
    BY <2>1, <2>2
  <2> HIDE DEF x, y, t, k
  <2>4. y * t \in Nat /\ x * t + k \in Nat /\ x * t + k < y * t
    BY <2>3, Digits
  <2> QED
    BY <2>3, <2>4
<1>6. n \in T
  <2> HIDE DEF T
  <2> QED
    BY <1>4, <1>5, Induction
<1> QED
  BY <1>1, <1>2, <1>3, <1>6 DEF ProductSteps, ShardIdSteps, Within

SameIds(a, b) == \A i \in 1 .. Len(a) : a[i].id = b[i].id

\* The number of a shard says which it is on every level.
LEMMA ShardsApart ==
    ASSUME NEW n \in Nat,
           NEW a, Len(a) = n, NEW ma, NEW na, a = LastLevels(ma, na),
           NEW b, Len(b) = n, NEW mb, NEW nb, b = LastLevels(mb, nb),
           \A i \in 1 .. n : /\ a[i].id \in Nat /\ a[i].size \in Nat /\ a[i].id < a[i].size
                             /\ b[i].id \in Nat /\ b[i].size = a[i].size /\ b[i].id < a[i].size,
           getShardId(ma, na) = getShardId(mb, nb)
    PROVE  SameIds(a, b)
<1>1. PICK h : ShardIdSteps(ma, na, a, n, h)
  BY ShardIdIs
<1>2. PICK k : ShardIdSteps(mb, nb, b, n, k)
  BY ShardIdIs
<1> DEFINE T == {i \in Nat : i <= n => h[i] \in Nat /\ k[i] \in Nat /\ (h[i] = k[i] => \A j \in 1 .. i : a[j].id = b[j].id)}
<1>3. 0 \in T
  BY <1>1, <1>2 DEF ShardIdSteps
<1>4. ASSUME NEW i \in Nat, i \in T PROVE i + 1 \in T
  <2> SUFFICES ASSUME i + 1 <= n
               PROVE  h[i + 1] \in Nat /\ k[i + 1] \in Nat /\ (h[i + 1] = k[i + 1] => \A j \in 1 .. i + 1 : a[j].id = b[j].id)
    OBVIOUS
  <2> DEFINE s == a[i + 1].size
             x == a[i + 1].id
             y == b[i + 1].id
  <2>1. i \in 0 .. n - 1 /\ i + 1 \in 1 .. n /\ h[i] \in Nat /\ k[i] \in Nat /\ (h[i] = k[i] => \A j \in 1 .. i : a[j].id = b[j].id)
    BY <1>4
  <2>2. h[i + 1] = h[i] * s + x /\ k[i + 1] = k[i] * s + y
    BY <1>1, <1>2, <2>1 DEF ShardIdSteps
  <2>3. s \in Nat /\ x \in Nat /\ y \in Nat /\ x < s /\ y < s
    BY <2>1
  <2> HIDE DEF s, x, y
  <2> DEFINE p == h[i]
             q == k[i]
  <2>4. p \in Nat /\ q \in Nat /\ h[i + 1] = p * s + x /\ k[i + 1] = q * s + y
    BY <2>1, <2>2
  <2> HIDE DEF p, q
  <2>5. h[i + 1] \in Nat /\ k[i + 1] \in Nat
    <3>1. p * s \in Nat /\ q * s \in Nat
      BY <2>3, <2>4, Digits
    <3> QED
      BY <2>3, <2>4, <3>1
  <2>6. ASSUME h[i + 1] = k[i + 1], NEW j \in 1 .. i + 1 PROVE a[j].id = b[j].id
    <3>1. p = q /\ x = y
      <4> DEFINE c == p * s
                 d == q * s
      <4>1. c + x = d + y /\ c \in Nat /\ d \in Nat
        BY <2>3, <2>4, <2>6, Digits
      <4>2. (p < q => c + s <= d) /\ (q < p => d + s <= c)
        BY <2>3, <2>4, Digits
      <4>3. p = q => c = d
        OBVIOUS
      <4> HIDE DEF c, d
      <4>4. ~(p < q) /\ ~(q < p)
        BY <2>3, <4>1, <4>2
      <4>5. p = q
        BY <2>4, <4>4
      <4>6. c = d
        BY <4>3, <4>5
      <4> QED
        BY <2>3, <4>1, <4>5, <4>6
    <3>2. j \in 1 .. i \/ j = i + 1
      OBVIOUS
    <3> QED
      BY <2>1, <3>1, <3>2 DEF x, y, p, q
  <2> QED
    BY <2>5, <2>6
<1>5. n \in T
  <2> HIDE DEF T
  <2> QED
    BY <1>3, <1>4, Induction
<1>6. h[n] = k[n]
  BY <1>1, <1>2 DEF ShardIdSteps
<1>7. n <= n
  OBVIOUS
<1> QED
  BY <1>5, <1>6, <1>7 DEF SameIds

\* What a node hands to a node that depends on it fits the stack of that node.
LEMMA MetaPassed ==
    ASSUME NEW g, IsGraph(g), validate(g), NEW sh, NEW n \in g.nodes, NEW d \in g.deps[n],
           NEW meta, IsMeta(g, sh, meta, KeyStack(g, d))
    PROVE  /\ g.demultiplyCount[d] = 0 => IsMeta(g, sh, meta, Stack(g, n))
           /\ g.demultiplyCount[d] # 0 /\ sh[d] \in Nat =>
                 \A i \in Nat : i < sh[d] => IsMeta(g, sh, Append(meta, [node |-> d, id |-> i, size |-> sh[d]]), Stack(g, n))
<1> DEFINE L == LevelSet(g)
<1>1. g.demultiplyCount[d] = 0 => IsMeta(g, sh, meta, Stack(g, n))
  <2>1. g.demultiplyCount[d] = 0 => KeyStack(g, d) = Stack(g, n)
    BY KeyStacks
  <2> QED
    BY <2>1
<1>2. ASSUME g.demultiplyCount[d] # 0, sh[d] \in Nat, NEW i \in Nat, i < sh[d]
      PROVE  IsMeta(g, sh, Append(meta, [node |-> d, id |-> i, size |-> sh[d]]), Stack(g, n))
  <2> DEFINE l == [node |-> d, id |-> i, size |-> sh[d]]
             m == Len(meta)
             e == Append(meta, l)
             stack == Stack(g, n)
             left == Last(stack) \ {l.node}
  <2>1. d \in g.nodes /\ IsFiniteSet(g.nodes)
    BY DEF IsGraph
  <2>2. l \in L /\ l.node = d /\ l.id = i /\ l.size = sh[d]
    BY <1>2, <2>1 DEF LevelSet
  <2>3. meta \in Seq(L) /\ Fits(meta, KeyStack(g, d))
        /\ \A j \in 1 .. m : /\ meta[j].id < meta[j].size /\ meta[j].size = sh[meta[j].node]
                             /\ Fits(SubSeq(meta, 1, j - 1), KeyStack(g, meta[j].node))
    BY DEF IsMeta, LevelsOK
  <2> HIDE DEF l, L
  <2>4. m \in Nat /\ e \in Seq(L) /\ Len(e) = m + 1 /\ (\A j \in 1 .. m : e[j] = meta[j]) /\ e[m + 1] = l
    BY <2>2, <2>3, LenProperties, AppendProperties
  <2>5. stack \in Seq(SUBSET g.nodes) /\ stack # <<>> /\ d \in Last(stack)
        /\ KeyStack(g, d) = IF Last(stack) \ {d} = {} THEN Front(stack) ELSE Append(Front(stack), Last(stack) \ {d})
    BY <1>2, KeyStacks
  <2> HIDE DEF m, e, stack
  <2>6. Fits(e, stack)
    <3>1. Fits(meta, IF left = {} THEN Front(stack) ELSE Append(Front(stack), left))
      BY <2>2, <2>3, <2>5
    <3>2. l.node \in Last(stack)
      BY <2>2, <2>5
    <3> DEFINE N == g.nodes
    <3>3. IsFiniteSet(N) /\ stack \in Seq(SUBSET N)
      BY <2>1, <2>5
    <3>4. left = Last(stack) \ {l.node}
      OBVIOUS
    <3> HIDE DEF left, N
    <3> QED
      BY <2>2, <2>3, <2>5, <3>1, <3>2, <3>3, <3>4, FitsDivided DEF e
  <2>7. ASSUME NEW j \in 1 .. m + 1
        PROVE  /\ e[j].id < e[j].size /\ e[j].size = sh[e[j].node]
               /\ Fits(SubSeq(e, 1, j - 1), KeyStack(g, e[j].node))
    <3>1. j - 1 \in 0 .. m /\ Len(e) >= j - 1 /\ \A k \in 1 .. j - 1 : k \in 1 .. m
      BY <2>4
    <3>2. SubSeq(e, 1, j - 1) = SubSeq(meta, 1, j - 1)
      <4>1. \A k \in 1 .. j - 1 : e[k] = meta[k]
        BY <2>4, <3>1
      <4>2. j - 1 \in 0 .. Len(meta)
        BY <3>1 DEF m
      <4> QED
        BY <2>3, <2>4, <3>1, <4>1, <4>2, PrefixIs
    <3>3. CASE j \in 1 .. m
      BY <2>3, <2>4, <3>2, <3>3
    <3>4. CASE j = m + 1
      <4>1. SubSeq(meta, 1, m) = meta
        <5>1. m \in 0 .. Len(meta) /\ m = Len(meta)
          BY <2>4 DEF m
        <5>2. SubSeq(meta, 1, m) \in Seq(L) /\ Len(SubSeq(meta, 1, m)) = m /\ \A k \in 1 .. m : SubSeq(meta, 1, m)[k] = meta[k]
          BY <2>3, <5>1, PrefixIs
        <5> DEFINE a == SubSeq(meta, 1, m)
        <5> HIDE DEF a
        <5>3. a \in Seq(L) /\ Len(a) = Len(meta) /\ \A k \in 1 .. Len(a) : a[k] = meta[k]
          BY <5>1, <5>2 DEF a
        <5>4. a = meta
          BY <2>3, <5>3, SeqEqual
        <5> QED
          BY <5>4 DEF a
      <4>2. e[j] = l /\ j - 1 = m
        BY <2>4, <3>4
      <4> QED
        BY <1>2, <2>2, <2>3, <3>2, <4>1, <4>2
    <3> QED
      BY <2>4, <3>3, <3>4
  <2>8. LevelsOK(g, sh, e)
    BY <2>4, <2>7 DEF LevelsOK, L
  <2> QED
    BY <2>6, <2>8 DEF IsMeta, e, l, stack
<1> QED
  BY <1>1, <1>2

KeyIs(g, sh, n, meta, G) ==
    /\ Collapsible(meta, G) /\ IsMeta(g, sh, Collapsed(meta, G), KeyStack(g, n))
    /\ Cardinality(G) \in Nat /\ Cardinality(G) <= Len(meta) /\ Len(meta) \in Nat
    /\ Len(Collapsed(meta, G)) = Len(meta) - Cardinality(G)
    /\ \A i \in 1 .. Len(meta) - Cardinality(G) : Collapsed(meta, G)[i] = meta[i]
    /\ Len(LastLevels(meta, G)) = Cardinality(G) /\ DOMAIN LastLevels(meta, G) = 1 .. Cardinality(G)
    /\ \A i \in 1 .. Cardinality(G) : LastLevels(meta, G)[i] = meta[Len(meta) - Cardinality(G) + i]

\* What arrives can be collapsed; the key it leads to is one of the node.
LEMMA MetaKey ==
    ASSUME NEW g, IsGraph(g), validate(g), NEW sh, NEW n \in g.nodes, NEW G, G = g.gatherFrom[n],
           NEW meta, IsMeta(g, sh, meta, Stack(g, n))
    PROVE  KeyIs(g, sh, n, meta, G)
<1> DEFINE L == LevelSet(g)
           c == Collapsed(meta, G)
           last == LastLevels(meta, G)
           m == Len(meta)
           q == Cardinality(G)
<1>1. /\ meta \in Seq(L) /\ Fits(meta, Stack(g, n))
      /\ \A j \in 1 .. m : /\ meta[j].id < meta[j].size /\ meta[j].size = sh[meta[j].node]
                           /\ Fits(SubSeq(meta, 1, j - 1), KeyStack(g, meta[j].node))
  BY DEF IsMeta, LevelsOK
<1>2. G \subseteq g.nodes /\ IsFiniteSet(G) /\ q \in Nat /\ IsFiniteSet(g.nodes)
  <2>1. G \subseteq g.nodes /\ IsFiniteSet(g.nodes)
    BY DEF IsGraph
  <2> QED
    BY <2>1, FS_Subset, FS_CardinalityType
<1> HIDE DEF L
<1>3. m \in Nat /\ DOMAIN meta = 1 .. m
  BY <1>1, LenProperties
<1>4. /\ Collapsible(meta, G) /\ q <= m
      /\ c \in Seq(L) /\ Len(c) = m - q /\ (\A i \in 1 .. m - q : c[i] = meta[i])
      /\ Len(last) = q /\ DOMAIN last = 1 .. q /\ (\A i \in 1 .. q : last[i] = meta[m - q + i])
      /\ Fits(c, KeyStack(g, n))
  <2>1. CASE G = {}
    <3>1. q = 0
      BY <2>1, FS_EmptySet
    <3>2. SubSeq(meta, 1, m - 0) = meta
      <4>1. m \in 0 .. Len(meta) /\ m = Len(meta) /\ m - 0 = m
        BY <1>3
      <4>2. SubSeq(meta, 1, m) \in Seq(L) /\ Len(SubSeq(meta, 1, m)) = m /\ \A k \in 1 .. m : SubSeq(meta, 1, m)[k] = meta[k]
        BY <1>1, <4>1, PrefixIs
      <4> DEFINE a == SubSeq(meta, 1, m)
      <4> HIDE DEF a
      <4>3. a \in Seq(L) /\ Len(a) = Len(meta) /\ \A k \in 1 .. Len(a) : a[k] = meta[k]
        BY <4>1, <4>2 DEF a
      <4>4. a = meta
        BY <1>1, <4>3, SeqEqual
      <4> QED
        BY <4>1, <4>4 DEF a
    <3>3. c = meta
      BY <3>1, <3>2 DEF Collapsed
    <3>4. last = SubSeq(meta, m + 1, m)
      <4>1. m - 0 + 1 = m + 1
        BY <1>3
      <4> QED
        BY <3>1, <4>1 DEF LastLevels
    <3>5. SubSeq(meta, m + 1, m) = <<>>
      <4> HIDE DEF c, last
      <4> DEFINE a == SubSeq(meta, m + 1, m)
      <4>1. a \in Seq(L) /\ Len(a) = 0
        <5>1. m + 1 \in Int /\ m \in Int /\ \A i \in m + 1 .. m : meta[i] \in L
          BY <1>3
        <5>2. /\ SubSeq(meta, m + 1, m) \in Seq(L)
              /\ Len(SubSeq(meta, m + 1, m)) = IF m + 1 <= m THEN m - (m + 1) + 1 ELSE 0
          BY <5>1, SubSeqProperties
        <5> QED
          BY <1>3, <5>2
      <4> HIDE DEF a
      <4>2. a = <<>>
        BY <4>1, EmptySeq
      <4> QED
        BY <4>2 DEF a
    <3>6. last = <<>> /\ Levels(last) = {}
      <4>1. last = <<>>
        BY <3>4, <3>5
      <4> HIDE DEF last
      <4> QED
        BY <4>1 DEF Levels
    <3>7. Collapsible(meta, G)
      BY <1>3, <2>1, <3>1, <3>6 DEF Collapsible
    <3>8. KeyStack(g, n) = Stack(g, n)
      BY <2>1 DEF KeyStack
    <3>9. m - q = m /\ q <= m /\ 1 .. q = {}
      BY <1>3, <3>1
    <3>10. Len(last) = q /\ DOMAIN last = 1 .. q /\ (\A i \in 1 .. q : last[i] = meta[m - q + i])
      BY <3>1, <3>6, <3>9
    <3>11. c \in Seq(L) /\ Len(c) = m - q /\ \A i \in 1 .. m - q : c[i] = meta[i]
      BY <1>1, <3>3, <3>9
    <3>12. Fits(c, KeyStack(g, n))
      BY <1>1, <3>3, <3>8
    <3> QED
      BY <3>7, <3>9, <3>10, <3>11, <3>12
  <2>2. CASE G # {}
    <3> DEFINE stack == Stack(g, n)
               N == g.nodes
    <3>1. stack \in Seq(SUBSET N) /\ stack # <<>> /\ G = Last(stack) /\ KeyStack(g, n) = Front(stack)
      BY <2>2, KeyStacks DEF KeyStack
    <3>2. IsFiniteSet(N) /\ Fits(meta, stack)
      BY <1>1, <1>2
    <3> HIDE DEF stack, N, c, last, m, q
    <3>3. /\ Collapsible(meta, G)
          /\ Collapsed(meta, G) \in Seq(L) /\ Len(Collapsed(meta, G)) = Len(meta) - Cardinality(G)
          /\ \A i \in 1 .. Len(meta) - Cardinality(G) : Collapsed(meta, G)[i] = meta[i]
          /\ LastLevels(meta, G) \in Seq(L) /\ Len(LastLevels(meta, G)) = Cardinality(G)
          /\ \A i \in 1 .. Cardinality(G) : LastLevels(meta, G)[i] = meta[Len(meta) - Cardinality(G) + i]
          /\ Cardinality(G) <= Len(meta)
          /\ Fits(Collapsed(meta, G), Front(stack))
      BY <1>1, <3>1, <3>2, FitsFront
    <3>4. last \in Seq(L) /\ Len(last) = q
      BY <3>3 DEF last, q
    <3>5. DOMAIN last = 1 .. q
      BY <3>4, LenProperties
    <3> QED
      BY <3>1, <3>3, <3>5 DEF c, last, m, q
  <2> QED
    BY <2>1, <2>2
<1> HIDE DEF c, last, m, q
<1>5. LevelsOK(g, sh, c)
  <2>1. ASSUME NEW j \in 1 .. m - q
        PROVE  /\ c[j].id < c[j].size /\ c[j].size = sh[c[j].node]
               /\ Fits(SubSeq(c, 1, j - 1), KeyStack(g, c[j].node))
    <3>1. j \in 1 .. m /\ c[j] = meta[j] /\ j - 1 \in 0 .. m /\ Len(c) >= j - 1 /\ \A k \in 1 .. j - 1 : k \in 1 .. m - q
      BY <1>2, <1>3, <1>4
    <3>2. SubSeq(c, 1, j - 1) = SubSeq(meta, 1, j - 1)
      <4>1. \A k \in 1 .. j - 1 : c[k] = meta[k]
        BY <1>4, <3>1
      <4>2. j - 1 \in 0 .. Len(meta)
        BY <3>1 DEF m
      <4> QED
        BY <1>1, <1>4, <3>1, <4>1, <4>2, PrefixIs
    <3> QED
      BY <1>1, <3>1, <3>2
  <2> QED
    BY <1>4, <2>1 DEF LevelsOK, L
<1> QED
  BY <1>2, <1>3, <1>4, <1>5 DEF KeyIs, IsMeta, c, last, m, q

Alike(a, b, G) ==
    /\ CollapsedSizes(a, G) = CollapsedSizes(b, G)
    /\ Product(CollapsedSizes(a, G)) \in Nat
    /\ getShardId(a, G) \in 0 .. Product(CollapsedSizes(a, G)) - 1
    /\ CollapsedSizes(a, G) = <<>> => getShardId(a, G) = 0
    /\ Collapsed(a, G) = Collapsed(b, G) /\ getShardId(a, G) = getShardId(b, G) => a = b

\* The shards that a node gathers: all have the sizes of one of them, their
\* numbers are within the product of these, and tell them apart.
LEMMA ShardsAlike ==
    ASSUME NEW g, IsGraph(g), validate(g), NEW sh, NEW n \in g.nodes, NEW G, G = g.gatherFrom[n],
           NEW a, IsMeta(g, sh, a, Stack(g, n)), NEW b, IsMeta(g, sh, b, Stack(g, n))
    PROVE  Alike(a, b, G)
<1> DEFINE q == Cardinality(G)
           m == Len(a)
           L == LevelSet(g)
           la == LastLevels(a, G)
           lb == LastLevels(b, G)
<1>1. /\ q \in Nat /\ q <= m /\ m \in Nat /\ Len(la) = q /\ DOMAIN la = 1 .. q
      /\ (\A i \in 1 .. q : la[i] = a[m - q + i])
      /\ Len(Collapsed(a, G)) = m - q /\ (\A i \in 1 .. m - q : Collapsed(a, G)[i] = a[i])
  <2> HIDE DEF q, m, la
  <2>1. KeyIs(g, sh, n, a, G)
    BY MetaKey
  <2> QED
    BY <2>1 DEF KeyIs, q, m, la
<1>2. /\ Len(lb) = q /\ DOMAIN lb = 1 .. q
      /\ (\A i \in 1 .. q : lb[i] = b[Len(b) - q + i])
      /\ (\A i \in 1 .. Len(b) - q : Collapsed(b, G)[i] = b[i])
  <2> HIDE DEF q, lb
  <2>1. KeyIs(g, sh, n, b, G)
    BY MetaKey
  <2> QED
    BY <2>1 DEF KeyIs, q, lb
<1>3. Len(b) = m /\ \A i \in 1 .. m : a[i].node = b[i].node /\ a[i].size = b[i].size
  <2>1. Stack(g, n) \in Seq(SUBSET g.nodes)
    BY KeyStacks
  <2> DEFINE stack == Stack(g, n)
  <2>2. stack \in Seq(SUBSET g.nodes) /\ IsMeta(g, sh, a, stack) /\ IsMeta(g, sh, b, stack)
    BY <2>1
  <2> HIDE DEF stack
  <2>3. SameLevels(a, b)
    BY <2>2, MetaAlike
  <2> QED
    BY <2>3 DEF m, SameLevels
<1>4. a \in Seq(L) /\ b \in Seq(L) /\ (\A i \in 1 .. m : a[i].id < a[i].size) /\ \A i \in 1 .. m : b[i].id < b[i].size
  BY <1>3 DEF IsMeta, LevelsOK
<1>5. \A i \in 1 .. m : a[i] \in L /\ b[i] \in L
  BY <1>3, <1>4, ElementOfSeq
<1>6. \A i \in 1 .. m : /\ a[i].id \in Nat /\ a[i].size \in Nat /\ b[i].id \in Nat
                        /\ a[i] = [node |-> a[i].node, id |-> a[i].id, size |-> a[i].size]
                        /\ b[i] = [node |-> b[i].node, id |-> b[i].id, size |-> b[i].size]
  BY <1>5 DEF LevelSet
<1> HIDE DEF q, m, la, lb, L
<1>7. \A i \in 1 .. q : /\ m - q + i \in 1 .. m /\ la[i] = a[m - q + i] /\ lb[i] = b[m - q + i]
  BY <1>1, <1>2, <1>3
<1>8. \A i \in 1 .. q : /\ la[i].id \in Nat /\ la[i].size \in Nat /\ la[i].id < la[i].size
                        /\ lb[i].id \in Nat /\ lb[i].size = la[i].size /\ lb[i].id < la[i].size
  <2> SUFFICES ASSUME NEW i \in 1 .. q
               PROVE  /\ la[i].id \in Nat /\ la[i].size \in Nat /\ la[i].id < la[i].size
                      /\ lb[i].id \in Nat /\ lb[i].size = la[i].size /\ lb[i].id < la[i].size
    OBVIOUS
  <2> DEFINE j == m - q + i
  <2>1. j \in 1 .. m /\ la[i] = a[j] /\ lb[i] = b[j]
    BY <1>7
  <2> HIDE DEF j
  <2>2. a[j].id \in Nat /\ a[j].size \in Nat /\ b[j].id \in Nat /\ a[j].size = b[j].size /\ a[j].id < a[j].size /\ b[j].id < b[j].size
    BY <1>3, <1>4, <1>6, <2>1
  <2> QED
    BY <2>1, <2>2
<1> DEFINE sizes == [i \in 1 .. q |-> la[i].size]
<1>9. CollapsedSizes(a, G) = sizes /\ CollapsedSizes(b, G) = sizes
  <2>1. CollapsedSizes(a, G) = [i \in DOMAIN la |-> la[i].size] /\ CollapsedSizes(b, G) = [i \in DOMAIN lb |-> lb[i].size]
    BY DEF CollapsedSizes, la, lb
  <2> QED
    BY <1>1, <1>2, <1>8, <2>1
<1>10. Product(sizes) \in Nat /\ getShardId(a, G) \in 0 .. Product(sizes) - 1 /\ (q = 0 => Product(sizes) = 1)
  <2>1. sizes = [i \in 1 .. q |-> la[i].size]
    OBVIOUS
  <2> HIDE DEF sizes
  <2>2. la = LastLevels(a, G)
    BY DEF la
  <2>3. Len(la) = q /\ DOMAIN la = 1 .. q /\ q \in Nat /\ \A i \in 1 .. q : la[i].id \in Nat /\ la[i].size \in Nat /\ la[i].id < la[i].size
    BY <1>1, <1>8
  <2>4. Within(sizes, a, G)
    BY <2>1, <2>2, <2>3, ShardsWithin
  <2>5. Len(sizes) = q
    BY <2>1, <2>3
  <2> QED
    BY <2>4, <2>5 DEF Within
<1>11. sizes = <<>> => q = 0
  <2>1. Len(sizes) = q
    BY <1>1
  <2>2. Len(<<>>) = 0
    OBVIOUS
  <2> HIDE DEF sizes
  <2> QED
    BY <2>1, <2>2
<1> HIDE DEF sizes
<1>12. CollapsedSizes(a, G) = <<>> => getShardId(a, G) = 0
  BY <1>9, <1>10, <1>11
<1>13. ASSUME Collapsed(a, G) = Collapsed(b, G), getShardId(a, G) = getShardId(b, G) PROVE a = b
  <2>1. \A i \in 1 .. q : la[i].id = lb[i].id
    <3>1. la = LastLevels(a, G) /\ lb = LastLevels(b, G)
      BY DEF la, lb
    <3>2. q \in Nat /\ Len(la) = q /\ Len(lb) = q
      BY <1>1, <1>2
    <3>3. SameIds(la, lb)
      BY <1>8, <1>13, <3>1, <3>2, ShardsApart
    <3> QED
      BY <3>2, <3>3 DEF SameIds
  <2>2. ASSUME NEW i \in 1 .. m PROVE a[i] = b[i]
    <3>1. CASE i \in 1 .. m - q
      BY <1>1, <1>2, <1>3, <1>13, <3>1
    <3>2. CASE i \notin 1 .. m - q
      <4> DEFINE j == i - (m - q)
      <4>1. j \in 1 .. q /\ m - q + j = i
        BY <1>1, <3>2
      <4> HIDE DEF j
      <4>2. la[j] = a[i] /\ lb[j] = b[i] /\ la[j].id = lb[j].id
        BY <1>7, <2>1, <4>1
      <4>3. a[i].id = b[i].id /\ a[i].node = b[i].node /\ a[i].size = b[i].size
        BY <1>3, <4>2
      <4> QED
        BY <1>6, <4>3
    <3> QED
      BY <3>1, <3>2
  <2>3. Len(a) = Len(b) /\ \A i \in 1 .. Len(a) : a[i] = b[i]
    BY <1>3, <2>2 DEF m
  <2> QED
    BY <1>4, <2>3, SeqEqual
<1> QED
  BY <1>9, <1>10, <1>12, <1>13 DEF Alike

-----------------------------------------------------------------------------
(***************************************************************************)
(* Sessions and what was sent to them: x is                                *)
(* <<to which node, from which, metadata>>                                 *)
(***************************************************************************)

FirstSession(g) == <<EntryOf(g), <<>> >>
KeyOf(g, x) == <<x[1], Collapsed(x[3], g.gatherFrom[x[1]])>>
ShardOf(g, x) == getShardId(x[3], g.gatherFrom[x[1]])
SizesOf(g, x) == CollapsedSizes(x[3], g.gatherFrom[x[1]])

SentOK(g, sh, x) ==
    /\ x = <<x[1], x[2], x[3]>> /\ x[1] \in g.nodes /\ x[2] \in g.deps[x[1]]
    /\ IsMeta(g, sh, x[3], Stack(g, x[1]))

Tos(g, sent, s) == {x \in sent : KeyOf(g, x) = s}
Arrived(g, sent, s, d) == {ShardOf(g, x) : x \in {y \in Tos(g, sent, s) : y[2] = d}}

IsSession(r) ==
    /\ r = [remaining |-> r.remaining, isUsed |-> r.isUsed, sizes |-> r.sizes, inputs |-> r.inputs,
            guard |-> r.guard, unloadGuard |-> r.unloadGuard]
    /\ r.guard \in Guards /\ r.isUsed \in BOOLEAN

\* The pairs of a dependency and a shard that are there.
Filled(deps, P, inputs) == {p \in deps \X (0 .. P - 1) : p[2] \in DOMAIN inputs[p[1]]}

\* A session holds what was sent to it, and counts what is missing.
FedOK(g, r, sent, s) ==
    /\ \E x \in Tos(g, sent, s) : r.sizes = SizesOf(g, x)
    /\ r.inputs = [d \in g.deps[s[1]] |-> r.inputs[d]]
    /\ \A d \in g.deps[s[1]] : DOMAIN r.inputs[d] = Arrived(g, sent, s, d)
    /\ r.remaining = Cardinality(g.deps[s[1]]) * Product(r.sizes)
                        - Cardinality(Filled(g.deps[s[1]], Product(r.sizes), r.inputs))

\* All shards of all dependencies were sent.
Complete(g, sent, s) ==
    \E x \in Tos(g, sent, s) : \A d \in g.deps[s[1]] : \A k \in 0 .. Product(SizesOf(g, x)) - 1 : k \in Arrived(g, sent, s, d)

SessionsOK(g, sessions, sent, started) ==
    /\ \A s \in DOMAIN sessions \ {FirstSession(g)} : FedOK(g, sessions[s], sent, s)
    /\ \A x \in sent : KeyOf(g, x) \in DOMAIN sessions \cup started
    /\ \A s \in started \ {FirstSession(g)} : Complete(g, sent, s)

\* What is sent next does not lead to a session that was started.
LEMMA NotStarted ==
    ASSUME NEW g, IsGraph(g), validate(g), NEW sh, NEW sent, \A x \in sent : SentOK(g, sh, x),
           NEW sessions, NEW started, SessionsOK(g, sessions, sent, started),
           NEW x, SentOK(g, sh, x), x \notin sent
    PROVE  KeyOf(g, x) \notin started /\ KeyOf(g, x) # FirstSession(g)
<1> DEFINE n == x[1]
           G == g.gatherFrom[n]
           s == KeyOf(g, x)
<1>1. s # FirstSession(g)
  <2>1. g.deps[n] # {} /\ n \in g.nodes
    BY DEF SentOK
  <2>2. n # EntryOf(g)
    <3>1. validateNodes(g)
      BY DEF validate
    <3>2. EntryOf(g) \in g.nodes /\ g.kind[EntryOf(g)] = "ENTRY"
      BY <3>1, OneOfKind
    <3>3. g.deps[EntryOf(g)] = {}
      BY <3>2 DEF IsGraph
    <3> HIDE DEF n
    <3> QED
      BY <2>1, <3>3
  <2>3. s[1] = n
    BY DEF KeyOf
  <2> HIDE DEF n, s
  <2> QED
    BY <2>2, <2>3 DEF FirstSession
<1>2. ASSUME s \in started PROVE FALSE
  <2>1. PICK y \in Tos(g, sent, s) : \A d \in g.deps[s[1]] : \A k \in 0 .. Product(SizesOf(g, y)) - 1 : k \in Arrived(g, sent, s, d)
    <3> HIDE DEF s
    <3>1. Complete(g, sent, s)
      BY <1>1, <1>2 DEF SessionsOK
    <3> QED
      BY <3>1 DEF Complete
  <2>2. s[1] = n /\ n \in g.nodes /\ x[2] \in g.deps[n] /\ IsMeta(g, sh, x[3], Stack(g, n)) /\ s = <<n, Collapsed(x[3], G)>>
    BY DEF KeyOf, SentOK
  <2> HIDE DEF s, n, G
  <2>3. ASSUME NEW z \in Tos(g, sent, s)
        PROVE  z[1] = n /\ IsMeta(g, sh, z[3], Stack(g, n)) /\ Collapsed(z[3], G) = Collapsed(x[3], G)
               /\ z = <<n, z[2], z[3]>> /\ SizesOf(g, z) = CollapsedSizes(z[3], G) /\ ShardOf(g, z) = getShardId(z[3], G)
    <3>1. KeyOf(g, z) = s /\ SentOK(g, sh, z)
      BY <2>3 DEF Tos
    <3>2. <<z[1], Collapsed(z[3], g.gatherFrom[z[1]])>> = <<n, Collapsed(x[3], G)>>
      BY <2>2, <3>1 DEF KeyOf
    <3>3. z[1] = n
      BY <3>2
    <3> QED
      BY <3>1, <3>2, <3>3 DEF SentOK, G, SizesOf, ShardOf
  <2>4. Alike(x[3], y[3], G)
    BY <2>1, <2>2, <2>3, ShardsAlike DEF G
  <2>5. ShardOf(g, x) \in 0 .. Product(SizesOf(g, y)) - 1
    <3>1. ShardOf(g, x) = getShardId(x[3], G)
      BY DEF ShardOf, G, n
    <3> QED
      BY <2>1, <2>3, <2>4, <3>1 DEF Alike
  <2>6. ShardOf(g, x) \in Arrived(g, sent, s, x[2])
    BY <2>1, <2>2, <2>5
  <2>7. PICK z \in Tos(g, sent, s) : z[2] = x[2] /\ ShardOf(g, z) = ShardOf(g, x)
    BY <2>6 DEF Arrived
  <2>8. Alike(x[3], z[3], G)
    BY <2>2, <2>3, <2>7, ShardsAlike DEF G
  <2>9. getShardId(x[3], G) = getShardId(z[3], G)
    BY <2>3, <2>7 DEF ShardOf, G, n
  <2>10. x[3] = z[3]
    BY <2>3, <2>7, <2>8, <2>9 DEF Alike
  <2>11. x = <<n, x[2], x[3]>>
    BY DEF SentOK, n
  <2>12. x = z
    BY <2>3, <2>7, <2>10, <2>11
  <2> QED
    BY <2>7, <2>12 DEF Tos
<1> QED
  BY <1>1, <1>2

\* A session that misses nothing has got everything.
LEMMA ReadyComplete ==
    ASSUME NEW g, IsGraph(g), validate(g), NEW sh, NEW sent, \A x \in sent : SentOK(g, sh, x),
           NEW s, s[1] \in g.nodes, NEW r, FedOK(g, r, sent, s), r.remaining = 0
    PROVE  Complete(g, sent, s)
<1> DEFINE D == g.deps[s[1]]
           P == Product(r.sizes)
           F == Filled(D, P, r.inputs)
           K == 0 .. P - 1
<1>1. PICK x \in Tos(g, sent, s) : r.sizes = SizesOf(g, x)
  BY DEF FedOK
<1>2. P \in Nat
  <2>1. SentOK(g, sh, x)
    BY <1>1 DEF Tos
  <2>2. Alike(x[3], x[3], g.gatherFrom[x[1]])
    BY <2>1, ShardsAlike DEF SentOK
  <2> QED
    BY <1>1, <2>2 DEF Alike, SizesOf
<1>3. IsFiniteSet(D)
  BY FS_Subset DEF IsGraph
<1>4. IsFiniteSet(K) /\ Cardinality(K) = P
  <2> HIDE DEF P
  <2>1. IsFiniteSet(0 .. P - 1) /\ Cardinality(0 .. P - 1) = IF 0 > P - 1 THEN 0 ELSE (P - 1) - 0 + 1
    BY <1>2, FS_Interval
  <2> QED
    BY <1>2, <2>1
<1>5. Cardinality(F) = Cardinality(D) * P
  <2>1. Cardinality(D) * P - Cardinality(F) = 0
    BY DEF FedOK
  <2>2. F \subseteq D \X K
    BY DEF Filled
  <2>3. IsFiniteSet(D \X K) /\ Cardinality(D) \in Nat
    BY <1>3, <1>4, FS_Product, FS_CardinalityType
  <2> HIDE DEF F, D, K, P
  <2>4. Cardinality(F) \in Nat
    BY <2>2, <2>3, FS_Subset, FS_CardinalityType
  <2> DEFINE c == Cardinality(D) * P
             f == Cardinality(F)
  <2>5. c \in Nat /\ f \in Nat /\ c - f = 0
    BY <1>2, <2>1, <2>3, <2>4
  <2> HIDE DEF c, f
  <2>6. f = c
    BY <2>5
  <2> QED
    BY <2>6 DEF c, f
<1>6. F = D \X K
  <2>1. F \in SUBSET (D \X K)
    BY DEF Filled
  <2> HIDE DEF F, D, K, P
  <2>2. IsFiniteSet(D \X K) /\ Cardinality(D \X K) = Cardinality(D) * Cardinality(K)
    BY <1>3, <1>4, FS_Product
  <2> QED
    BY <1>4, <1>5, <2>1, <2>2, FS_Subset
<1>7. ASSUME NEW d \in D, NEW k \in K PROVE k \in Arrived(g, sent, s, d)
  <2>1. <<d, k>> \in F
    BY <1>6
  <2>2. k \in DOMAIN r.inputs[d]
    BY <2>1 DEF Filled
  <2> QED
    BY <2>2 DEF FedOK
<1> QED
  BY <1>1, <1>7 DEF Complete

-----------------------------------------------------------------------------
(***************************************************************************)
(* setInputs                                                               *)
(***************************************************************************)

\* The sessions are as they were, but for what they hold; new ones are not used.
Kept(old, new, keys) ==
    /\ new = [s \in DOMAIN old \cup keys |-> new[s]]
    /\ \A s \in DOMAIN new : IsSession(new[s])
    /\ \A s \in DOMAIN old : new[s].guard = old[s].guard /\ new[s].isUsed = old[s].isUsed
    /\ \A s \in DOMAIN new \ DOMAIN old : ~new[s].isUsed /\ new[s].guard = "none"

FedTo(g, old, fed, sent, started, keys) ==
    /\ fed = [ok |-> TRUE, sessions |-> fed.sessions]
    /\ Kept(old, fed.sessions, keys)
    /\ SessionsOK(g, fed.sessions, sent, started)

\* What is fed lands in one session.
setInputIs(r, d, k, e) ==
    /\ IsSession(e) /\ e.guard = r.guard /\ e.isUsed = r.isUsed
    /\ e.sizes = r.sizes /\ e.remaining = r.remaining - 1
    /\ e.inputs = [x \in DOMAIN r.inputs |-> e.inputs[x]]
    /\ DOMAIN e.inputs[d] = DOMAIN r.inputs[d] \cup {k}
    /\ \A x \in DOMAIN r.inputs \ {d} : e.inputs[x] = r.inputs[x]

\* setInput adds one tensor to what has arrived from the dependency, and the
\* session waits for one less.
LEMMA setInputDoes ==
    ASSUME NEW r, IsSession(r), NEW d \in DOMAIN r.inputs, r.inputs = [x \in DOMAIN r.inputs |-> r.inputs[x]],
           NEW k, NEW tensor
    PROVE  setInputIs(r, d, k, setInput(r, d, k, tensor))
<1> DEFINE e == setInput(r, d, k, tensor)
           put == Put(r.inputs[d], k, tensor)
           inputs == [r.inputs EXCEPT ![d] = put]
<1>1. ASSUME NEW q, NEW u, NEW z, NEW i, NEW gd, NEW ug, NEW p, NEW v, r = [remaining |-> q, isUsed |-> u, sizes |-> z, inputs |-> i, guard |-> gd, unloadGuard |-> ug]
      PROVE  [r EXCEPT !.inputs[d] = p, !.remaining = v] = [remaining |-> v, isUsed |-> u, sizes |-> z, inputs |-> [i EXCEPT ![d] = p], guard |-> gd, unloadGuard |-> ug]
  <2> DEFINE j == [i EXCEPT ![d] = p]
  <2>1. [[remaining |-> q, isUsed |-> u, sizes |-> z, inputs |-> i, guard |-> gd, unloadGuard |-> ug] EXCEPT !.inputs[d] = p, !.remaining = v]
           = [[[remaining |-> q, isUsed |-> u, sizes |-> z, inputs |-> i, guard |-> gd, unloadGuard |-> ug] EXCEPT !.inputs[d] = p] EXCEPT !.remaining = v]
    OBVIOUS
  <2>2. [[remaining |-> q, isUsed |-> u, sizes |-> z, inputs |-> i, guard |-> gd, unloadGuard |-> ug] EXCEPT !.inputs[d] = p] = [remaining |-> q, isUsed |-> u, sizes |-> z, inputs |-> j, guard |-> gd, unloadGuard |-> ug]
    OBVIOUS
  <2> HIDE DEF j
  <2>3. [[remaining |-> q, isUsed |-> u, sizes |-> z, inputs |-> j, guard |-> gd, unloadGuard |-> ug] EXCEPT !.remaining = v] = [remaining |-> v, isUsed |-> u, sizes |-> z, inputs |-> j, guard |-> gd, unloadGuard |-> ug]
    OBVIOUS
  <2> QED
    BY <1>1, <2>1, <2>2, <2>3, Zenon DEF j
<1>2. e = [r EXCEPT !.inputs[d] = put, !.remaining = r.remaining - 1]
  BY DEF setInput
<1> HIDE DEF e, put, inputs
<1>8. r = [remaining |-> r.remaining, isUsed |-> r.isUsed, sizes |-> r.sizes, inputs |-> r.inputs, guard |-> r.guard, unloadGuard |-> r.unloadGuard]
  BY DEF IsSession
<1>3. e = [remaining |-> r.remaining - 1, isUsed |-> r.isUsed, sizes |-> r.sizes, inputs |-> [r.inputs EXCEPT ![d] = put],
           guard |-> r.guard, unloadGuard |-> r.unloadGuard]
  BY <1>1, <1>2, <1>8, Zenon
<1>4. e.inputs = inputs /\ e.remaining = r.remaining - 1 /\ e.sizes = r.sizes /\ e.guard = r.guard /\ e.isUsed = r.isUsed
      /\ IsSession(e)
  BY <1>3 DEF IsSession, inputs
<1>5. DOMAIN inputs = DOMAIN r.inputs /\ inputs[d] = put /\ \A x \in DOMAIN r.inputs \ {d} : inputs[x] = r.inputs[x]
  BY DEF inputs
<1>6. DOMAIN put = DOMAIN r.inputs[d] \cup {k}
  BY DEF put, Put
<1>7. inputs = [x \in DOMAIN r.inputs |-> inputs[x]]
  BY DEF inputs
<1> QED
  BY <1>4, <1>5, <1>6, <1>7 DEF setInputIs, e

NewIs(r, n, meta) ==
    /\ IsSession(r) /\ r.isUsed = FALSE /\ r.guard = "none"
    /\ r.sizes = CollapsedSizes(meta, graph.gatherFrom[n])
    /\ r.inputs = [d \in graph.deps[n] |-> r.inputs[d]]
    /\ \A d \in graph.deps[n] : DOMAIN r.inputs[d] = {}
    /\ r.remaining = Cardinality(graph.deps[n]) * Product(r.sizes)

\* A new session misses all its inputs.
LEMMA NewSessionIs ==
    ASSUME NEW n, NEW meta, NEW r, r = NewSession(n, meta)
    PROVE  NewIs(r, n, meta)
<1> DEFINE sizes == CollapsedSizes(meta, graph.gatherFrom[n])
           all == Cardinality(graph.deps[n]) * Product(sizes)
           empty == [d \in graph.deps[n] |-> <<>>]
<1>1. r = [remaining |-> all, isUsed |-> FALSE, sizes |-> sizes, inputs |-> empty, guard |-> "none", unloadGuard |-> FALSE]
  BY DEF NewSession
<1>2. empty = [d \in graph.deps[n] |-> empty[d]] /\ \A d \in graph.deps[n] : DOMAIN empty[d] = {}
  OBVIOUS
<1> HIDE DEF empty
<1>3. r.sizes = sizes /\ r.inputs = empty /\ r.remaining = all /\ r.isUsed = FALSE /\ r.guard = "none" /\ IsSession(r)
  BY <1>1 DEF IsSession, Guards
<1> QED
  BY <1>2, <1>3 DEF NewIs

\* What is sent to one session is no matter of another one.
LEMMA OthersKeep ==
    ASSUME NEW g, NEW sent, NEW x, NEW s, KeyOf(g, x) # s
    PROVE  /\ \A r : FedOK(g, r, sent, s) => FedOK(g, r, sent \cup {x}, s)
           /\ Complete(g, sent, s) => Complete(g, sent \cup {x}, s)
<1>1. Tos(g, sent \cup {x}, s) = Tos(g, sent, s)
  BY DEF Tos
<1>2. \A d : Arrived(g, sent \cup {x}, s, d) = Arrived(g, sent, s, d)
  BY <1>1 DEF Arrived
<1>3. ASSUME NEW r, FedOK(g, r, sent, s) PROVE FedOK(g, r, sent \cup {x}, s)
  BY <1>1, <1>2, <1>3 DEF FedOK
<1>4. ASSUME Complete(g, sent, s) PROVE Complete(g, sent \cup {x}, s)
  BY <1>1, <1>2, <1>4 DEF Complete
<1> QED
  BY <1>3, <1>4

\* The session that x leads to, as it is or new, has not got x.
Waiting(g, r, sent, x) ==
    LET D == g.deps[x[1]]
        s == KeyOf(g, x)
        P == Product(SizesOf(g, x))
    IN  /\ IsSession(r) /\ r.sizes = SizesOf(g, x)
        /\ r.inputs = [e \in D |-> r.inputs[e]]
        /\ \A e \in D : DOMAIN r.inputs[e] = Arrived(g, sent, s, e)
        /\ ShardOf(g, x) \notin Arrived(g, sent, s, x[2])
        /\ r.remaining = Cardinality(D) * P - Cardinality(Filled(D, P, r.inputs))

\* The session that a tensor leads to, found or created, has room for it: the
\* metadata of two tensors lead to the same place of a session only if they are
\* the same.
LEMMA SessionWaiting ==
    ASSUME IsGraph(graph), validate(graph), NEW sh, NEW sent, \A y \in sent : SentOK(graph, sh, y),
           NEW sessions, \A s \in DOMAIN sessions : IsSession(sessions[s]), NEW started, SessionsOK(graph, sessions, sent, started),
           NEW x, SentOK(graph, sh, x), x \notin sent,
           NEW r, r = IF KeyOf(graph, x) \in DOMAIN sessions THEN sessions[KeyOf(graph, x)] ELSE NewSession(x[1], x[3])
    PROVE  Waiting(graph, r, sent, x)
<1> DEFINE s == KeyOf(graph, x)
           n == x[1]
           G == graph.gatherFrom[n]
           D == graph.deps[n]
           k == ShardOf(graph, x)
<1>1. s \notin started /\ s # FirstSession(graph)
  BY NotStarted
<1>2. s[1] = n /\ n \in graph.nodes /\ x[2] \in D /\ IsMeta(graph, sh, x[3], Stack(graph, n)) /\ s = <<n, Collapsed(x[3], G)>>
      /\ k = getShardId(x[3], G) /\ SizesOf(graph, x) = CollapsedSizes(x[3], G) /\ x = <<n, x[2], x[3]>>
  BY DEF KeyOf, SentOK, ShardOf, SizesOf
<1> HIDE DEF s, n, G, k
<1>3. ASSUME NEW z \in Tos(graph, sent, s)
      PROVE  /\ SizesOf(graph, z) = SizesOf(graph, x)
             /\ z[2] = x[2] => ShardOf(graph, z) # k
  <2>1. KeyOf(graph, z) = s /\ SentOK(graph, sh, z) /\ z \in sent
    BY <1>3 DEF Tos
  <2>2. <<z[1], Collapsed(z[3], graph.gatherFrom[z[1]])>> = <<n, Collapsed(x[3], G)>>
    BY <1>2, <2>1 DEF KeyOf
  <2>3. z[1] = n
    BY <2>2
  <2>4. /\ IsMeta(graph, sh, z[3], Stack(graph, n)) /\ Collapsed(z[3], G) = Collapsed(x[3], G)
        /\ z = <<n, z[2], z[3]>> /\ SizesOf(graph, z) = CollapsedSizes(z[3], G) /\ ShardOf(graph, z) = getShardId(z[3], G)
    BY <2>1, <2>2, <2>3 DEF SentOK, G, SizesOf, ShardOf
  <2>5. Alike(x[3], z[3], G)
    BY <1>2, <2>4, ShardsAlike DEF G
  <2>6. SizesOf(graph, z) = SizesOf(graph, x)
    BY <1>2, <2>4, <2>5 DEF Alike
  <2>7. ASSUME z[2] = x[2], ShardOf(graph, z) = k PROVE FALSE
    <3>1. x[3] = z[3]
      BY <1>2, <2>4, <2>5, <2>7 DEF Alike
    <3>2. x = z
      BY <1>2, <2>4, <2>7, <3>1
    <3> QED
      BY <2>1, <3>2
  <2> QED
    BY <2>6, <2>7
<1>4. k \notin Arrived(graph, sent, s, x[2])
  BY <1>3 DEF Arrived
<1>5. CASE s \in DOMAIN sessions
  <2>1. r = sessions[s] /\ IsSession(r)
    BY <1>5 DEF s
  <2>2. FedOK(graph, r, sent, s)
    BY <1>1, <1>5, <2>1 DEF SessionsOK
  <2>3. r.sizes = SizesOf(graph, x)
    BY <1>3, <2>2 DEF FedOK
  <2> QED
    BY <1>2, <1>4, <2>1, <2>2, <2>3 DEF FedOK, Waiting, s, k, n
<1>6. CASE s \notin DOMAIN sessions
  <2>1. r = NewSession(n, x[3])
    BY <1>6 DEF s, n
  <2>2. /\ IsSession(r)
        /\ r.sizes = CollapsedSizes(x[3], graph.gatherFrom[n])
        /\ r.inputs = [e \in graph.deps[n] |-> r.inputs[e]]
        /\ \A e \in graph.deps[n] : DOMAIN r.inputs[e] = {}
        /\ r.remaining = Cardinality(graph.deps[n]) * Product(r.sizes)
    <3>1. NewIs(r, n, x[3])
      BY <2>1, NewSessionIs
    <3> QED
      BY <3>1 DEF NewIs
  <2>3. Tos(graph, sent, s) = {}
    BY <1>1, <1>6 DEF SessionsOK, Tos
  <2>4. \A e : Arrived(graph, sent, s, e) = {}
    BY <2>3 DEF Arrived
  <2>5. r.sizes = SizesOf(graph, x)
    BY <1>2, <2>2 DEF G
  <2> DEFINE P == Product(SizesOf(graph, x))
  <2>6. Filled(D, P, r.inputs) = {}
    <3> HIDE DEF P
    <3> QED
      BY <2>2 DEF Filled
  <2>7. r.remaining = Cardinality(D) * P - Cardinality(Filled(D, P, r.inputs))
    <3>1. r.remaining = Cardinality(D) * P /\ Cardinality(Filled(D, P, r.inputs)) = 0
      BY <2>2, <2>5, <2>6, FS_EmptySet
    <3>2. Cardinality(D) \in Nat
      BY <1>2, FS_Subset, FS_CardinalityType DEF IsGraph
    <3>3. P \in Nat
      <4>1. Alike(x[3], x[3], G)
        BY <1>2, ShardsAlike DEF G
      <4> QED
        BY <1>2, <4>1 DEF Alike
    <3> DEFINE c == Cardinality(D) * P
    <3>4. c \in Nat /\ r.remaining = c
      BY <3>1, <3>2, <3>3
    <3> HIDE DEF c
    <3>5. c - 0 = c
      BY <3>4
    <3> QED
      BY <3>1, <3>4, <3>5 DEF c
  <2> QED
    BY <1>2, <1>4, <2>2, <2>4, <2>5, <2>7 DEF Waiting, s, k, n
<1> QED
  BY <1>5, <1>6

\* Afterwards it has.
LEMMA SessionFed ==
    ASSUME NEW g, IsGraph(g), validate(g), NEW sh, NEW sent,
           NEW x, SentOK(g, sh, x), NEW r, Waiting(g, r, sent, x),
           NEW e, setInputIs(r, x[2], ShardOf(g, x), e)
    PROVE  FedOK(g, e, sent \cup {x}, KeyOf(g, x))
<1> DEFINE s == KeyOf(g, x)
           d == x[2]
           k == ShardOf(g, x)
           D == g.deps[x[1]]
           P == Product(SizesOf(g, x))
           more == sent \cup {x}
<1>1. /\ r.sizes = SizesOf(g, x) /\ r.inputs = [y \in D |-> r.inputs[y]]
      /\ (\A y \in D : DOMAIN r.inputs[y] = Arrived(g, sent, s, y))
      /\ k \notin Arrived(g, sent, s, d)
      /\ r.remaining = Cardinality(D) * P - Cardinality(Filled(D, P, r.inputs))
  BY DEF Waiting
<1>2. s[1] = x[1] /\ d \in D /\ x[1] \in g.nodes
  BY DEF KeyOf, SentOK
<1>3. DOMAIN r.inputs = D
  BY <1>1
<1> HIDE DEF s, d, k, D, P, more
<1>4. /\ e.sizes = r.sizes /\ e.remaining = r.remaining - 1
      /\ e.inputs = [y \in D |-> e.inputs[y]]
      /\ DOMAIN e.inputs[d] = DOMAIN r.inputs[d] \cup {k}
      /\ \A y \in D \ {d} : e.inputs[y] = r.inputs[y]
  BY <1>3 DEF setInputIs, d, k
<1>5. x \in Tos(g, more, s)
  BY DEF Tos, more, s
<1>6. ASSUME NEW y \in D PROVE DOMAIN e.inputs[y] = Arrived(g, more, s, y)
  <2>1. Tos(g, more, s) = Tos(g, sent, s) \cup {x}
    BY DEF Tos, more, s
  <2>2. CASE y = d
    <3>1. Arrived(g, more, s, y) = Arrived(g, sent, s, y) \cup {k}
      BY <2>1, <2>2 DEF Arrived, k, d
    <3> QED
      BY <1>1, <1>2, <1>4, <2>2, <3>1
  <2>3. CASE y # d
    <3>1. Arrived(g, more, s, y) = Arrived(g, sent, s, y)
      BY <2>1, <2>3 DEF Arrived, d
    <3> QED
      BY <1>1, <1>4, <2>3, <3>1
  <2> QED
    BY <2>2, <2>3
<1>7. P \in Nat /\ k \in 0 .. P - 1
  <2>1. Alike(x[3], x[3], g.gatherFrom[x[1]])
    BY ShardsAlike DEF SentOK
  <2> QED
    BY <2>1 DEF Alike, P, k, SizesOf, ShardOf
<1>8. IsFiniteSet(D) /\ Cardinality(D) \in Nat
  BY <1>2, FS_Subset, FS_CardinalityType DEF IsGraph, D
<1> DEFINE F == Filled(D, P, r.inputs)
           E == Filled(D, P, e.inputs)
<1>9. E = F \cup {<<d, k>>}
  <2>1. \A p : p \in E <=> p \in D \X (0 .. P - 1) /\ p[2] \in DOMAIN e.inputs[p[1]]
    BY DEF Filled
  <2>2. \A p : p \in F <=> p \in D \X (0 .. P - 1) /\ p[2] \in DOMAIN r.inputs[p[1]]
    BY DEF Filled
  <2>3. <<d, k>> \in D \X (0 .. P - 1)
    BY <1>2, <1>7
  <2> HIDE DEF E, F
  <2>4. ASSUME NEW a \in D, NEW b \in 0 .. P - 1 PROVE b \in DOMAIN e.inputs[a] <=> b \in DOMAIN r.inputs[a] \/ (a = d /\ b = k)
    BY <1>4
  <2>5. \A p \in D \X (0 .. P - 1) : p[1] \in D /\ p[2] \in 0 .. P - 1 /\ (p = <<d, k>> <=> p[1] = d /\ p[2] = k)
    OBVIOUS
  <2> QED
    BY <2>1, <2>2, <2>3, <2>4, <2>5
<1>10. <<d, k>> \notin F
  BY <1>1, <1>2 DEF Filled
<1>11. IsFiniteSet(F) /\ Cardinality(F) \in Nat
  <2>1. F \subseteq D \X (0 .. P - 1)
    BY DEF Filled
  <2>2. IsFiniteSet(0 .. P - 1)
    BY <1>7, FS_Interval
  <2> HIDE DEF F
  <2> QED
    BY <1>8, <2>1, <2>2, FS_Product, FS_Subset, FS_CardinalityType
<1> HIDE DEF E, F
<1>12. Cardinality(E) = Cardinality(F) + 1
  BY <1>9, <1>10, <1>11, FS_AddElement
<1>13. e.remaining = Cardinality(D) * P - Cardinality(E)
  <2> DEFINE c == Cardinality(D) * P
             f == Cardinality(F)
  <2>1. c \in Nat /\ f \in Nat /\ r.remaining = c - f /\ e.remaining = r.remaining - 1 /\ Cardinality(E) = f + 1
    BY <1>1, <1>4, <1>7, <1>8, <1>11, <1>12 DEF F
  <2> HIDE DEF c, f
  <2>2. e.remaining = c - Cardinality(E)
    BY <2>1
  <2> QED
    BY <2>2 DEF c
<1>14. FedOK(g, e, more, s)
  <2>1. e.sizes = SizesOf(g, x)
    BY <1>1, <1>4
  <2> QED
    BY <1>2, <1>4, <1>5, <1>6, <1>13, <2>1 DEF FedOK, D, E, P
<1> QED
  BY <1>14 DEF more, s

\* One result into a node: no error, and it is in the session that it leads to.
LEMMA setInputsIs ==
    ASSUME IsGraph(graph), validate(graph), NEW sh, NEW sent, \A y \in sent : SentOK(graph, sh, y),
           NEW old, NEW keys, NEW fed, NEW started, FedTo(graph, old, fed, sent, started, keys),
           NEW n, NEW d, NEW result, NEW x, x = <<n, d, result.meta>>, SentOK(graph, sh, x), x \notin sent
    PROVE  FedTo(graph, old, setInputs(fed, n, d, result), sent \cup {x}, started, keys \cup {KeyOf(graph, x)})
<1> DEFINE s == KeyOf(graph, x)
           k == ShardOf(graph, x)
           names == graph.gatherFrom[n]
           S == fed.sessions
           r == IF s \in DOMAIN S THEN S[s] ELSE NewSession(x[1], x[3])
           t == setInput(r, d, k, result.tensor)
           e == setInputs(fed, n, d, result)
           more == sent \cup {x}
<1>1. /\ fed = [ok |-> TRUE, sessions |-> S] /\ SessionsOK(graph, S, sent, started)
      /\ S = [y \in DOMAIN old \cup keys |-> S[y]]
      /\ \A y \in DOMAIN S : IsSession(S[y])
      /\ \A y \in DOMAIN old : S[y].guard = old[y].guard /\ S[y].isUsed = old[y].isUsed
      /\ \A y \in DOMAIN S \ DOMAIN old : ~S[y].isUsed /\ S[y].guard = "none"
  BY DEF FedTo, Kept
<1>2. x[1] = n /\ x[2] = d /\ x[3] = result.meta
  OBVIOUS
<1>3. s \notin started /\ s # FirstSession(graph)
  BY <1>1, NotStarted
<1>4. n \in graph.nodes /\ d \in graph.deps[n] /\ IsMeta(graph, sh, result.meta, Stack(graph, n))
  BY <1>2 DEF SentOK
<1>5. Waiting(graph, r, sent, x)
  <2> DEFINE rr == r
  <2>1. rr = IF KeyOf(graph, x) \in DOMAIN S THEN S[KeyOf(graph, x)] ELSE NewSession(x[1], x[3])
    OBVIOUS
  <2> HIDE DEF rr, S
  <2>2. Waiting(graph, rr, sent, x)
    BY <1>1, <2>1, SessionWaiting
  <2> QED
    BY <2>2 DEF rr
<1>6. s = <<n, Collapsed(result.meta, names)>> /\ k = getShardId(result.meta, names)
  BY <1>2 DEF KeyOf, ShardOf
<1>7. r = IF s \in DOMAIN S THEN S[s] ELSE NewSession(n, result.meta)
  BY <1>2
<1>8. (s \in DOMAIN S => r = S[s]) /\ (s \notin DOMAIN S => ~r.isUsed /\ r.guard = "none")
  <2>1. ASSUME s \notin DOMAIN S PROVE ~r.isUsed /\ r.guard = "none"
    <3>1. PICK q : q = NewSession(n, result.meta)
      OBVIOUS
    <3>2. q.isUsed = FALSE /\ q.guard = "none"
      <4>1. NewIs(q, n, result.meta)
        BY <3>1, NewSessionIs
      <4> QED
        BY <4>1 DEF NewIs
    <3>3. r = q
      BY <1>7, <2>1, <3>1
    <3> QED
      BY <3>2, <3>3
  <2> QED
    BY <2>1
<1> HIDE DEF r, s, k, names, S
<1>9. /\ r.sizes = CollapsedSizes(result.meta, names) /\ DOMAIN r.inputs = graph.deps[n]
      /\ k \notin DOMAIN r.inputs[d] /\ IsSession(r) /\ r.inputs = [y \in DOMAIN r.inputs |-> r.inputs[y]]
  <2>1. /\ IsSession(r) /\ r.sizes = SizesOf(graph, x)
        /\ r.inputs = [y \in graph.deps[n] |-> r.inputs[y]]
        /\ DOMAIN r.inputs[d] = Arrived(graph, sent, s, d)
        /\ k \notin Arrived(graph, sent, s, d)
    BY <1>2, <1>4, <1>5 DEF Waiting, s, k
  <2> QED
    BY <1>2, <2>1 DEF SizesOf, names
<1>10. Collapsible(result.meta, names) /\ (r.sizes = <<>> => k = 0)
  <2>1. KeyIs(graph, sh, n, result.meta, names)
    BY <1>4, MetaKey DEF names
  <2>2. Alike(result.meta, result.meta, names)
    BY <1>4, ShardsAlike DEF names
  <2> QED
    BY <1>6, <1>9, <2>1, <2>2 DEF KeyIs, Alike
<1>11. e = [fed EXCEPT !.sessions = Put(@, s, t)]
  <2>1. /\ fed.ok = TRUE /\ Collapsible(result.meta, names) /\ k \notin DOMAIN r.inputs[d]
        /\ ~(r.sizes = <<>> /\ k > 0)
    <3>1. fed.ok = TRUE
      BY <1>1
    <3> QED
      BY <1>9, <1>10, <3>1
  <2> HIDE DEF e, t
  <2>2. e = [fed EXCEPT !.sessions = Put(fed.sessions, s, setInput(r, d, k, result.tensor))]
    <3>1. e = LET ns == graph.gatherFrom[n]
                  ss == <<n, Collapsed(result.meta, ns)>>
                  session == IF ss \in DOMAIN fed.sessions THEN fed.sessions[ss] ELSE NewSession(n, result.meta)
                  shardId == getShardId(result.meta, ns)
              IN  IF \/ ~fed.ok
                     \/ ~Collapsible(result.meta, ns)
                     \/ session.sizes = <<>> /\ shardId > 0
                     \/ shardId \in DOMAIN session.inputs[d]
                  THEN [fed EXCEPT !.ok = FALSE]
                  ELSE [fed EXCEPT !.sessions = Put(@, ss, setInput(session, d, shardId, result.tensor))]
      BY DEF e, setInputs
    <3>2. e = IF \/ ~fed.ok
                 \/ ~Collapsible(result.meta, names)
                 \/ r.sizes = <<>> /\ k > 0
                 \/ k \in DOMAIN r.inputs[d]
              THEN [fed EXCEPT !.ok = FALSE]
              ELSE [fed EXCEPT !.sessions = Put(fed.sessions, s, setInput(r, d, k, result.tensor))]
      <4>1. names = graph.gatherFrom[n] /\ fed.sessions = S
        BY DEF names, S
      <4> QED
        BY <1>6, <1>7, <3>1, <4>1
    <3> QED
      BY <2>1, <3>2
  <2> QED
    BY <2>2 DEF t
<1> HIDE DEF e, t
<1> DEFINE Z == Put(S, s, t)
<1>12. e = [ok |-> TRUE, sessions |-> Z] /\ e.sessions = Z
  <2>1. ASSUME NEW o, NEW a, NEW b, fed = [ok |-> o, sessions |-> a] PROVE [fed EXCEPT !.sessions = b] = [ok |-> o, sessions |-> b]
    <3>1. [[ok |-> o, sessions |-> a] EXCEPT !.sessions = b] = [ok |-> o, sessions |-> b]
      OBVIOUS
    <3> QED
      BY <2>1, <3>1, Zenon
  <2>2. e = [fed EXCEPT !.sessions = Z] /\ fed = [ok |-> TRUE, sessions |-> S]
    BY <1>1, <1>11 DEF S
  <2> HIDE DEF Z
  <2>3. e = [ok |-> TRUE, sessions |-> Z]
    BY <2>1, <2>2
  <2> QED
    BY <2>3
<1>13. /\ Z = [y \in DOMAIN S \cup {s} |-> Z[y]] /\ Z[s] = t /\ \A y \in DOMAIN S \ {s} : Z[y] = S[y]
  BY DEF Put
<1>14. setInputIs(r, d, k, t)
  BY <1>4, <1>9, setInputDoes DEF t
<1> HIDE DEF Z
<1>15. DOMAIN S = DOMAIN old \cup keys /\ DOMAIN Z = DOMAIN S \cup {s}
  BY <1>1, <1>13
<1>16. Kept(old, Z, keys \cup {s})
  <2>1. Z = [y \in DOMAIN old \cup (keys \cup {s}) |-> Z[y]]
    BY <1>13, <1>15
  <2>2. IsSession(t) /\ t.guard = r.guard /\ t.isUsed = r.isUsed
    BY <1>14 DEF setInputIs
  <2>3. ASSUME NEW y \in DOMAIN Z
        PROVE  /\ IsSession(Z[y])
               /\ y \in DOMAIN old => Z[y].guard = old[y].guard /\ Z[y].isUsed = old[y].isUsed
               /\ y \notin DOMAIN old => ~Z[y].isUsed /\ Z[y].guard = "none"
    <3>1. CASE y = s
      BY <1>1, <1>8, <1>13, <1>15, <2>2, <3>1
    <3>2. CASE y # s
      BY <1>1, <1>13, <1>15, <3>2
    <3> QED
      BY <3>1, <3>2
  <2> QED
    BY <1>15, <2>1, <2>3 DEF Kept
<1>17. SessionsOK(graph, Z, more, started)
  <2>1. FedOK(graph, t, more, s)
    BY <1>2, <1>5, <1>14, SessionFed DEF s, k
  <2>2. ASSUME NEW y \in DOMAIN Z \ {FirstSession(graph)} PROVE FedOK(graph, Z[y], more, y)
    <3>1. CASE y = s
      BY <1>13, <2>1, <3>1
    <3>2. CASE y # s
      <4>1. FedOK(graph, S[y], sent, y) /\ Z[y] = S[y]
        BY <1>1, <1>13, <1>15, <2>2, <3>2 DEF SessionsOK
      <4> QED
        BY <3>2, <4>1, OthersKeep DEF s
    <3> QED
      BY <3>1, <3>2
  <2>3. ASSUME NEW y \in more PROVE KeyOf(graph, y) \in DOMAIN Z \cup started
    <3>1. CASE y \in sent
      BY <1>1, <1>15, <3>1 DEF SessionsOK
    <3>2. CASE y = x
      BY <1>15, <3>2 DEF s
    <3> QED
      BY <2>3, <3>1, <3>2
  <2>4. ASSUME NEW y \in started \ {FirstSession(graph)} PROVE Complete(graph, more, y)
    <3>1. y # s /\ Complete(graph, sent, y)
      BY <1>1, <1>3, <2>4 DEF SessionsOK
    <3> QED
      BY <3>1, OthersKeep DEF s
  <2> QED
    BY <2>2, <2>3, <2>4 DEF SessionsOK
<1> QED
  BY <1>12, <1>16, <1>17 DEF FedTo, e, s

\* What is sent with the first i results to node n.
SentFirst(n, d, results, i) == {<<n, d, results[j].meta>> : j \in 1 .. i}

\* The results are of one node, and all are different.
Sendable(g, sh, n, d, results) ==
    /\ Len(results) \in Nat
    /\ \A i \in 1 .. Len(results) : SentOK(g, sh, <<n, d, results[i].meta>>)
    /\ \A i, j \in 1 .. Len(results) : results[i].meta = results[j].meta => i = j

\* All results into one node.
LEMMA FeedNodeDoes ==
    ASSUME IsGraph(graph), validate(graph), NEW sh, NEW sent, \A y \in sent : SentOK(graph, sh, y),
           NEW old, NEW keys, NEW fed, NEW started, FedTo(graph, old, fed, sent, started, keys),
           NEW n, NEW d, NEW results, Sendable(graph, sh, n, d, results),
           \A i \in 1 .. Len(results) : <<n, d, results[i].meta>> \notin sent
    PROVE  FedTo(graph, old, FeedNode(fed, n, d, results), sent \cup SentFirst(n, d, results, Len(results)), started,
                 keys \cup {KeyOf(graph, x) : x \in SentFirst(n, d, results, Len(results))})
<1> DEFINE m == Len(results)
           new(i) == SentFirst(n, d, results, i)
<1>1. PICK h : FeedNodeSteps(fed, n, d, results, m, h)
  <2>1. m \in Nat /\ Len(results) = m
    BY DEF Sendable
  <2> HIDE DEF m
  <2> QED
    BY <2>1, FeedNodeIs
<1> DEFINE P(i) == FedTo(graph, old, h[i], sent \cup new(i), started, keys \cup {KeyOf(graph, x) : x \in new(i)})
           T == {i \in Nat : i <= m => P(i)}
<1>2. m \in Nat
  BY DEF Sendable
<1>3. 0 \in T
  <2>1. new(0) = {}
    BY DEF SentFirst
  <2>2. h[0] = fed /\ sent \cup new(0) = sent /\ keys \cup {KeyOf(graph, x) : x \in new(0)} = keys
    BY <1>1, <2>1 DEF FeedNodeSteps
  <2> HIDE DEF new
  <2> QED
    BY <2>2
<1>4. ASSUME NEW i \in Nat, i \in T PROVE i + 1 \in T
  <2> SUFFICES ASSUME i + 1 <= m PROVE P(i + 1)
    OBVIOUS
  <2> DEFINE x == <<n, d, results[i + 1].meta>>
             a == sent \cup new(i)
             b == keys \cup {KeyOf(graph, y) : y \in new(i)}
  <2>1. i \in 0 .. m - 1 /\ i + 1 \in 1 .. m /\ P(i)
    BY <1>2, <1>4
  <2>2. h[i + 1] = setInputs(h[i], n, d, results[i + 1])
    BY <1>1, <2>1 DEF FeedNodeSteps
  <2>3. SentOK(graph, sh, x) /\ x \notin a
    <3>1. SentOK(graph, sh, x) /\ x \notin sent
      BY <2>1 DEF Sendable
    <3>2. x \notin new(i)
      <4> SUFFICES ASSUME NEW j \in 1 .. i, x = <<n, d, results[j].meta>> PROVE FALSE
        BY DEF SentFirst
      <4>1. results[j].meta = results[i + 1].meta /\ j \in 1 .. m /\ j # i + 1
        BY <1>2, <2>1
      <4> QED
        BY <2>1, <4>1 DEF Sendable
    <3> QED
      BY <3>1, <3>2
  <2>4. \A y \in a : SentOK(graph, sh, y)
    <3>1. \A j \in 1 .. i : j \in 1 .. m
      BY <1>2, <2>1
    <3> QED
      BY <3>1 DEF SentFirst, Sendable
  <2>5. FedTo(graph, old, h[i], a, started, b)
    BY <2>1
  <2>6. new(i + 1) = new(i) \cup {x}
    <3>1. 1 .. i + 1 = (1 .. i) \cup {i + 1}
      OBVIOUS
    <3> QED
      BY <3>1 DEF SentFirst
  <2>7. x = <<n, d, results[i + 1].meta>>
    OBVIOUS
  <2> HIDE DEF x, a, b, new
  <2>8. FedTo(graph, old, h[i + 1], a \cup {x}, started, b \cup {KeyOf(graph, x)})
    BY <2>2, <2>3, <2>4, <2>5, <2>7, setInputsIs
  <2>9. /\ a \cup {x} = sent \cup new(i + 1)
        /\ b \cup {KeyOf(graph, x)} = keys \cup {KeyOf(graph, y) : y \in new(i + 1)}
    BY <2>6 DEF a, b
  <2> QED
    BY <2>8, <2>9
<1>5. m \in T
  <2> HIDE DEF T
  <2> QED
    BY <1>2, <1>3, <1>4, Induction
<1>6. FeedNode(fed, n, d, results) = h[m] /\ P(m)
  BY <1>1, <1>2, <1>5 DEF FeedNodeSteps
<1> QED
  BY <1>6

\* What is sent with the results to the first k of the nodes ns.
SentTo(ns, d, results, k) == UNION {SentFirst(ns[i], d, results, Len(results)) : i \in 1 .. k}

\* All results into the next nodes.
LEMMA FeedDoes ==
    ASSUME IsGraph(graph), validate(graph), NEW sh, NEW sent, \A y \in sent : SentOK(graph, sh, y),
           NEW old, old = [s \in DOMAIN old |-> old[s]], \A s \in DOMAIN old : IsSession(old[s]),
           NEW started, SessionsOK(graph, old, sent, started),
           NEW d, NEW results, NEW ns, NEW m \in Nat, Len(ns) = m,
           \A i, j \in 1 .. m : ns[i] = ns[j] => i = j,
           \A i \in 1 .. m : /\ Sendable(graph, sh, ns[i], d, results)
                             /\ \A j \in 1 .. Len(results) : <<ns[i], d, results[j].meta>> \notin sent
    PROVE  FedTo(graph, old, Feed(old, ns, d, results), sent \cup SentTo(ns, d, results, m), started,
                 {KeyOf(graph, x) : x \in SentTo(ns, d, results, m)})
<1> DEFINE new(k) == SentTo(ns, d, results, k)
           keysOf(X) == {KeyOf(graph, x) : x \in X}
<1>1. PICK h : FeedSteps(old, ns, d, results, m, h)
  BY FeedIs
<1> DEFINE P(k) == FedTo(graph, old, h[k], sent \cup new(k), started, keysOf(new(k)))
           T == {k \in Nat : k <= m => P(k)}
<1>2. 0 \in T
  <2>1. new(0) = {}
    BY DEF SentTo
  <2>2. sent \cup new(0) = sent /\ keysOf(new(0)) = {}
    BY <2>1
  <2>3. h[0] = [ok |-> TRUE, sessions |-> old]
    BY <1>1 DEF FeedSteps
  <2>4. Kept(old, old, {})
    BY DEF Kept
  <2> HIDE DEF new, keysOf
  <2>5. FedTo(graph, old, h[0], sent, started, {})
    <3>1. h[0].sessions = old
      BY <2>3
    <3> QED
      BY <2>3, <2>4, <3>1 DEF FedTo
  <2> QED
    BY <2>2, <2>5
<1>3. ASSUME NEW k \in Nat, k \in T PROVE k + 1 \in T
  <2> SUFFICES ASSUME k + 1 <= m PROVE P(k + 1)
    OBVIOUS
  <2> DEFINE n == ns[k + 1]
             a == sent \cup new(k)
             b == keysOf(new(k))
             c == SentFirst(n, d, results, Len(results))
  <2>1. k \in 0 .. m - 1 /\ k + 1 \in 1 .. m /\ P(k)
    BY <1>3
  <2>2. h[k + 1] = FeedNode(h[k], n, d, results)
    BY <1>1, <2>1 DEF FeedSteps
  <2>3. Sendable(graph, sh, n, d, results)
    BY <2>1
  <2>4. \A y \in a : SentOK(graph, sh, y)
    <3>1. \A i \in 1 .. k : i \in 1 .. m
      BY <2>1
    <3>2. \A y \in new(k) : SentOK(graph, sh, y)
      BY <3>1 DEF SentTo, SentFirst, Sendable
    <3> QED
      BY <3>2
  <2>5. ASSUME NEW j \in 1 .. Len(results) PROVE <<n, d, results[j].meta>> \notin a
    <3>1. <<n, d, results[j].meta>> \notin sent
      BY <2>1
    <3>2. ASSUME NEW i \in 1 .. k, NEW l \in 1 .. Len(results), <<n, d, results[j].meta>> = <<ns[i], d, results[l].meta>> PROVE FALSE
      <4>1. i \in 1 .. m /\ i # k + 1 /\ ns[i] = n
        BY <2>1, <3>2
      <4> QED
        BY <2>1, <4>1
    <3> QED
      BY <3>1, <3>2 DEF SentTo, SentFirst
  <2>6. new(k + 1) = new(k) \cup c
    <3>1. 1 .. k + 1 = (1 .. k) \cup {k + 1}
      OBVIOUS
    <3> QED
      BY <3>1 DEF SentTo
  <2>7. FedTo(graph, old, h[k], a, started, b)
    BY <2>1
  <2>8. FedTo(graph, old, FeedNode(h[k], n, d, results), a \cup SentFirst(n, d, results, Len(results)), started,
              b \cup {KeyOf(graph, x) : x \in SentFirst(n, d, results, Len(results))})
    <3> HIDE DEF a, b, n
    <3> QED
      BY <2>3, <2>4, <2>5, <2>7, FeedNodeDoes
  <2> HIDE DEF n, new
  <2>9. /\ a \cup SentFirst(n, d, results, Len(results)) = sent \cup new(k + 1)
        /\ b \cup {KeyOf(graph, x) : x \in SentFirst(n, d, results, Len(results))} = keysOf(new(k + 1))
    BY <2>6
  <2> QED
    BY <2>2, <2>8, <2>9
<1>4. m \in T
  <2> HIDE DEF T
  <2> QED
    BY <1>2, <1>3, Induction
<1>5. Feed(old, ns, d, results) = h[m] /\ P(m)
  BY <1>1, <1>4 DEF FeedSteps
<1> QED
  BY <1>5

-----------------------------------------------------------------------------
(***************************************************************************)
(* Lists without repetition                                                *)
(***************************************************************************)

Once(q) == q \in Seq(ToSet(q)) /\ \A i, j \in 1 .. Len(q) : q[i] = q[j] => i = j
OnceOf(q, S) == Once(q) /\ ToSet(q) = S

\* Which sequences are lists of the elements of S.
LEMMA OnceIs ==
    ASSUME NEW T, NEW q \in Seq(T), \A i, j \in 1 .. Len(q) : q[i] = q[j] => i = j,
           NEW S, S = {q[i] : i \in 1 .. Len(q)}
    PROVE  OnceOf(q, S)
<1>1. Len(q) \in Nat /\ DOMAIN q = 1 .. Len(q)
  BY LenProperties
<1>2. ToSet(q) = S
  BY <1>1 DEF ToSet
<1>3. \A i \in 1 .. Len(q) : q[i] \in S
  OBVIOUS
<1>4. q \in Seq(S)
  <2>1. q = [i \in 1 .. Len(q) |-> q[i]]
    OBVIOUS
  <2> QED
    BY <1>1, <1>3, <2>1, IsASeq
<1> QED
  BY <1>2, <1>4 DEF OnceOf, Once

\* What such a list is made of.
LEMMA OnceHas ==
    ASSUME NEW q, Once(q)
    PROVE  /\ q \in Seq(ToSet(q)) /\ Len(q) \in Nat /\ ToSet(q) = {q[i] : i \in 1 .. Len(q)}
           /\ \A i, j \in 1 .. Len(q) : q[i] = q[j] => i = j
           /\ \A i \in 1 .. Len(q) : q[i] \in ToSet(q)
           /\ ToSet(q) = {} <=> q = <<>>
<1>1. q \in Seq(ToSet(q))
  BY DEF Once
<1>2. Len(q) \in Nat /\ DOMAIN q = 1 .. Len(q)
  BY <1>1, LenProperties
<1>3. ToSet(q) = {q[i] : i \in 1 .. Len(q)}
  BY <1>2 DEF ToSet
<1>4. Len(q) = 0 <=> q = <<>>
  BY <1>1, EmptySeq
<1> QED
  BY <1>1, <1>2, <1>3, <1>4 DEF Once

\* A list of nothing and a list of one.
LEMMA OnceFew ==
    /\ OnceOf(<<>>, {})
    /\ \A x : OnceOf(<<x>>, {x})
<1>1. OnceOf(<<>>, {})
  <2> DEFINE q == <<>>
  <2>1. q \in Seq({}) /\ Len(q) = 0 /\ q = <<>>
    OBVIOUS
  <2> DEFINE S == {}
  <2> HIDE DEF q
  <2>2. q \in Seq(S) /\ (\A i, j \in 1 .. Len(q) : q[i] = q[j] => i = j) /\ S = {q[i] : i \in 1 .. Len(q)}
    BY <2>1
  <2> HIDE DEF S
  <2>3. OnceOf(q, S)
    BY <2>2, OnceIs
  <2> QED
    BY <2>1, <2>3 DEF S
<1>2. ASSUME NEW x PROVE OnceOf(<<x>>, {x})
  <2>1. <<x>> \in Seq({x}) /\ Len(<<x>>) = 1 /\ <<x>>[1] = x
    OBVIOUS
  <2>2. {x} = {<<x>>[i] : i \in 1 .. 1}
    BY <2>1
  <2> DEFINE q == <<x>>
  <2> HIDE DEF q
  <2>3. /\ q \in Seq({x}) /\ {x} = {q[i] : i \in 1 .. Len(q)}
        /\ \A i, j \in 1 .. Len(q) : q[i] = q[j] => i = j
    BY <2>1, <2>2 DEF q
  <2>4. OnceOf(q, {x})
    BY <2>3, OnceIs
  <2> QED
    BY <2>4 DEF q
<1> QED
  BY <1>1, <1>2

\* Without its head.
LEMMA OnceTail ==
    ASSUME NEW q, Once(q), q # <<>>
    PROVE  Head(q) \in ToSet(q) /\ OnceOf(Tail(q), ToSet(q) \ {Head(q)})
<1> DEFINE S == ToSet(q)
           t == Tail(q)
           h == Head(q)
<1>1. /\ q \in Seq(S) /\ Len(q) \in Nat \ {0} /\ S = {q[i] : i \in 1 .. Len(q)}
      /\ \A i, j \in 1 .. Len(q) : q[i] = q[j] => i = j
  BY OnceHas, EmptySeq
<1>2. h = q[1] /\ h \in S /\ t \in Seq(S) /\ Len(t) = Len(q) - 1 /\ \A i \in 1 .. Len(t) : t[i] = q[i + 1]
  BY <1>1, HeadTailProperties
<1> HIDE DEF S, t, h
<1>3. \A i, j \in 1 .. Len(t) : t[i] = t[j] => i = j
  <2> SUFFICES ASSUME NEW i \in 1 .. Len(t), NEW j \in 1 .. Len(t), t[i] = t[j] PROVE i = j
    OBVIOUS
  <2>1. i + 1 \in 1 .. Len(q) /\ j + 1 \in 1 .. Len(q)
    BY <1>1, <1>2
  <2>3. q[i + 1] = q[j + 1]
    BY <1>2
  <2>2. i + 1 = j + 1
    BY <1>1, <2>1, <2>3
  <2> QED
    BY <2>2
<1>4. S \ {h} = {t[i] : i \in 1 .. Len(t)}
  <2>1. ASSUME NEW x \in S \ {h} PROVE \E i \in 1 .. Len(t) : x = t[i]
    <3>1. PICK i \in 1 .. Len(q) : x = q[i]
      BY <1>1
    <3>2. i # 1
      BY <1>2, <3>1
    <3>3. i - 1 \in 1 .. Len(t) /\ t[i - 1] = q[i - 1 + 1] /\ i - 1 + 1 = i
      BY <1>1, <1>2, <3>2
    <3> QED
      BY <3>1, <3>3
  <2>2. ASSUME NEW i \in 1 .. Len(t) PROVE t[i] \in S \ {h}
    <3>1. i + 1 \in 1 .. Len(q) /\ 1 \in 1 .. Len(q) /\ i + 1 # 1
      BY <1>1, <1>2
    <3> QED
      BY <1>1, <1>2, <3>1
  <2> QED
    BY <2>1, <2>2
<1>5. OnceOf(t, S \ {h})
  BY <1>2, <1>3, <1>4, OnceIs
<1> QED
  BY <1>2, <1>5 DEF S, t, h

\* With one more.
LEMMA OnceAppend ==
    ASSUME NEW q, Once(q), NEW x, x \notin ToSet(q)
    PROVE  OnceOf(Append(q, x), ToSet(q) \cup {x}) /\ Append(q, x) # q
<1> DEFINE S == ToSet(q)
           T == S \cup {x}
           a == Append(q, x)
<1>1. /\ q \in Seq(S) /\ Len(q) \in Nat /\ S = {q[i] : i \in 1 .. Len(q)}
      /\ \A i, j \in 1 .. Len(q) : q[i] = q[j] => i = j
      /\ \A i \in 1 .. Len(q) : q[i] \in S
  BY OnceHas
<1>2. q \in Seq(T)
  BY <1>1, SeqMonotonic
<1>3. a \in Seq(T) /\ Len(a) = Len(q) + 1 /\ (\A i \in 1 .. Len(q) : a[i] = q[i]) /\ a[Len(q) + 1] = x
  <2> x \in T
    OBVIOUS
  <2> HIDE DEF S, T
  <2> QED
    BY <1>2, AppendProperties
<1>4. x \notin S
  OBVIOUS
<1> HIDE DEF S, a
<1>5. \A i, j \in 1 .. Len(a) : a[i] = a[j] => i = j
  <2> SUFFICES ASSUME NEW i \in 1 .. Len(a), NEW j \in 1 .. Len(a), a[i] = a[j] PROVE i = j
    OBVIOUS
  <2>1. (i \in 1 .. Len(q) \/ i = Len(q) + 1) /\ (j \in 1 .. Len(q) \/ j = Len(q) + 1)
    BY <1>1, <1>3
  <2> QED
    BY <1>1, <1>3, <1>4, <2>1
<1>6. T = {a[i] : i \in 1 .. Len(a)}
  <2>1. \A i \in 1 .. Len(q) : i \in 1 .. Len(a)
    BY <1>1, <1>3
  <2>2. Len(q) + 1 \in 1 .. Len(a)
    BY <1>1, <1>3
  <2>3. \A i \in 1 .. Len(a) : i \in 1 .. Len(q) \/ i = Len(q) + 1
    BY <1>1, <1>3
  <2>4. ASSUME NEW y \in T PROVE \E i \in 1 .. Len(a) : y = a[i]
    <3>1. CASE y = x
      BY <1>3, <2>2, <3>1
    <3>2. CASE y \in S
      <4>1. PICK i \in 1 .. Len(q) : y = q[i]
        BY <1>1, <3>2
      <4> QED
        BY <1>3, <2>1, <4>1
    <3> QED
      BY <3>1, <3>2
  <2>5. ASSUME NEW i \in 1 .. Len(a) PROVE a[i] \in T
    BY <1>1, <1>3, <2>3
  <2> QED
    BY <2>4, <2>5
<1> HIDE DEF T
<1>7. OnceOf(a, T)
  BY <1>3, <1>5, <1>6, OnceIs
<1>8. a # q
  BY <1>1, <1>3
<1> QED
  BY <1>7, <1>8 DEF S, T, a

\* Two lists that share nothing.
LEMMA OnceConcat ==
    ASSUME NEW p, Once(p), NEW q, Once(q), ToSet(p) \cap ToSet(q) = {}
    PROVE  OnceOf(p \o q, ToSet(p) \cup ToSet(q))
<1> DEFINE P == ToSet(p)
           Q == ToSet(q)
           S == P \cup Q
           c == p \o q
<1>1. /\ p \in Seq(P) /\ Len(p) \in Nat /\ P = {p[i] : i \in 1 .. Len(p)}
      /\ \A i, j \in 1 .. Len(p) : p[i] = p[j] => i = j
      /\ \A i \in 1 .. Len(p) : p[i] \in P
  BY OnceHas
<1>2. /\ q \in Seq(Q) /\ Len(q) \in Nat /\ Q = {q[i] : i \in 1 .. Len(q)}
      /\ \A i, j \in 1 .. Len(q) : q[i] = q[j] => i = j
      /\ \A i \in 1 .. Len(q) : q[i] \in Q
  BY OnceHas
<1>3. p \in Seq(S) /\ q \in Seq(S)
  BY <1>1, <1>2, SeqMonotonic
<1>4. /\ c \in Seq(S) /\ Len(c) = Len(p) + Len(q)
      /\ \A i \in 1 .. Len(p) + Len(q) : c[i] = IF i <= Len(p) THEN p[i] ELSE q[i - Len(p)]
  <2> HIDE DEF S
  <2> QED
    BY <1>3, ConcatProperties
<1>5. P \cap Q = {}
  OBVIOUS
<1> HIDE DEF P, Q, c
<1>6. ASSUME NEW i \in 1 .. Len(c) PROVE (i \in 1 .. Len(p) /\ c[i] = p[i]) \/ (i > Len(p) /\ i - Len(p) \in 1 .. Len(q) /\ c[i] = q[i - Len(p)])
  BY <1>1, <1>2, <1>4
<1>7. \A i, j \in 1 .. Len(c) : c[i] = c[j] => i = j
  <2> SUFFICES ASSUME NEW i \in 1 .. Len(c), NEW j \in 1 .. Len(c), c[i] = c[j] PROVE i = j
    OBVIOUS
  <2>1. CASE i \in 1 .. Len(p) /\ c[i] = p[i]
    <3>1. c[i] \in P
      BY <1>1, <2>1
    <3>2. ~(j - Len(p) \in 1 .. Len(q) /\ c[j] = q[j - Len(p)])
      BY <1>2, <1>5, <3>1
    <3> QED
      BY <1>1, <1>6, <2>1, <3>2
  <2>2. CASE i > Len(p) /\ i - Len(p) \in 1 .. Len(q) /\ c[i] = q[i - Len(p)]
    <3>1. c[i] \in Q
      BY <1>2, <2>2
    <3>2. ~(j \in 1 .. Len(p) /\ c[j] = p[j])
      BY <1>1, <1>5, <3>1
    <3>3. j > Len(p) /\ j - Len(p) \in 1 .. Len(q) /\ c[j] = q[j - Len(p)]
      BY <1>6, <3>2
    <3>4. i - Len(p) = j - Len(p)
      BY <1>2, <2>2, <3>3
    <3> QED
      BY <1>1, <3>4
  <2> QED
    BY <1>6, <2>1, <2>2
<1>8. S = {c[i] : i \in 1 .. Len(c)}
  <2>1. ASSUME NEW i \in 1 .. Len(p) PROVE i \in 1 .. Len(c) /\ c[i] = p[i]
    BY <1>1, <1>2, <1>4
  <2>2. ASSUME NEW i \in 1 .. Len(q) PROVE Len(p) + i \in 1 .. Len(c) /\ c[Len(p) + i] = q[i]
    <3>1. Len(p) + i \in 1 .. Len(c) /\ ~(Len(p) + i <= Len(p)) /\ Len(p) + i - Len(p) = i
      BY <1>1, <1>2, <1>4
    <3> QED
      BY <1>4, <3>1
  <2>3. \A i \in 1 .. Len(c) : c[i] \in S
    BY <1>1, <1>2, <1>6
  <2>4. \A x \in P : \E i \in 1 .. Len(c) : x = c[i]
    BY <1>1, <2>1
  <2>5. \A x \in Q : \E i \in 1 .. Len(c) : x = c[i]
    <3> SUFFICES ASSUME NEW x \in Q PROVE \E i \in 1 .. Len(c) : x = c[i]
      OBVIOUS
    <3>1. PICK i \in 1 .. Len(q) : x = q[i]
      BY <1>2
    <3> QED
      BY <2>2, <3>1
  <2> QED
    BY <2>3, <2>4, <2>5
<1> HIDE DEF S
<1>9. OnceOf(c, S)
  BY <1>4, <1>7, <1>8, OnceIs
<1> QED
  BY <1>9 DEF S, P, Q, c

\* Without one of them.
LEMMA OnceRemove ==
    ASSUME NEW q, Once(q), NEW k \in 1 .. Len(q)
    PROVE  q[k] \in ToSet(q) /\ OnceOf(RemoveAt(q, k), ToSet(q) \ {q[k]})
<1> DEFINE S == ToSet(q)
           n == Len(q)
           a == SubSeq(q, 1, k - 1)
           b == SubSeq(q, k + 1, n)
           A == {q[i] : i \in 1 .. k - 1}
           B == {q[i] : i \in k + 1 .. n}
<1>1. /\ q \in Seq(S) /\ n \in Nat /\ S = {q[i] : i \in 1 .. n}
      /\ \A i, j \in 1 .. n : q[i] = q[j] => i = j
      /\ \A i \in 1 .. n : q[i] \in S
  BY OnceHas
<1>2. k \in 1 .. n
  OBVIOUS
<1> HIDE DEF n, S
<1>3. k \in Int /\ k >= 1 /\ k <= n /\ k - 1 \in Int /\ k + 1 \in Int /\ n \in Int
  BY <1>1, <1>2
<1>4. \A i \in 1 .. k - 1 : q[i] \in S
  BY <1>1, <1>3
<1>5. \A i \in k + 1 .. n : q[i] \in S
  BY <1>1, <1>3
<1>6. a \in Seq(S) /\ Len(a) = (IF 1 <= k - 1 THEN k - 1 - 1 + 1 ELSE 0) /\ \A i \in 1 .. k - 1 - 1 + 1 : a[i] = q[1 + i - 1]
  BY <1>3, <1>4, SubSeqProperties
<1>7. b \in Seq(S) /\ Len(b) = (IF k + 1 <= n THEN n - (k + 1) + 1 ELSE 0) /\ \A i \in 1 .. n - (k + 1) + 1 : b[i] = q[k + 1 + i - 1]
  BY <1>3, <1>5, SubSeqProperties
<1> HIDE DEF a, b
<1>8. a \in Seq(S) /\ Len(a) = k - 1 /\ \A i \in 1 .. k - 1 : a[i] = q[i]
  BY <1>3, <1>6
<1>9. b \in Seq(S) /\ Len(b) = n - k /\ \A i \in 1 .. n - k : b[i] = q[k + i]
  BY <1>3, <1>7
<1>10. OnceOf(a, A)
  <2>1. \A i, j \in 1 .. Len(a) : a[i] = a[j] => i = j
    BY <1>1, <1>3, <1>8
  <2>2. A = {a[i] : i \in 1 .. Len(a)}
    BY <1>8
  <2> HIDE DEF A
  <2> QED
    BY <1>8, <2>1, <2>2, OnceIs
<1>11. OnceOf(b, B)
  <2>1. \A i \in 1 .. n - k : k + i \in 1 .. n /\ k + i \in k + 1 .. n
    BY <1>3
  <2>2. \A i, j \in 1 .. Len(b) : b[i] = b[j] => i = j
    <3> SUFFICES ASSUME NEW i \in 1 .. Len(b), NEW j \in 1 .. Len(b), b[i] = b[j] PROVE i = j
      OBVIOUS
    <3>1. k + i = k + j
      BY <1>1, <1>9, <2>1
    <3> QED
      BY <1>3, <3>1
  <2>3. \A x \in B : \E i \in 1 .. Len(b) : x = b[i]
    <3> SUFFICES ASSUME NEW i \in k + 1 .. n PROVE \E j \in 1 .. Len(b) : q[i] = b[j]
      OBVIOUS
    <3>1. i - k \in 1 .. n - k /\ k + (i - k) = i
      BY <1>3
    <3> QED
      BY <1>9, <3>1
  <2>4. \A i \in 1 .. Len(b) : b[i] \in B
    BY <1>9, <2>1
  <2>5. B = {b[i] : i \in 1 .. Len(b)}
    BY <2>3, <2>4
  <2> HIDE DEF B
  <2> QED
    BY <1>9, <2>2, <2>5, OnceIs
<1>12. A \cap B = {}
  <2> SUFFICES ASSUME NEW i \in 1 .. k - 1, NEW j \in k + 1 .. n PROVE q[i] # q[j]
    OBVIOUS
  <2>1. i \in 1 .. n /\ j \in 1 .. n /\ i # j
    BY <1>3
  <2> QED
    BY <1>1, <2>1
<1>13. A \cup B = S \ {q[k]}
  <2>1. \A i \in 1 .. n : i # k => i \in 1 .. k - 1 \/ i \in k + 1 .. n
    BY <1>3
  <2>2. \A i : i \in 1 .. k - 1 \/ i \in k + 1 .. n => i \in 1 .. n /\ i # k
    BY <1>3
  <2>3. \A i : i \in 1 .. k - 1 \/ i \in k + 1 .. n => q[i] \in S \ {q[k]}
    BY <1>1, <1>2, <2>2
  <2>4. ASSUME NEW x \in S \ {q[k]} PROVE x \in A \cup B
    <3>1. PICK i \in 1 .. n : x = q[i]
      BY <1>1
    <3>2. i # k
      BY <3>1
    <3> QED
      BY <2>1, <3>1, <3>2
  <2>5. ASSUME NEW x \in A \cup B PROVE x \in S \ {q[k]}
    BY <2>3
  <2> QED
    BY <2>4, <2>5
<1> HIDE DEF A, B
<1>14. OnceOf(a \o b, A \cup B)
  BY <1>10, <1>11, <1>12, OnceConcat DEF OnceOf
<1> QED
  BY <1>1, <1>2, <1>13, <1>14 DEF RemoveAt, S, n, a, b

-----------------------------------------------------------------------------
(***************************************************************************)
(* What becomes of one session                                             *)
(***************************************************************************)

\* The session s, if there is one, is used and has the guard gd afterwards; what
\* it holds stays, and so do the other sessions.
Turned(old, new, s, u, gd) ==
    /\ new = [x \in DOMAIN old |-> new[x]]
    /\ \A x \in DOMAIN old \ {s} : new[x] = old[x]
    /\ s \in DOMAIN old =>
          /\ IsSession(new[s]) /\ new[s].isUsed = u /\ new[s].guard = gd
          /\ new[s].sizes = old[s].sizes /\ new[s].inputs = old[s].inputs /\ new[s].remaining = old[s].remaining

SessionTurned(r, e, u, gd) ==
    /\ IsSession(e) /\ e.isUsed = u /\ e.guard = gd
    /\ e.sizes = r.sizes /\ e.inputs = r.inputs /\ e.remaining = r.remaining

\* The session is replaced by one that holds the same.
LEMMA Replaced ==
    ASSUME NEW old, old = [x \in DOMAIN old |-> old[x]], NEW s, NEW u, NEW gd, NEW e,
           s \in DOMAIN old => SessionTurned(old[s], e, u, gd)
    PROVE  Turned(old, [old EXCEPT ![s] = e], s, u, gd)
<1> DEFINE new == [old EXCEPT ![s] = e]
<1>1. new = [x \in DOMAIN old |-> new[x]] /\ (\A x \in DOMAIN old \ {s} : new[x] = old[x]) /\ (s \in DOMAIN old => new[s] = e)
  OBVIOUS
<1> HIDE DEF new
<1>2. Turned(old, new, s, u, gd)
  BY <1>1 DEF Turned, SessionTurned
<1> QED
  BY <1>2 DEF new

\* One field of a session is set.
LEMMA FieldSet ==
    ASSUME NEW r, IsSession(r), NEW v
    PROVE  /\ v \in BOOLEAN => SessionTurned(r, [r EXCEPT !.isUsed = v], v, r.guard)
           /\ SessionTurned(r, [r EXCEPT !.unloadGuard = v], r.isUsed, r.guard)
           /\ v \in Guards => SessionTurned(r, [r EXCEPT !.guard = v], r.isUsed, v)
<1>1. ASSUME NEW q, NEW u, NEW z, NEW i, NEW gd, NEW ug,
             r = [remaining |-> q, isUsed |-> u, sizes |-> z, inputs |-> i, guard |-> gd, unloadGuard |-> ug]
      PROVE  /\ [r EXCEPT !.isUsed = v] = [remaining |-> q, isUsed |-> v, sizes |-> z, inputs |-> i, guard |-> gd, unloadGuard |-> ug]
             /\ [r EXCEPT !.unloadGuard = v] = [remaining |-> q, isUsed |-> u, sizes |-> z, inputs |-> i, guard |-> gd, unloadGuard |-> v]
             /\ [r EXCEPT !.guard = v] = [remaining |-> q, isUsed |-> u, sizes |-> z, inputs |-> i, guard |-> v, unloadGuard |-> ug]
  <2> DEFINE l == [remaining |-> q, isUsed |-> u, sizes |-> z, inputs |-> i, guard |-> gd, unloadGuard |-> ug]
  <2>1. [l EXCEPT !.isUsed = v] = [remaining |-> q, isUsed |-> v, sizes |-> z, inputs |-> i, guard |-> gd, unloadGuard |-> ug]
    OBVIOUS
  <2>2. [l EXCEPT !.unloadGuard = v] = [remaining |-> q, isUsed |-> u, sizes |-> z, inputs |-> i, guard |-> gd, unloadGuard |-> v]
    OBVIOUS
  <2>3. [l EXCEPT !.guard = v] = [remaining |-> q, isUsed |-> u, sizes |-> z, inputs |-> i, guard |-> v, unloadGuard |-> ug]
    OBVIOUS
  <2> HIDE DEF l
  <2>4. r = l
    BY <1>1 DEF l
  <2> QED
    BY <2>1, <2>2, <2>3, <2>4, Zenon
<1>2. r = [remaining |-> r.remaining, isUsed |-> r.isUsed, sizes |-> r.sizes, inputs |-> r.inputs, guard |-> r.guard, unloadGuard |-> r.unloadGuard]
  BY DEF IsSession
<1>3. /\ [r EXCEPT !.isUsed = v] = [remaining |-> r.remaining, isUsed |-> v, sizes |-> r.sizes, inputs |-> r.inputs, guard |-> r.guard, unloadGuard |-> r.unloadGuard]
      /\ [r EXCEPT !.unloadGuard = v] = [remaining |-> r.remaining, isUsed |-> r.isUsed, sizes |-> r.sizes, inputs |-> r.inputs, guard |-> r.guard, unloadGuard |-> v]
      /\ [r EXCEPT !.guard = v] = [remaining |-> r.remaining, isUsed |-> r.isUsed, sizes |-> r.sizes, inputs |-> r.inputs, guard |-> v, unloadGuard |-> r.unloadGuard]
  BY <1>1, <1>2, Zenon
<1>4. ASSUME NEW e, NEW u \in BOOLEAN, NEW gd \in Guards, NEW ug,
             e = [remaining |-> r.remaining, isUsed |-> u, sizes |-> r.sizes, inputs |-> r.inputs, guard |-> gd, unloadGuard |-> ug]
      PROVE  SessionTurned(r, e, u, gd)
  BY <1>4 DEF SessionTurned, IsSession
<1>5. r.isUsed \in BOOLEAN /\ r.guard \in Guards
  BY DEF IsSession
<1>6. ASSUME v \in BOOLEAN PROVE SessionTurned(r, [r EXCEPT !.isUsed = v], v, r.guard)
  BY <1>3, <1>4, <1>5, <1>6
<1>7. SessionTurned(r, [r EXCEPT !.unloadGuard = v], r.isUsed, r.guard)
  BY <1>3, <1>4, <1>5
<1>8. ASSUME v \in Guards PROVE SessionTurned(r, [r EXCEPT !.guard = v], r.isUsed, v)
  BY <1>3, <1>4, <1>5, <1>8
<1> QED
  BY <1>6, <1>7, <1>8

\* Two changes in a row.
LEMMA TurnedTwice ==
    ASSUME NEW a, NEW b, NEW c, NEW s, NEW u, NEW gd, NEW v, NEW hd, Turned(a, b, s, u, gd), Turned(b, c, s, v, hd)
    PROVE  Turned(a, c, s, v, hd)
<1>1. DOMAIN b = DOMAIN a
  BY DEF Turned
<1> QED
  BY <1>1 DEF Turned

Sessions(sessions) == sessions = [x \in DOMAIN sessions |-> sessions[x]] /\ \A x \in DOMAIN sessions : IsSession(sessions[x])

\* One field of the session of s is set.
LEMMA FieldTurned ==
    ASSUME NEW old, Sessions(old), NEW s, NEW v
    PROVE  /\ v \in BOOLEAN => Turned(old, [old EXCEPT ![s].isUsed = v], s, v, old[s].guard)
           /\ Turned(old, [old EXCEPT ![s].unloadGuard = v], s, old[s].isUsed, old[s].guard)
           /\ v \in Guards => Turned(old, [old EXCEPT ![s].guard = v], s, old[s].isUsed, v)
<1> DEFINE r == old[s]
<1>1. old = [x \in DOMAIN old |-> old[x]]
  BY DEF Sessions
<1>2. s \in DOMAIN old =>
        /\ v \in BOOLEAN => SessionTurned(r, [r EXCEPT !.isUsed = v], v, r.guard)
        /\ SessionTurned(r, [r EXCEPT !.unloadGuard = v], r.isUsed, r.guard)
        /\ v \in Guards => SessionTurned(r, [r EXCEPT !.guard = v], r.isUsed, v)
  <2>1. s \in DOMAIN old => IsSession(r)
    BY DEF Sessions
  <2> HIDE DEF r
  <2> QED
    BY <2>1, FieldSet
<1> DEFINE a == [r EXCEPT !.isUsed = v]
           b == [r EXCEPT !.unloadGuard = v]
           c == [r EXCEPT !.guard = v]
<1>3. [old EXCEPT ![s].isUsed = v] = [old EXCEPT ![s] = a]
  OBVIOUS
<1>4. [old EXCEPT ![s].unloadGuard = v] = [old EXCEPT ![s] = b]
  OBVIOUS
<1>5. [old EXCEPT ![s].guard = v] = [old EXCEPT ![s] = c]
  OBVIOUS
<1>6. s \in DOMAIN old => (v \in BOOLEAN => SessionTurned(old[s], a, v, old[s].guard))
                          /\ SessionTurned(old[s], b, old[s].isUsed, old[s].guard)
                          /\ (v \in Guards => SessionTurned(old[s], c, old[s].isUsed, v))
  BY <1>2
<1> HIDE DEF r, a, b, c
<1>7. v \in BOOLEAN => Turned(old, [old EXCEPT ![s] = a], s, v, old[s].guard)
  BY <1>1, <1>6, Replaced
<1>8. Turned(old, [old EXCEPT ![s] = b], s, old[s].isUsed, old[s].guard)
  BY <1>1, <1>6, Replaced
<1>9. v \in Guards => Turned(old, [old EXCEPT ![s] = c], s, old[s].isUsed, v)
  BY <1>1, <1>6, Replaced
<1> QED
  BY <1>3, <1>4, <1>5, <1>7, <1>8, <1>9, Zenon

\* Sessions stay sessions.
LEMMA TurnedSessions ==
    ASSUME NEW old, Sessions(old), NEW new, NEW s, NEW u, NEW gd, Turned(old, new, s, u, gd)
    PROVE  Sessions(new) /\ DOMAIN new = DOMAIN old
<1>1. DOMAIN new = DOMAIN old /\ new = [x \in DOMAIN new |-> new[x]]
  BY DEF Turned
<1>2. ASSUME NEW x \in DOMAIN old PROVE IsSession(new[x])
  BY DEF Turned, Sessions
<1> QED
  BY <1>1, <1>2 DEF Sessions

\* The ways in which the actions change a session.
LEMMA Turns ==
    ASSUME NEW old, Sessions(old), NEW s
    PROVE  /\ Turned(old, [old EXCEPT ![s].isUsed = TRUE], s, TRUE, old[s].guard)
           /\ Turned(old, [old EXCEPT ![s].isUsed = TRUE, ![s].unloadGuard = TRUE], s, TRUE, old[s].guard)
           /\ \A gd \in Guards : Turned(old, [old EXCEPT ![s].isUsed = TRUE, ![s].unloadGuard = TRUE, ![s].guard = gd], s, TRUE, gd)
           /\ \A gd \in Guards : Turned(old, [old EXCEPT ![s].guard = gd], s, old[s].isUsed, gd)
           /\ Turned(old, [old EXCEPT ![s] = Released(@)], s, old[s].isUsed, "none")
<1> DEFINE a(t) == [old EXCEPT ![s].isUsed = t]
           b(t, w) == [a(t) EXCEPT ![s].unloadGuard = w]
           c(t, w, gd) == [b(t, w) EXCEPT ![s].guard = gd]
<1>1. ASSUME NEW t \in BOOLEAN PROVE Turned(old, a(t), s, t, old[s].guard) /\ Sessions(a(t)) /\ DOMAIN a(t) = DOMAIN old
  <2>1. Turned(old, a(t), s, t, old[s].guard)
    BY FieldTurned
  <2> DEFINE n == a(t)
  <2> HIDE DEF n
  <2>2. Turned(old, n, s, t, old[s].guard)
    BY <2>1 DEF n
  <2>3. Sessions(n) /\ DOMAIN n = DOMAIN old
    BY <2>2, TurnedSessions
  <2> QED
    BY <2>1, <2>3 DEF n
<1> DEFINE at1 == a(TRUE)
<1>2. Turned(old, at1, s, TRUE, old[s].guard) /\ Sessions(at1) /\ DOMAIN at1 = DOMAIN old
  BY <1>1
<1> DEFINE at2 == [at1 EXCEPT ![s].unloadGuard = TRUE]
<1>3. /\ [old EXCEPT ![s].isUsed = TRUE] = at1
      /\ [old EXCEPT ![s].isUsed = TRUE, ![s].unloadGuard = TRUE] = at2
  <2>1. ASSUME NEW t, NEW w PROVE [old EXCEPT ![s].isUsed = t, ![s].unloadGuard = w] = [[old EXCEPT ![s].isUsed = t] EXCEPT ![s].unloadGuard = w]
    OBVIOUS
  <2> QED
    BY <2>1
<1>4. ASSUME NEW gd PROVE [old EXCEPT ![s].isUsed = TRUE, ![s].unloadGuard = TRUE, ![s].guard = gd] = [at2 EXCEPT ![s].guard = gd]
  <2>1. ASSUME NEW t, NEW w
        PROVE [old EXCEPT ![s].isUsed = t, ![s].unloadGuard = w, ![s].guard = gd]
                = [[[old EXCEPT ![s].isUsed = t] EXCEPT ![s].unloadGuard = w] EXCEPT ![s].guard = gd]
    OBVIOUS
  <2> QED
    BY <2>1
<1> HIDE DEF at1
<1>5. Turned(at1, at2, s, at1[s].isUsed, at1[s].guard)
  BY <1>2, FieldTurned
<1>6. Sessions(at2) /\ DOMAIN at2 = DOMAIN at1
  <2> HIDE DEF at2
  <2> QED
    BY <1>2, <1>5, TurnedSessions
<1> HIDE DEF at2
<1>7. ASSUME s \in DOMAIN old PROVE at1[s].isUsed = TRUE /\ at1[s].guard = old[s].guard /\ at2[s].isUsed = TRUE /\ at2[s].guard = old[s].guard
  BY <1>2, <1>5, <1>7 DEF Turned
<1>8. Turned(old, at2, s, TRUE, old[s].guard)
  <2>1. Turned(old, at2, s, at1[s].isUsed, at1[s].guard)
    <3> DEFINE u == at1[s].isUsed
               gd == at1[s].guard
               hd == old[s].guard
               t == TRUE
    <3>1. Turned(old, at1, s, t, hd) /\ Turned(at1, at2, s, u, gd)
      BY <1>2, <1>5
    <3> HIDE DEF u, gd, hd, t
    <3>2. Turned(old, at2, s, u, gd)
      BY <3>1, TurnedTwice
    <3> QED
      BY <3>2 DEF u, gd
  <2> QED
    BY <1>7, <2>1 DEF Turned
<1>9. ASSUME NEW gd \in Guards PROVE Turned(old, [at2 EXCEPT ![s].guard = gd], s, TRUE, gd)
  <2> DEFINE at3 == [at2 EXCEPT ![s].guard = gd]
  <2>1. Turned(at2, at3, s, at2[s].isUsed, gd)
    BY <1>6, FieldTurned
  <2> HIDE DEF at3
  <2>2. Turned(old, at3, s, at2[s].isUsed, gd)
    <3> DEFINE u == at2[s].isUsed
               hd == old[s].guard
               t == TRUE
    <3>1. Turned(old, at2, s, t, hd) /\ Turned(at2, at3, s, u, gd)
      BY <1>8, <2>1
    <3> HIDE DEF u, hd, t
    <3>2. Turned(old, at3, s, u, gd)
      BY <3>1, TurnedTwice
    <3> QED
      BY <3>2 DEF u
  <2>3. Turned(old, at3, s, TRUE, gd)
    BY <1>7, <2>2 DEF Turned
  <2> QED
    BY <2>3 DEF at3
<1>10. ASSUME NEW gd \in Guards PROVE Turned(old, [old EXCEPT ![s].guard = gd], s, old[s].isUsed, gd)
  BY FieldTurned
<1>11. Turned(old, [old EXCEPT ![s] = Released(@)], s, old[s].isUsed, "none")
  <2> DEFINE r == old[s]
             e == [r EXCEPT !.guard = "none", !.unloadGuard = FALSE]
             f == [r EXCEPT !.guard = "none"]
  <2>1. [old EXCEPT ![s] = Released(@)] = [old EXCEPT ![s] = e]
    BY DEF Released
  <2>2. e = [f EXCEPT !.unloadGuard = FALSE]
    <3>1. ASSUME NEW x, NEW gd, NEW w PROVE [x EXCEPT !.guard = gd, !.unloadGuard = w] = [[x EXCEPT !.guard = gd] EXCEPT !.unloadGuard = w]
      OBVIOUS
    <3> QED
      BY <3>1
  <2>3. ASSUME s \in DOMAIN old PROVE SessionTurned(r, e, r.isUsed, "none")
    <3>1. IsSession(r) /\ "none" \in Guards
      BY <2>3 DEF Sessions, Guards
    <3> HIDE DEF r
    <3>2. SessionTurned(r, f, r.isUsed, "none")
      BY <3>1, FieldSet
    <3> HIDE DEF f
    <3>3. IsSession(f)
      BY <3>2 DEF SessionTurned
    <3>4. SessionTurned(f, [f EXCEPT !.unloadGuard = FALSE], f.isUsed, f.guard)
      BY <3>3, FieldSet
    <3> HIDE DEF e
    <3> QED
      BY <2>2, <3>2, <3>4 DEF SessionTurned
  <2>4. old = [x \in DOMAIN old |-> old[x]]
    BY DEF Sessions
  <2>5. s \in DOMAIN old => SessionTurned(old[s], e, old[s].isUsed, "none")
    BY <2>3
  <2> HIDE DEF r, e
  <2> QED
    BY <2>1, <2>4, <2>5, Replaced
<1> QED
  BY <1>2, <1>3, <1>4, <1>8, <1>9, <1>10, <1>11

-----------------------------------------------------------------------------
(***************************************************************************)
(* The invariant of the sessions in flight                                 *)
(***************************************************************************)

Queued == ToSet(finishedNodeQueue)
Waiters == ToSet(deferred) \cup ToSet(tmpDeferred)

FlightTypes ==
    /\ IsFiniteSet(startedSessions)
    /\ finishedSessions \cup Queued \cup Waiters \subseteq startedSessions
    /\ Queued \cap finishedSessions = {}
    /\ Once(finishedNodeQueue) /\ Once(deferred) /\ Once(tmpDeferred)
    /\ ToSet(deferred) \cap ToSet(tmpDeferred) = {}
    /\ Sessions(nodeSessions)
    /\ inference = [s \in DOMAIN inference |-> inference[s]]
    /\ at \in Nat \ {0}
    /\ firstErrorStatus \in {"OK", "failed"}

\* A session whose inference is running is in no list.
FlightInference ==
    \A s \in DOMAIN inference :
        /\ graph.kind[s[1]] = "DL" /\ s \in startedSessions
        /\ inference[s] \in {"running", "calling"}
        /\ inference[s] = "running" => s \notin finishedSessions \cup Queued \cup Waiters

\* What a deferred session is: it waits for its stream or has it; or its
\* inference failed and its event is in the queue; or that was taken.
Waits(s) ==
    \/ /\ nodeSessions[s].guard \in {"waiting", "ready"} /\ nodeSessions[s].isUsed
       /\ s \notin finishedSessions /\ s \notin Queued
    \/ firstErrorStatus # "OK" /\ nodeSessions[s].guard = "got" /\ s \in Queued
    \/ firstErrorStatus # "OK" /\ nodeSessions[s].guard = "none" /\ s \in finishedSessions

FlightDeferred ==
    /\ \A s \in Waiters : s \in DOMAIN nodeSessions /\ graph.kind[s[1]] = "DL" /\ Waits(s)
    /\ \A s \in DOMAIN nodeSessions : nodeSessions[s].guard = "waiting" => s \in Waiters
    /\ \A s \in DOMAIN nodeSessions : ~nodeSessions[s].isUsed => nodeSessions[s].guard = "none"
    /\ stage = "disarm" => firstErrorStatus # "OK" /\ \A s \in ToSet(deferred) : nodeSessions[s].guard # "got"

\* What is about to be started was not started.
FlightReady ==
    /\ \A s \in DOMAIN nodeSessions : s[1] \in todo /\ ~nodeSessions[s].isUsed => s \notin startedSessions
    /\ \A s \in ready : s \in DOMAIN nodeSessions /\ s \notin startedSessions /\ isReady(s) /\ s[1] \notin todo
    /\ stage # "next" => todo = {} /\ ready = {}

FlightEnd ==
    /\ stage = "returned" => finishedSessions = startedSessions
    /\ stage # "threw"
    /\ stage \in {"validate", "rejected"} =>
          /\ startedSessions = {} /\ DOMAIN inference = {} /\ DOMAIN nodeSessions = {}
          /\ firstErrorStatus = "OK" /\ late = {} /\ shards = graph.demultiplyCount

FlightInv == FlightTypes /\ FlightInference /\ FlightDeferred /\ FlightReady /\ FlightEnd

\* The pipeline returns when all that was started has finished.
LEMMA Leaves ==
    ASSUME NEW started, IsFiniteSet(started), NEW finished, finished \subseteq started,
           Cardinality(finished) = Cardinality(started)
    PROVE  finished = started
<1>1. finished \in SUBSET started
  OBVIOUS
<1> QED
  BY <1>1, FS_Subset

\* An event is taken out of the queue.
LEMMA TakeIs ==
    ASSUME FlightInv, NEW s, Take(s)
    PROVE  /\ s \in Queued /\ s \in startedSessions /\ s \notin finishedSessions
           /\ Once(finishedNodeQueue') /\ Queued' = Queued \ {s} /\ finishedSessions' = finishedSessions \cup {s}
           /\ todo = {} /\ ready = {}
<1>1. Once(finishedNodeQueue) /\ finishedNodeQueue # <<>> /\ s = Head(finishedNodeQueue) /\ finishedNodeQueue' = Tail(finishedNodeQueue)
  BY DEF FlightInv, FlightTypes, Take, Event
<1>2. s \in ToSet(finishedNodeQueue) /\ OnceOf(finishedNodeQueue', ToSet(finishedNodeQueue) \ {s})
  BY <1>1, OnceTail
<1> QED
  BY <1>2 DEF FlightInv, FlightTypes, FlightReady, Take, Queued, OnceOf

\* After an error an event only releases what its session holds.
LEMMA ReleaseKeeps ==
    ASSUME FlightInv, NEW s, ReleaseFinished(s)
    PROVE  FlightInv'
<1> USE DEF FlightInv
<1>1. /\ s \in Queued /\ s \in startedSessions /\ s \notin finishedSessions
      /\ Once(finishedNodeQueue') /\ Queued' = Queued \ {s} /\ finishedSessions' = finishedSessions \cup {s}
      /\ todo = {} /\ ready = {}
  BY TakeIs DEF ReleaseFinished
<1>2. /\ UNCHANGED <<graph, startedSessions, todo, ready, deferred, tmpDeferred, at,
                     firstErrorStatus, response, inference, others, shards>>
      /\ firstErrorStatus # "OK" /\ Waiters' = Waiters /\ LeaveOrPull(finishedSessions')
  BY DEF ReleaseFinished, Waiters
<1>3. IF graph.kind[s[1]] = "DL" THEN Turned(nodeSessions, nodeSessions', s, nodeSessions[s].isUsed, "none")
      ELSE nodeSessions' = nodeSessions
  <2>1. Sessions(nodeSessions)
    BY DEF FlightTypes
  <2>2. Turned(nodeSessions, [nodeSessions EXCEPT ![s] = Released(@)], s, nodeSessions[s].isUsed, "none")
    BY <2>1, Turns
  <2> QED
    BY <2>2 DEF ReleaseFinished
<1>4. /\ DOMAIN nodeSessions' = DOMAIN nodeSessions /\ Sessions(nodeSessions')
      /\ \A x \in DOMAIN nodeSessions \ {s} : nodeSessions'[x] = nodeSessions[x]
      /\ s \in DOMAIN nodeSessions => /\ nodeSessions'[s].isUsed = nodeSessions[s].isUsed
                                      /\ graph.kind[s[1]] = "DL" => nodeSessions'[s].guard = "none"
                                      /\ graph.kind[s[1]] # "DL" => nodeSessions'[s].guard = nodeSessions[s].guard
  <2>1. CASE graph.kind[s[1]] = "DL"
    <3> DEFINE u == nodeSessions[s].isUsed
    <3>1. Turned(nodeSessions, nodeSessions', s, u, "none") /\ Sessions(nodeSessions)
      BY <1>3, <2>1 DEF FlightTypes
    <3>2. Sessions(nodeSessions') /\ DOMAIN nodeSessions' = DOMAIN nodeSessions
      <4> HIDE DEF u
      <4> QED
        BY <3>1, TurnedSessions
    <3> QED
      BY <2>1, <3>1, <3>2 DEF Turned
  <2>2. CASE graph.kind[s[1]] # "DL"
    BY <1>3, <2>2 DEF FlightTypes
  <2> QED
    BY <2>1, <2>2
<1>5. FlightTypes'
  BY <1>1, <1>2, <1>4 DEF FlightTypes
<1>6. FlightInference'
  BY <1>1, <1>2 DEF FlightInference
<1>7. FlightDeferred'
  <2>1. ASSUME NEW x \in Waiters PROVE x \in DOMAIN nodeSessions' /\ graph.kind[x[1]] = "DL" /\ Waits(x)'
    <3>1. x \in DOMAIN nodeSessions /\ graph.kind[x[1]] = "DL" /\ Waits(x)
      BY DEF FlightDeferred
    <3>2. CASE x = s
      BY <1>1, <1>2, <1>4, <3>1, <3>2 DEF Waits
    <3>3. CASE x # s
      BY <1>1, <1>2, <1>4, <3>1, <3>3 DEF Waits
    <3> QED
      BY <3>2, <3>3
  <2>2. ASSUME NEW x \in DOMAIN nodeSessions' PROVE /\ nodeSessions'[x].guard = "waiting" => x \in Waiters
                                                    /\ ~nodeSessions'[x].isUsed => nodeSessions'[x].guard = "none"
    <3>1. CASE x = s
      BY <1>4, <3>1 DEF FlightDeferred
    <3>2. CASE x # s
      BY <1>4, <3>2 DEF FlightDeferred
    <3> QED
      BY <3>1, <3>2
  <2>3. stage' # "disarm"
    BY <1>2 DEF LeaveOrPull
  <2> QED
    BY <1>2, <2>1, <2>2, <2>3 DEF FlightDeferred
<1>8. FlightReady'
  BY <1>1, <1>2 DEF FlightReady
<1>9. FlightEnd'
  <2>1. stage' = "returned" => finishedSessions' = startedSessions'
    <3> SUFFICES ASSUME stage' = "returned" PROVE finishedSessions' = startedSessions'
      OBVIOUS
    <3>1. Cardinality(finishedSessions') = Cardinality(startedSessions)
      BY <1>2 DEF LeaveOrPull
    <3>2. IsFiniteSet(startedSessions) /\ finishedSessions' \subseteq startedSessions
      BY <1>1 DEF FlightTypes
    <3> QED
      BY <1>2, <3>1, <3>2, Leaves
  <2>2. stage' \in {"returned", "pull"}
    BY <1>2 DEF LeaveOrPull
  <2> QED
    BY <2>1, <2>2 DEF FlightEnd
<1> QED
  BY <1>5, <1>6, <1>7, <1>8, <1>9

\* The sessions, the lists and the inferences stay; only the thread moves on.
LEMMA MovesKeep ==
    ASSUME FlightInv,
           UNCHANGED <<graph, nodeSessions, finishedNodeQueue, startedSessions, finishedSessions, firstErrorStatus,
                       inference, shards, late>>,
           Waiters' = Waiters, Once(deferred'), Once(tmpDeferred'), ToSet(deferred') \cap ToSet(tmpDeferred') = {},
           at' \in Nat \ {0}, FlightReady', stage' \notin {"threw", "validate", "rejected"},
           stage' = "returned" => finishedSessions = startedSessions,
           stage' = "disarm" => firstErrorStatus # "OK" /\ \A s \in ToSet(deferred') : nodeSessions[s].guard # "got"
    PROVE  FlightInv'
<1> USE DEF FlightInv
<1>1. Queued' = Queued
  BY DEF Queued
<1>2. FlightTypes'
  BY <1>1 DEF FlightTypes
<1>3. FlightInference'
  BY <1>1 DEF FlightInference
<1>4. FlightDeferred'
  BY <1>1 DEF FlightDeferred, Waits
<1>5. FlightEnd'
  BY DEF FlightEnd
<1> QED
  BY <1>2, <1>3, <1>4, <1>5

\* A next node is looked at.
LEMMA TryNodeKeeps ==
    ASSUME FlightInv, NEW n, TryNode(n)
    PROVE  FlightInv'
<1> USE DEF TryNode
<1>1. FlightReady'
  <2>1. \A s \in ready' : s \in DOMAIN nodeSessions /\ s[1] = n /\ isReady(s)
    BY DEF getReadySessions
  <2>2. \A s \in ready' : s \notin startedSessions /\ s[1] \notin todo'
    BY <2>1 DEF FlightInv, FlightReady, isReady
  <2> QED
    BY <2>1, <2>2 DEF FlightInv, FlightReady, isReady
<1>2. Waiters' = Waiters
  BY DEF Waiters
<1> QED
  BY <1>1, <1>2, MovesKeep DEF FlightInv, FlightTypes

\* All next nodes were looked at.
LEMMA NextNodesTriedKeeps ==
    ASSUME FlightInv, NextNodesTried
    PROVE  FlightInv'
<1> USE DEF NextNodesTried
<1>1. FlightReady'
  BY DEF FlightInv, FlightReady, isReady
<1>2. Waiters' = Waiters
  BY DEF Waiters
<1> QED
  BY <1>1, <1>2, MovesKeep DEF FlightInv, FlightTypes

\* The sessions deferred since the event join the others.
LEMMA MergeKeeps ==
    ASSUME FlightInv, Merge
    PROVE  FlightInv'
<1> USE DEF Merge
<1>1. OnceOf(deferred', ToSet(deferred) \cup ToSet(tmpDeferred)) /\ OnceOf(tmpDeferred', {})
  BY OnceConcat, OnceFew DEF FlightInv, FlightTypes
<1>2. Once(deferred') /\ Once(tmpDeferred') /\ ToSet(deferred') \cap ToSet(tmpDeferred') = {} /\ Waiters' = Waiters
  BY <1>1 DEF OnceOf, Waiters
<1>3. FlightReady'
  BY DEF FlightInv, FlightReady, isReady, LeaveOrPull
<1>4. stage' \in {"returned", "pull"}
  BY DEF LeaveOrPull
<1>5. stage' = "returned" => finishedSessions = startedSessions
  BY Leaves DEF LeaveOrPull, FlightInv, FlightTypes
<1> QED
  BY <1>2, <1>3, <1>4, <1>5, MovesKeep DEF FlightInv, FlightTypes

\* All deferred sessions were tried again.
LEMMA EndRetryKeeps ==
    ASSUME FlightInv, EndRetry
    PROVE  FlightInv'
<1> USE DEF EndRetry, tvars
<1>1. FlightReady'
  BY DEF FlightInv, FlightReady, isReady
<1>2. Waiters' = Waiters
  BY DEF Waiters
<1> QED
  BY <1>1, <1>2, MovesKeep DEF FlightInv, FlightTypes

\* No event in time: none of the deferred sessions has an event in the queue, so
\* that none has taken its stream.
LEMMA TimeoutKeeps ==
    ASSUME FlightInv, Timeout
    PROVE  FlightInv'
<1> USE DEF Timeout
<1>1. FlightReady'
  BY DEF FlightInv, FlightReady, isReady
<1>2. Waiters' = Waiters /\ deferred' = deferred
  BY DEF Waiters
<1>3. Queued = {}
  BY OnceHas DEF FlightInv, FlightTypes, Queued
<1>4. ASSUME stage' = "disarm"
      PROVE  firstErrorStatus # "OK" /\ \A s \in ToSet(deferred') : nodeSessions[s].guard # "got"
  BY <1>2, <1>3, <1>4 DEF FlightInv, FlightDeferred, Waits, Waiters
<1> QED
  BY <1>1, <1>2, <1>4, MovesKeep DEF FlightInv, FlightTypes

\* All deferred sessions were disarmed, or had to wait.
LEMMA EndDisarmKeeps ==
    ASSUME FlightInv, EndDisarm
    PROVE  FlightInv'
<1> USE DEF EndDisarm, tvars
<1>1. stage' \in {"returned", "pull"}
  BY DEF LeaveOrPull
<1>2. FlightReady'
  BY <1>1 DEF FlightInv, FlightReady, isReady
<1>3. Waiters' = Waiters
  BY DEF Waiters
<1>4. stage' = "returned" => finishedSessions = startedSessions
  BY Leaves DEF LeaveOrPull, FlightInv, FlightTypes
<1> QED
  BY <1>1, <1>2, <1>3, <1>4, MovesKeep DEF FlightInv, FlightTypes

\* Steps that have nothing to do with sessions.
LEMMA OthersMove ==
    ASSUME FlightInv, UNCHANGED <<graph, stage, nodeSessions, tvars, firstErrorStatus, inference, shards, late>>
    PROVE  FlightInv'
<1> USE DEF tvars, FlightInv
<1>1. Queued' = Queued /\ Waiters' = Waiters
  BY DEF Queued, Waiters
<1>2. FlightTypes' /\ FlightInference' /\ FlightEnd'
  BY <1>1 DEF FlightTypes, FlightInference, FlightEnd
<1>3. FlightDeferred' /\ FlightReady'
  BY <1>1 DEF FlightDeferred, Waits, FlightReady, isReady
<1> QED
  BY <1>2, <1>3

\* The callback of an inference puts the event of its session into the queue.
LEMMA CallbackKeeps ==
    ASSUME FlightInv, NEW s \in DOMAIN inference, Callback(s)
    PROVE  FlightInv'
<1> USE DEF FlightInv
<1>1. /\ UNCHANGED <<graph, stage, nodeSessions, startedSessions, finishedSessions, todo, ready, deferred, tmpDeferred,
                     at, firstErrorStatus, response, others, shards, late>>
      /\ inference' = [inference EXCEPT ![s] = "calling"] /\ finishedNodeQueue' = Append(finishedNodeQueue, s)
      /\ Waiters' = Waiters
  BY DEF Callback, Push, Waiters
<1>2. s \in startedSessions /\ s \notin finishedSessions \cup Queued \cup Waiters
  BY DEF Callback, FlightInference
<1>3. OnceOf(finishedNodeQueue', Queued \cup {s})
  BY <1>1, <1>2, OnceAppend DEF FlightTypes, Queued
<1>4. Once(finishedNodeQueue') /\ Queued' = Queued \cup {s}
  BY <1>3 DEF OnceOf, Queued
<1>5. DOMAIN inference' = DOMAIN inference /\ inference'[s] = "calling" /\ \A x \in DOMAIN inference \ {s} : inference'[x] = inference[x]
  BY <1>1
<1>6. inference' = [x \in DOMAIN inference' |-> inference'[x]]
  BY <1>1 DEF FlightTypes
<1>7. FlightTypes'
  BY <1>1, <1>2, <1>4, <1>6 DEF FlightTypes
<1>8. FlightInference'
  BY <1>1, <1>4, <1>5 DEF FlightInference
<1>9. FlightDeferred'
  <2>1. \A x \in Waiters : Waits(x) => Waits(x)'
    BY <1>1, <1>2, <1>4 DEF Waits
  <2> QED
    BY <1>1, <2>1 DEF FlightDeferred
<1>10. FlightReady' /\ FlightEnd'
  BY <1>1, <1>5 DEF FlightReady, isReady, FlightEnd
<1> QED
  BY <1>7, <1>8, <1>9, <1>10

\* The callback is reset.
LEMMA EndCallbackKeeps ==
    ASSUME FlightInv, NEW s \in DOMAIN inference, EndCallback(s)
    PROVE  FlightInv'
<1> USE DEF FlightInv
<1>1. /\ UNCHANGED <<graph, stage, nodeSessions, tvars, firstErrorStatus, response, others, shards, late>>
      /\ inference' = [x \in DOMAIN inference \ {s} |-> inference[x]]
  BY DEF EndCallback, Restrict
<1>2. Queued' = Queued /\ Waiters' = Waiters
  BY <1>1 DEF Queued, Waiters, tvars
<1>3. FlightTypes' /\ FlightInference'
  BY <1>1, <1>2 DEF FlightTypes, FlightInference, tvars
<1>4. FlightDeferred' /\ FlightReady'
  BY <1>1, <1>2 DEF FlightDeferred, Waits, FlightReady, isReady, tvars
<1>5. FlightEnd'
  BY <1>1 DEF FlightEnd, tvars
<1> QED
  BY <1>3, <1>4, <1>5

\* A stream is granted to a session that waits.
LEMMA GrantKeeps ==
    ASSUME FlightInv, NEW s \in DOMAIN nodeSessions, Grant(s)
    PROVE  FlightInv'
<1> USE DEF FlightInv
<1>1. /\ UNCHANGED <<graph, stage, tvars, firstErrorStatus, response, inference, others, shards, late>>
      /\ nodeSessions[s].guard = "waiting" /\ stage \notin {"validate", "rejected", "returned", "threw"}
      /\ nodeSessions' = [nodeSessions EXCEPT ![s].guard = "ready"]
  BY DEF Grant
<1>2. Queued' = Queued /\ Waiters' = Waiters /\ deferred' = deferred
  BY <1>1 DEF Queued, Waiters, tvars
<1>3. Turned(nodeSessions, nodeSessions', s, nodeSessions[s].isUsed, "ready")
  <2>1. "ready" \in Guards /\ Sessions(nodeSessions)
    BY DEF Guards, FlightTypes
  <2> QED
    BY <1>1, <2>1, Turns
<1>4. Sessions(nodeSessions') /\ DOMAIN nodeSessions' = DOMAIN nodeSessions
  <2> DEFINE u == nodeSessions[s].isUsed
             gd == "ready"
  <2>1. Turned(nodeSessions, nodeSessions', s, u, gd) /\ Sessions(nodeSessions)
    BY <1>3 DEF FlightTypes
  <2> HIDE DEF u, gd
  <2> QED
    BY <2>1, TurnedSessions
<1>5. /\ \A x \in DOMAIN nodeSessions \ {s} : nodeSessions'[x] = nodeSessions[x]
      /\ nodeSessions'[s].isUsed = nodeSessions[s].isUsed /\ nodeSessions'[s].guard = "ready"
      /\ nodeSessions'[s].remaining = nodeSessions[s].remaining
  BY <1>3 DEF Turned
<1>6. s \in Waiters /\ Waits(s) /\ nodeSessions[s].isUsed
  BY <1>1 DEF FlightDeferred
<1>7. FlightTypes' /\ FlightInference' /\ FlightEnd'
  BY <1>1, <1>2, <1>4 DEF FlightTypes, FlightInference, FlightEnd, tvars
<1>8. FlightDeferred'
  <2>1. ASSUME NEW x \in Waiters PROVE x \in DOMAIN nodeSessions' /\ graph.kind[x[1]] = "DL" /\ Waits(x)'
    <3>1. x \in DOMAIN nodeSessions /\ graph.kind[x[1]] = "DL" /\ Waits(x)
      BY DEF FlightDeferred
    <3>2. CASE x = s
      BY <1>1, <1>2, <1>4, <1>5, <3>1, <3>2 DEF Waits, tvars
    <3>3. CASE x # s
      BY <1>1, <1>2, <1>4, <1>5, <3>1, <3>3 DEF Waits, tvars
    <3> QED
      BY <3>2, <3>3
  <2>2. ASSUME NEW x \in DOMAIN nodeSessions' PROVE /\ nodeSessions'[x].guard = "waiting" => x \in Waiters
                                                    /\ ~nodeSessions'[x].isUsed => nodeSessions'[x].guard = "none"
    <3>1. CASE x = s
      BY <1>5, <1>6, <3>1
    <3>2. CASE x # s
      BY <1>4, <1>5, <3>2 DEF FlightDeferred
    <3> QED
      BY <3>1, <3>2
  <2>3. ASSUME stage' = "disarm" PROVE firstErrorStatus' # "OK" /\ \A x \in ToSet(deferred') : nodeSessions'[x].guard # "got"
    <3>1. firstErrorStatus # "OK" /\ \A x \in ToSet(deferred) : nodeSessions[x].guard # "got" /\ x \in DOMAIN nodeSessions
      BY <1>1, <2>3 DEF FlightDeferred, Waiters
    <3> QED
      BY <1>1, <1>2, <1>5, <3>1
  <2> QED
    BY <1>1, <1>2, <2>1, <2>2, <2>3 DEF FlightDeferred
<1>9. FlightReady'
  <2>1. ASSUME NEW x \in DOMAIN nodeSessions PROVE nodeSessions'[x].isUsed = nodeSessions[x].isUsed /\ nodeSessions'[x].remaining = nodeSessions[x].remaining
    BY <1>5
  <2> QED
    BY <1>1, <1>4, <2>1 DEF FlightReady, isReady, tvars
<1> QED
  BY <1>7, <1>8, <1>9

\* A deferred session is disarmed, or its stream is still waited for; it has not
\* taken the stream out, for then its event was in the queue.
LEMMA tryDisarmKeeps ==
    ASSUME FlightInv, tryDisarm
    PROVE  FlightInv'
<1> USE DEF FlightInv
<1> DEFINE s == deferred[at]
           gd == nodeSessions[s].guard
<1>1. /\ stage = "disarm" /\ at \in 1 .. Len(deferred) /\ firstErrorStatus # "OK"
      /\ UNCHANGED <<graph, finishedNodeQueue, startedSessions, todo, ready, tmpDeferred, firstErrorStatus,
                     response, inference, others, shards, late>>
  <2>1. Len(deferred) \in Nat
    BY OnceHas DEF FlightTypes
  <2> QED
    BY <2>1 DEF tryDisarm, FlightTypes, FlightDeferred
<1>2. s \in ToSet(deferred) /\ OnceOf(RemoveAt(deferred, at), ToSet(deferred) \ {s})
  BY <1>1, OnceRemove DEF FlightTypes
<1>3. s \in Waiters /\ s \in DOMAIN nodeSessions /\ graph.kind[s[1]] = "DL" /\ Waits(s) /\ gd # "got" /\ s \in startedSessions
  BY <1>1, <1>2 DEF FlightDeferred, Waiters, FlightTypes
<1>4. /\ gd \in {"waiting", "ready", "none"} /\ s \notin Queued
      /\ s \notin ToSet(tmpDeferred)
  BY <1>2, <1>3 DEF Waits, FlightTypes
<1>5. DisarmOne(gd) = IF gd = "waiting" THEN "timeout" ELSE "disarmed"
  BY <1>4 DEF DisarmOne
<1>6. stage' = "disarm"
  BY <1>1, <1>5 DEF tryDisarm
<1>7. CASE gd = "waiting"
  <2>1. at' = at + 1 /\ UNCHANGED <<nodeSessions, finishedSessions, deferred>>
    BY <1>5, <1>7 DEF tryDisarm
  <2>2. Waiters' = Waiters /\ FlightReady'
    BY <1>1, <1>6, <2>1 DEF Waiters, FlightReady, isReady
  <2>3. \A x \in ToSet(deferred') : nodeSessions[x].guard # "got"
    BY <1>1, <2>1 DEF FlightDeferred
  <2> QED
    BY <1>1, <1>6, <2>1, <2>2, <2>3, MovesKeep DEF FlightTypes
<1>8. CASE gd # "waiting"
  <2>1. /\ nodeSessions' = [nodeSessions EXCEPT ![s].guard = IF @ = "ready" THEN "disarmed" ELSE @]
        /\ finishedSessions' = finishedSessions \cup {s} /\ deferred' = RemoveAt(deferred, at) /\ at' = at
    BY <1>5, <1>8 DEF tryDisarm
  <2> DEFINE hd == IF gd = "ready" THEN "disarmed" ELSE gd
  <2>2. nodeSessions' = [nodeSessions EXCEPT ![s].guard = hd]
    BY <1>3, <2>1
  <2>3. hd \in {"disarmed", "none"} /\ hd \in Guards
    BY <1>4, <1>8 DEF Guards
  <2> HIDE DEF gd, hd, s
  <2>4. Turned(nodeSessions, nodeSessions', s, nodeSessions[s].isUsed, hd)
    BY <2>2, <2>3, Turns DEF FlightTypes
  <2>5. Sessions(nodeSessions') /\ DOMAIN nodeSessions' = DOMAIN nodeSessions
    <3> DEFINE u == nodeSessions[s].isUsed
    <3>1. Turned(nodeSessions, nodeSessions', s, u, hd) /\ Sessions(nodeSessions)
      BY <2>4 DEF FlightTypes
    <3> HIDE DEF u
    <3> QED
      BY <3>1, TurnedSessions
  <2>6. /\ \A x \in DOMAIN nodeSessions \ {s} : nodeSessions'[x] = nodeSessions[x]
        /\ nodeSessions'[s].isUsed = nodeSessions[s].isUsed /\ nodeSessions'[s].guard = hd
        /\ nodeSessions'[s].remaining = nodeSessions[s].remaining
    BY <1>3, <2>4 DEF Turned
  <2>7. /\ Once(deferred') /\ ToSet(deferred') = ToSet(deferred) \ {s} /\ ToSet(tmpDeferred') = ToSet(tmpDeferred)
        /\ Queued' = Queued /\ Waiters' = Waiters \ {s}
    BY <1>1, <1>2, <1>4, <2>1 DEF OnceOf, Waiters, Queued
  <2>8. FlightTypes'
    BY <1>1, <1>3, <1>4, <2>1, <2>5, <2>7 DEF FlightTypes
  <2>9. FlightInference'
    <3>1. s \in Waiters
      BY <1>3
    <3> QED
      BY <1>1, <2>1, <2>7, <3>1 DEF FlightInference
  <2>10. FlightDeferred'
    <3>1. ASSUME NEW x \in Waiters' PROVE x \in DOMAIN nodeSessions' /\ graph.kind[x[1]] = "DL" /\ Waits(x)'
      <4>1. x \in Waiters /\ x # s /\ x \in DOMAIN nodeSessions /\ graph.kind[x[1]] = "DL" /\ Waits(x)
        BY <2>7 DEF FlightDeferred
      <4>2. nodeSessions'[x] = nodeSessions[x]
        BY <2>6, <4>1
      <4> QED
        BY <1>1, <2>1, <2>5, <2>7, <4>1, <4>2 DEF Waits
    <3>2. ASSUME NEW x \in DOMAIN nodeSessions' PROVE /\ nodeSessions'[x].guard = "waiting" => x \in Waiters'
                                                      /\ ~nodeSessions'[x].isUsed => nodeSessions'[x].guard = "none"
      <4>1. CASE x = s
        <5>1. ~nodeSessions[s].isUsed => gd = "none"
          BY <1>3 DEF FlightDeferred, gd
        <5> QED
          BY <2>3, <2>6, <4>1, <5>1 DEF hd
      <4>2. CASE x # s
        BY <2>5, <2>6, <2>7, <4>2 DEF FlightDeferred
      <4> QED
        BY <4>1, <4>2
    <3>3. \A x \in ToSet(deferred') : nodeSessions'[x].guard # "got"
      <4> SUFFICES ASSUME NEW x \in ToSet(deferred') PROVE nodeSessions'[x].guard # "got"
        OBVIOUS
      <4>1. x \in ToSet(deferred) /\ x # s /\ x \in DOMAIN nodeSessions /\ nodeSessions[x].guard # "got"
        BY <1>1, <2>7 DEF FlightDeferred, Waiters
      <4> QED
        BY <2>6, <4>1
    <3> QED
      BY <1>1, <3>1, <3>2, <3>3 DEF FlightDeferred
  <2>11. FlightReady'
    BY <1>1, <1>6 DEF FlightReady
  <2>12. FlightEnd'
    BY <1>6 DEF FlightEnd
  <2> QED
    BY <2>8, <2>9, <2>10, <2>11, <2>12
<1> QED
  BY <1>7, <1>8

\* The stream of a deferred session is there: its inference is started, or fails.
LEMMA TryDeferredKeeps ==
    ASSUME FlightInv, TryDeferred
    PROVE  FlightInv'
<1> USE DEF FlightInv
<1> DEFINE s == deferred[at]
<1>1. /\ stage \in {"deferred", "retry"} /\ at \in 1 .. Len(deferred)
      /\ UNCHANGED <<graph, stage, startedSessions, finishedSessions, todo, ready, tmpDeferred, response, others, shards, late>>
  <2>1. Len(deferred) \in Nat
    BY OnceHas DEF FlightTypes
  <2> QED
    BY <2>1 DEF TryDeferred, FlightTypes
<1>2. s \in ToSet(deferred) /\ OnceOf(RemoveAt(deferred, at), ToSet(deferred) \ {s})
  BY <1>1, OnceRemove DEF FlightTypes
<1>3. s \in Waiters /\ s \in DOMAIN nodeSessions /\ graph.kind[s[1]] = "DL" /\ Waits(s) /\ s \in startedSessions
      /\ s \notin ToSet(tmpDeferred)
  BY <1>2 DEF FlightDeferred, Waiters, FlightTypes
<1>4. \/ nodeSessions[s].guard = "ready" /\ Start(s)
         /\ IF finishedNodeQueue' = finishedNodeQueue
            THEN deferred' = RemoveAt(deferred, at) /\ UNCHANGED at
            ELSE at' = at + 1 /\ UNCHANGED deferred
      \/ at' = at + 1 /\ UNCHANGED <<firstErrorStatus, inference, nodeSessions, finishedNodeQueue, deferred>>
  BY DEF TryDeferred, Quiet
<1>5. FlightReady'
  BY <1>1 DEF FlightReady
<1>6. CASE at' = at + 1 /\ UNCHANGED <<firstErrorStatus, inference, nodeSessions, finishedNodeQueue, deferred>>
  <2>1. Waiters' = Waiters
    BY <1>1, <1>6 DEF Waiters
  <2> QED
    BY <1>1, <1>5, <1>6, <2>1, MovesKeep DEF FlightTypes
<1>7. ASSUME nodeSessions[s].guard = "ready", Start(s),
             IF finishedNodeQueue' = finishedNodeQueue
             THEN deferred' = RemoveAt(deferred, at) /\ UNCHANGED at
             ELSE at' = at + 1 /\ UNCHANGED deferred
      PROVE  FlightInv'
  <2>1. s \notin finishedSessions /\ s \notin Queued /\ nodeSessions[s].isUsed
    BY <1>3, <1>7 DEF Waits
  <2>2. nodeSessions' = [nodeSessions EXCEPT ![s].isUsed = TRUE, ![s].unloadGuard = TRUE, ![s].guard = "got"]
    BY <1>7 DEF Start, InferenceFails, executeInference, Taken
  <2>3. \/ Push(s) /\ Fail("failed") /\ UNCHANGED inference
        \/ inference' = Put(inference, s, "running") /\ UNCHANGED <<finishedNodeQueue, firstErrorStatus>>
    BY <1>7 DEF Start, InferenceFails, executeInference
  <2> HIDE DEF s
  <2>4. Turned(nodeSessions, nodeSessions', s, TRUE, "got")
    <3>1. "got" \in Guards /\ Sessions(nodeSessions)
      BY DEF Guards, FlightTypes
    <3> QED
      BY <2>2, <3>1, Turns
  <2>5. Sessions(nodeSessions') /\ DOMAIN nodeSessions' = DOMAIN nodeSessions
    <3> DEFINE u == TRUE
               gd == "got"
    <3>1. Turned(nodeSessions, nodeSessions', s, u, gd) /\ Sessions(nodeSessions)
      BY <2>4 DEF FlightTypes
    <3> HIDE DEF u, gd
    <3> QED
      BY <3>1, TurnedSessions
  <2>6. /\ \A x \in DOMAIN nodeSessions \ {s} : nodeSessions'[x] = nodeSessions[x]
        /\ nodeSessions'[s].isUsed = TRUE /\ nodeSessions'[s].guard = "got"
    BY <1>3, <2>4 DEF Turned
  <2>7. FlightEnd' /\ stage' # "disarm"
    BY <1>1 DEF FlightEnd
  <2>8. ASSUME NEW x \in DOMAIN nodeSessions', s \notin Waiters' => x \in Waiters' \/ x \notin Waiters \/ x = s, s \in Waiters' => Waiters' = Waiters
        PROVE  /\ nodeSessions'[x].guard = "waiting" => x \in Waiters'
               /\ ~nodeSessions'[x].isUsed => nodeSessions'[x].guard = "none"
    <3>1. CASE x = s
      BY <2>6, <3>1
    <3>2. CASE x # s
      <4>1. nodeSessions'[x] = nodeSessions[x] /\ x \in DOMAIN nodeSessions
        BY <2>5, <2>6, <3>2
      <4> QED
        BY <2>8, <3>2, <4>1 DEF FlightDeferred
    <3> QED
      BY <3>1, <3>2
  <2>9. CASE Push(s) /\ Fail("failed") /\ UNCHANGED inference
    <3>1. OnceOf(finishedNodeQueue', Queued \cup {s}) /\ finishedNodeQueue' # finishedNodeQueue
      BY <2>1, <2>9, OnceAppend DEF FlightTypes, Queued, Push
    <3>2. Once(finishedNodeQueue') /\ Queued' = Queued \cup {s}
      BY <3>1 DEF OnceOf, Queued
    <3>3. deferred' = deferred /\ at' = at + 1 /\ Waiters' = Waiters
      BY <1>1, <1>7, <3>1 DEF Waiters
    <3>4. firstErrorStatus' = "failed"
      BY <2>9 DEF Fail, FlightTypes
    <3>5. FlightTypes'
      BY <1>1, <1>3, <2>1, <2>5, <2>9, <3>2, <3>3, <3>4 DEF FlightTypes
    <3>6. FlightInference'
      BY <1>1, <1>3, <2>9, <3>2, <3>3 DEF FlightInference
    <3>7. FlightDeferred'
      <4>1. ASSUME NEW x \in Waiters PROVE x \in DOMAIN nodeSessions' /\ graph.kind[x[1]] = "DL" /\ Waits(x)'
        <5>1. x \in DOMAIN nodeSessions /\ graph.kind[x[1]] = "DL" /\ Waits(x)
          BY DEF FlightDeferred
        <5>2. CASE x = s
          BY <2>5, <2>6, <3>2, <3>4, <5>1, <5>2 DEF Waits
        <5>3. CASE x # s
          <6>1. nodeSessions'[x] = nodeSessions[x]
            BY <2>6, <5>1, <5>3
          <6> QED
            BY <1>1, <2>5, <3>2, <3>4, <5>1, <5>3, <6>1 DEF Waits
        <5> QED
          BY <5>2, <5>3
      <4>2. \A x \in DOMAIN nodeSessions' : /\ nodeSessions'[x].guard = "waiting" => x \in Waiters'
                                            /\ ~nodeSessions'[x].isUsed => nodeSessions'[x].guard = "none"
        BY <1>3, <2>8, <3>3
      <4> QED
        BY <1>1, <2>7, <3>3, <4>1, <4>2 DEF FlightDeferred
    <3> QED
      BY <1>5, <2>7, <3>5, <3>6, <3>7
  <2>10. CASE inference' = Put(inference, s, "running") /\ UNCHANGED <<finishedNodeQueue, firstErrorStatus>>
    <3>1. deferred' = RemoveAt(deferred, at) /\ at' = at /\ finishedNodeQueue' = finishedNodeQueue
      BY <1>7, <2>10
    <3>2. /\ Once(deferred') /\ ToSet(deferred') = ToSet(deferred) \ {s} /\ ToSet(tmpDeferred') = ToSet(tmpDeferred)
          /\ Queued' = Queued /\ Waiters' = Waiters \ {s}
      BY <1>1, <1>2, <1>3, <3>1 DEF OnceOf, Waiters, Queued, s
    <3>3. /\ DOMAIN inference' = DOMAIN inference \cup {s} /\ inference' = [x \in DOMAIN inference' |-> inference'[x]]
          /\ \A x \in DOMAIN inference : x # s => inference'[x] = inference[x]
          /\ inference'[s] = "running"
      BY <2>10 DEF Put
    <3>4. FlightTypes'
      BY <1>1, <2>5, <2>10, <3>1, <3>2, <3>3 DEF FlightTypes
    <3>5. FlightInference'
      <4> SUFFICES ASSUME NEW x \in DOMAIN inference'
                   PROVE  /\ graph'.kind[x[1]] = "DL" /\ x \in startedSessions' /\ inference'[x] \in {"running", "calling"}
                          /\ inference'[x] = "running" => x \notin finishedSessions' \cup Queued' \cup Waiters'
        BY DEF FlightInference
      <4>1. CASE x = s
        BY <1>1, <1>3, <2>1, <3>2, <3>3, <4>1
      <4>2. CASE x # s
        BY <1>1, <3>2, <3>3, <4>2 DEF FlightInference
      <4> QED
        BY <4>1, <4>2
    <3>6. FlightDeferred'
      <4>1. ASSUME NEW x \in Waiters' PROVE x \in DOMAIN nodeSessions' /\ graph.kind[x[1]] = "DL" /\ Waits(x)'
        <5>1. x \in Waiters /\ x # s /\ x \in DOMAIN nodeSessions /\ graph.kind[x[1]] = "DL" /\ Waits(x)
          BY <3>2 DEF FlightDeferred
        <5>2. nodeSessions'[x] = nodeSessions[x]
          BY <2>6, <5>1
        <5> QED
          BY <1>1, <2>5, <2>10, <3>2, <5>1, <5>2 DEF Waits
      <4>2. \A x \in DOMAIN nodeSessions' : /\ nodeSessions'[x].guard = "waiting" => x \in Waiters'
                                            /\ ~nodeSessions'[x].isUsed => nodeSessions'[x].guard = "none"
        BY <2>8, <3>2
      <4> QED
        BY <1>1, <2>7, <4>1, <4>2 DEF FlightDeferred
    <3> QED
      BY <1>5, <2>7, <3>4, <3>5, <3>6
  <2> QED
    BY <2>3, <2>9, <2>10
<1> QED
  BY <1>4, <1>6, <1>7

\* A pipeline is rejected: nothing was started.
LEMMA RejectKeeps ==
    ASSUME FlightInv, Reject
    PROVE  FlightInv'
<1> USE DEF Reject, tvars, FlightInv
<1>1. Queued' = Queued /\ Waiters' = Waiters
  BY DEF Queued, Waiters
<1>2. FlightTypes' /\ FlightInference' /\ FlightEnd'
  BY <1>1 DEF FlightTypes, FlightInference, FlightEnd
<1>3. FlightDeferred' /\ FlightReady'
  BY <1>1 DEF FlightDeferred, Waits, FlightReady, isReady
<1> QED
  BY <1>2, <1>3

\* What there is when a pipeline starts.
FirstIs ==
    /\ DOMAIN nodeSessions' = {FirstSession(graph)} /\ startedSessions' = {FirstSession(graph)}
    /\ finishedSessions' = {} /\ firstErrorStatus' = "OK" /\ late' = {} /\ shards' = graph.demultiplyCount
    /\ Sessions(nodeSessions') /\ nodeSessions'[FirstSession(graph)].guard = "none"

\* The pipeline is accepted, and its entry node is finished.
LEMMA ValidateKeeps ==
    ASSUME FlightInv, Validate
    PROVE  FlightInv' /\ FirstIs
<1> USE DEF FlightInv
<1> DEFINE f == FirstSession(graph)
           new == NewSession(Entry, <<>>)
<1>1. /\ stage = "validate" /\ stage' = "pull" /\ nodeSessions' = Put(<<>>, f, new)
      /\ startedSessions' = {f} /\ finishedNodeQueue' = <<f>>
      /\ UNCHANGED <<graph, finishedSessions, todo, ready, deferred, tmpDeferred, at, firstErrorStatus,
                     response, inference, others, shards, late>>
  BY DEF Validate, FirstSession, Entry
<1>2. /\ startedSessions = {} /\ DOMAIN inference = {} /\ DOMAIN nodeSessions = {} /\ finishedSessions = {} /\ Waiters = {}
      /\ firstErrorStatus = "OK" /\ late = {} /\ shards = graph.demultiplyCount /\ todo = {} /\ ready = {}
  BY <1>1 DEF FlightEnd, FlightTypes, FlightReady
<1> HIDE DEF f
<1>3. IsSession(new) /\ new.guard = "none"
  <2> DEFINE n == Entry
             meta == <<>>
  <2>1. new = NewSession(n, meta)
    OBVIOUS
  <2> HIDE DEF new, n, meta
  <2>2. NewIs(new, n, meta)
    BY <2>1, NewSessionIs
  <2> QED
    BY <2>2 DEF NewIs
<1> HIDE DEF new
<1>4. DOMAIN nodeSessions' = {f} /\ nodeSessions'[f] = new /\ nodeSessions' = [x \in DOMAIN nodeSessions' |-> nodeSessions'[x]]
  BY <1>1 DEF Put
<1>5. Sessions(nodeSessions')
  BY <1>3, <1>4 DEF Sessions
<1>6. OnceOf(finishedNodeQueue', {f})
  BY <1>1, OnceFew
<1>7. Once(finishedNodeQueue') /\ Queued' = {f} /\ Waiters' = {}
  BY <1>1, <1>2, <1>6 DEF OnceOf, Queued, Waiters
<1>8. IsFiniteSet({f})
  BY FS_Singleton
<1>9. FlightTypes'
  BY <1>1, <1>2, <1>5, <1>7, <1>8 DEF FlightTypes, Waiters
<1>10. FlightInference'
  BY <1>1, <1>2 DEF FlightInference
<1>11. FlightDeferred'
  BY <1>1, <1>3, <1>4, <1>7 DEF FlightDeferred
<1>12. FlightReady' /\ FlightEnd'
  BY <1>1, <1>2 DEF FlightReady, FlightEnd
<1>13. FirstIs
  BY <1>1, <1>2, <1>3, <1>4, <1>5 DEF FirstIs, f
<1> QED
  BY <1>9, <1>10, <1>11, <1>12, <1>13

\* What starting a session comes to.
Pushed(s, u, gd) ==
    /\ gd = "none" \/ (gd = "got" /\ u)
    /\ Push(s) /\ inference' = inference /\ tmpDeferred' = tmpDeferred
    /\ firstErrorStatus' \in {"OK", "failed"} /\ (firstErrorStatus' = "OK" => firstErrorStatus = "OK")
    /\ firstErrorStatus' = "OK" => u \/ graph.kind[s[1]] = "EXIT"
Running(s, u, gd) ==
    /\ u /\ gd = "got" /\ graph.kind[s[1]] = "DL"
    /\ inference' = Put(inference, s, "running")
    /\ UNCHANGED <<finishedNodeQueue, firstErrorStatus, tmpDeferred>>
Deferring(s, u, gd) ==
    /\ u /\ gd = "waiting" /\ graph.kind[s[1]] = "DL"
    /\ tmpDeferred' = Append(tmpDeferred, s)
    /\ UNCHANGED <<finishedNodeQueue, firstErrorStatus, inference>>
Outcome(s, u, gd) ==
    /\ Turned(nodeSessions, nodeSessions', s, u, gd)
    /\ Pushed(s, u, gd) \/ Running(s, u, gd) \/ Deferring(s, u, gd)

\* A session that is about to be started is in no list and holds nothing.
LEMMA ReadyIs ==
    ASSUME FlightInv, NEW s \in ready
    PROVE  /\ s \in DOMAIN nodeSessions /\ s \notin startedSessions /\ s \notin finishedSessions /\ s \notin Queued
           /\ s \notin Waiters /\ s \notin DOMAIN inference /\ s[1] \notin todo
           /\ nodeSessions[s].isUsed = FALSE /\ nodeSessions[s].guard = "none" /\ nodeSessions[s].remaining = 0
<1>1. s \in DOMAIN nodeSessions /\ s \notin startedSessions /\ isReady(s) /\ s[1] \notin todo
  BY DEF FlightInv, FlightReady
<1>2. IsSession(nodeSessions[s])
  BY <1>1 DEF FlightInv, FlightTypes, Sessions
<1>3. nodeSessions[s].isUsed = FALSE /\ nodeSessions[s].remaining = 0
  BY <1>1, <1>2 DEF isReady, IsSession
<1> QED
  BY <1>1, <1>3 DEF FlightInv, FlightTypes, FlightInference, FlightDeferred

\* Each way in which Node::execute ends is one of these.
LEMMA TryReadyIs ==
    ASSUME FlightInv, NEW s \in ready, TryReady(s)
    PROVE  \E u \in BOOLEAN, gd \in Guards : Outcome(s, u, gd)
<1>1. Sessions(nodeSessions) /\ firstErrorStatus \in {"OK", "failed"}
  BY DEF FlightInv, FlightTypes
<1>2. s \in DOMAIN nodeSessions /\ nodeSessions[s].isUsed = FALSE /\ nodeSessions[s].guard = "none"
  BY ReadyIs
<1>3. \/ ExecuteNow(s) /\ UNCHANGED tmpDeferred
      \/ ExecuteLater(s) /\ tmpDeferred' = Append(tmpDeferred, s)
  BY DEF TryReady
<1>4. Turned(nodeSessions, nodeSessions, s, FALSE, "none")
  BY <1>1, <1>2 DEF Turned, Sessions
<1>5. {"none", "got", "waiting"} \subseteq Guards
  BY DEF Guards
<1>6. CASE ExecuteAtOnce(s) /\ UNCHANGED tmpDeferred
  <2>1. Outcome(s, FALSE, "none")
    BY <1>1, <1>4, <1>6 DEF ExecuteAtOnce, Outcome, Pushed, Quiet
  <2> QED
    BY <1>5, <2>1
<1>7. CASE ExecuteCustom(s) /\ UNCHANGED tmpDeferred
  <2>1. Turned(nodeSessions, nodeSessions', s, TRUE, "none")
    <3>1. Turned(nodeSessions, [nodeSessions EXCEPT ![s].isUsed = TRUE], s, TRUE, nodeSessions[s].guard)
      BY <1>1, Turns
    <3> QED
      BY <1>2, <1>7, <3>1 DEF ExecuteCustom
  <2>2. Outcome(s, TRUE, "none")
    BY <1>1, <1>7, <2>1 DEF ExecuteCustom, Outcome, Pushed
  <2> QED
    BY <1>5, <2>2
<1>8. CASE ModelMissing(s) /\ UNCHANGED tmpDeferred
  <2>1. Outcome(s, FALSE, "none")
    BY <1>1, <1>4, <1>8 DEF ModelMissing, Outcome, Pushed, Fail
  <2> QED
    BY <1>5, <2>1
<1>9. CASE InputsUnfit(s) /\ UNCHANGED tmpDeferred
  <2>1. Turned(nodeSessions, nodeSessions', s, TRUE, "none")
    <3>1. Turned(nodeSessions, [nodeSessions EXCEPT ![s].isUsed = TRUE, ![s].unloadGuard = TRUE], s, TRUE, nodeSessions[s].guard)
      BY <1>1, Turns
    <3> QED
      BY <1>2, <1>9, <3>1 DEF InputsUnfit
  <2>2. Outcome(s, TRUE, "none")
    BY <1>1, <1>9, <2>1 DEF InputsUnfit, Outcome, Pushed, Fail
  <2> QED
    BY <1>5, <2>2
<1>10. ASSUME Taken(s) PROVE Turned(nodeSessions, nodeSessions', s, TRUE, "got")
  <2>1. Turned(nodeSessions, [nodeSessions EXCEPT ![s].isUsed = TRUE, ![s].unloadGuard = TRUE, ![s].guard = "got"], s, TRUE, "got")
    BY <1>1, <1>5, Turns
  <2> QED
    BY <1>10, <2>1 DEF Taken
<1>11. CASE NoResources(s) /\ InferenceFails(s) /\ UNCHANGED tmpDeferred
  <2>1. Outcome(s, TRUE, "got")
    BY <1>1, <1>10, <1>11 DEF InferenceFails, Outcome, Pushed, Fail
  <2> QED
    BY <1>5, <2>1
<1>12. CASE NoResources(s) /\ executeInference(s) /\ UNCHANGED tmpDeferred
  <2>1. Outcome(s, TRUE, "got")
    BY <1>1, <1>10, <1>12 DEF NoResources, executeInference, Outcome, Running
  <2> QED
    BY <1>5, <2>1
<1>13. CASE ExecuteLater(s) /\ tmpDeferred' = Append(tmpDeferred, s)
  <2>1. Turned(nodeSessions, nodeSessions', s, TRUE, "waiting")
    <3>1. Turned(nodeSessions, [nodeSessions EXCEPT ![s].isUsed = TRUE, ![s].unloadGuard = TRUE, ![s].guard = "waiting"], s, TRUE, "waiting")
      BY <1>1, <1>5, Turns
    <3> QED
      BY <1>13, <3>1 DEF ExecuteLater, Defer
  <2>2. Outcome(s, TRUE, "waiting")
    BY <1>13, <2>1 DEF ExecuteLater, Defer, NoResources, Outcome, Deferring, Quiet
  <2> QED
    BY <1>5, <2>2
<1> QED
  BY <1>3, <1>6, <1>7, <1>8, <1>9, <1>11, <1>12, <1>13 DEF ExecuteNow, Start

\* A ready session is started.
LEMMA TryReadyKeeps ==
    ASSUME FlightInv, NEW s \in ready, TryReady(s)
    PROVE  FlightInv'
<1> USE DEF FlightInv
<1>1. PICK u \in BOOLEAN, gd \in Guards : Outcome(s, u, gd)
  BY TryReadyIs
<1>2. /\ stage = "next" /\ startedSessions' = startedSessions \cup {s}
      /\ ready' = IF firstErrorStatus' = "OK" THEN ready \ {s} ELSE {}
      /\ UNCHANGED <<graph, stage, finishedSessions, todo, deferred, at, response, others, shards, late>>
  BY DEF TryReady
<1>3. /\ s \in DOMAIN nodeSessions /\ s \notin startedSessions /\ s \notin finishedSessions /\ s \notin Queued
      /\ s \notin Waiters /\ s \notin DOMAIN inference /\ s[1] \notin todo
      /\ nodeSessions[s].isUsed = FALSE /\ nodeSessions[s].guard = "none" /\ nodeSessions[s].remaining = 0
  BY ReadyIs
<1>4. Turned(nodeSessions, nodeSessions', s, u, gd)
  BY <1>1 DEF Outcome
<1>5. Sessions(nodeSessions') /\ DOMAIN nodeSessions' = DOMAIN nodeSessions
  BY <1>4, TurnedSessions DEF FlightTypes
<1>6. /\ \A x \in DOMAIN nodeSessions \ {s} : nodeSessions'[x] = nodeSessions[x]
      /\ nodeSessions'[s].isUsed = u /\ nodeSessions'[s].guard = gd
  BY <1>3, <1>4 DEF Turned
<1>7. IsFiniteSet(startedSessions')
  BY <1>2, FS_AddElement DEF FlightTypes
<1>8. FlightEnd'
  BY <1>2 DEF FlightEnd
<1>9. FlightReady'
  <2>1. ASSUME NEW x \in DOMAIN nodeSessions, x[1] \in todo, ~nodeSessions'[x].isUsed PROVE x \notin startedSessions'
    <3>1. x # s
      BY <1>3, <2>1
    <3>2. ~nodeSessions[x].isUsed
      BY <1>6, <2>1, <3>1
    <3> QED
      BY <1>2, <2>1, <3>1, <3>2 DEF FlightReady
  <2>2. ASSUME NEW x \in ready' PROVE x \in DOMAIN nodeSessions /\ x \notin startedSessions' /\ isReady(x)' /\ x[1] \notin todo
    <3>1. x \in ready /\ x # s
      BY <1>2
    <3> QED
      BY <1>2, <1>6, <3>1 DEF FlightReady, isReady
  <2>3. stage' = "next"
    BY <1>2
  <2> QED
    BY <1>2, <1>5, <2>1, <2>2, <2>3 DEF FlightReady
<1>10. ASSUME NEW x \in DOMAIN nodeSessions'
       PROVE  /\ nodeSessions'[x].guard = "waiting" => x \in Waiters \/ (x = s /\ gd = "waiting")
              /\ gd = "none" \/ u => (~nodeSessions'[x].isUsed => nodeSessions'[x].guard = "none")
  <2>1. CASE x = s
    BY <1>6, <2>1
  <2>2. CASE x # s
    BY <1>5, <1>6, <2>2 DEF FlightDeferred
  <2> QED
    BY <2>1, <2>2
<1>11. CASE Pushed(s, u, gd)
  <2>1. OnceOf(finishedNodeQueue', Queued \cup {s})
    BY <1>3, <1>11, OnceAppend DEF FlightTypes, Queued, Push, Pushed
  <2>2. Once(finishedNodeQueue') /\ Queued' = Queued \cup {s}
    BY <2>1 DEF OnceOf, Queued
  <2>3. Waiters' = Waiters /\ inference' = inference /\ tmpDeferred' = tmpDeferred
    BY <1>2, <1>11 DEF Pushed, Waiters
  <2>4. /\ firstErrorStatus' \in {"OK", "failed"} /\ (firstErrorStatus' = "OK" => firstErrorStatus = "OK")
        /\ (gd = "none" \/ u) /\ gd # "waiting"
    BY <1>11 DEF Pushed
  <2>5. FlightTypes'
    BY <1>2, <1>3, <1>5, <1>7, <2>2, <2>3, <2>4 DEF FlightTypes
  <2>6. FlightInference'
    BY <1>2, <1>3, <2>2, <2>3 DEF FlightInference
  <2>7. FlightDeferred'
    <3>1. ASSUME NEW x \in Waiters PROVE x \in DOMAIN nodeSessions' /\ graph.kind[x[1]] = "DL" /\ Waits(x)'
      <4>1. x # s /\ x \in DOMAIN nodeSessions /\ graph.kind[x[1]] = "DL" /\ Waits(x)
        BY <1>3 DEF FlightDeferred
      <4>2. nodeSessions'[x] = nodeSessions[x]
        BY <1>6, <4>1
      <4> QED
        BY <1>2, <1>5, <2>2, <2>4, <4>1, <4>2 DEF Waits
    <3> QED
      BY <1>2, <1>10, <2>3, <2>4, <3>1 DEF FlightDeferred
  <2> QED
    BY <1>8, <1>9, <2>5, <2>6, <2>7
<1>12. CASE Running(s, u, gd)
  <2>1. Waiters' = Waiters /\ Queued' = Queued /\ finishedNodeQueue' = finishedNodeQueue
        /\ tmpDeferred' = tmpDeferred /\ firstErrorStatus' = firstErrorStatus /\ u /\ gd # "waiting" /\ graph.kind[s[1]] = "DL"
    BY <1>2, <1>12 DEF Running, Waiters, Queued
  <2>2. /\ DOMAIN inference' = DOMAIN inference \cup {s} /\ inference' = [x \in DOMAIN inference' |-> inference'[x]]
        /\ \A x \in DOMAIN inference : x # s => inference'[x] = inference[x]
        /\ inference'[s] = "running"
    BY <1>12 DEF Put, Running
  <2>3. FlightTypes'
    BY <1>2, <1>5, <1>7, <2>1, <2>2 DEF FlightTypes
  <2>4. FlightInference'
    <3> SUFFICES ASSUME NEW x \in DOMAIN inference'
                 PROVE  /\ graph'.kind[x[1]] = "DL" /\ x \in startedSessions' /\ inference'[x] \in {"running", "calling"}
                        /\ inference'[x] = "running" => x \notin finishedSessions' \cup Queued' \cup Waiters'
      BY DEF FlightInference
    <3>1. CASE x = s
      BY <1>2, <1>3, <2>1, <2>2, <3>1
    <3>2. CASE x # s
      BY <1>2, <2>1, <2>2, <3>2 DEF FlightInference
    <3> QED
      BY <3>1, <3>2
  <2>5. FlightDeferred'
    <3>1. ASSUME NEW x \in Waiters PROVE x \in DOMAIN nodeSessions' /\ graph.kind[x[1]] = "DL" /\ Waits(x)'
      <4>1. x # s /\ x \in DOMAIN nodeSessions /\ graph.kind[x[1]] = "DL" /\ Waits(x)
        BY <1>3 DEF FlightDeferred
      <4>2. nodeSessions'[x] = nodeSessions[x]
        BY <1>6, <4>1
      <4> QED
        BY <1>2, <1>5, <2>1, <4>1, <4>2 DEF Waits
    <3> QED
      BY <1>2, <1>10, <2>1, <3>1 DEF FlightDeferred
  <2> QED
    BY <1>8, <1>9, <2>3, <2>4, <2>5
<1>13. CASE Deferring(s, u, gd)
  <2>1. /\ Queued' = Queued /\ finishedNodeQueue' = finishedNodeQueue /\ firstErrorStatus' = firstErrorStatus
        /\ inference' = inference /\ u /\ gd = "waiting" /\ graph.kind[s[1]] = "DL" /\ tmpDeferred' = Append(tmpDeferred, s)
    BY <1>2, <1>13 DEF Deferring, Queued
  <2>2. s \notin ToSet(tmpDeferred) /\ s \notin ToSet(deferred) /\ deferred' = deferred
    BY <1>2, <1>3 DEF Waiters
  <2>3. OnceOf(tmpDeferred', ToSet(tmpDeferred) \cup {s})
    BY <2>1, <2>2, OnceAppend DEF FlightTypes
  <2>4. Once(tmpDeferred') /\ ToSet(tmpDeferred') = ToSet(tmpDeferred) \cup {s} /\ Waiters' = Waiters \cup {s}
    BY <2>2, <2>3 DEF OnceOf, Waiters
  <2>5. FlightTypes'
    BY <1>2, <1>5, <1>7, <2>1, <2>2, <2>4 DEF FlightTypes
  <2>6. FlightInference'
    BY <1>2, <1>3, <2>1, <2>4 DEF FlightInference
  <2>7. FlightDeferred'
    <3>1. ASSUME NEW x \in Waiters' PROVE x \in DOMAIN nodeSessions' /\ graph.kind[x[1]] = "DL" /\ Waits(x)'
      <4>1. CASE x = s
        BY <1>2, <1>3, <1>5, <1>6, <2>1, <4>1 DEF Waits
      <4>2. CASE x # s
        <5>1. x \in DOMAIN nodeSessions /\ graph.kind[x[1]] = "DL" /\ Waits(x)
          BY <2>4, <4>2 DEF FlightDeferred
        <5>2. nodeSessions'[x] = nodeSessions[x]
          BY <1>6, <4>2, <5>1
        <5> QED
          BY <1>2, <1>5, <2>1, <5>1, <5>2 DEF Waits
      <4> QED
        BY <4>1, <4>2
    <3> QED
      BY <1>2, <1>10, <2>1, <2>4, <3>1 DEF FlightDeferred
  <2> QED
    BY <1>8, <1>9, <2>5, <2>6, <2>7
<1> QED
  BY <1>1, <1>11, <1>12, <1>13 DEF Outcome

-----------------------------------------------------------------------------
(***************************************************************************)
(* What the finished sessions have sent                                    *)
(***************************************************************************)

\* Node d has handed out a result with these metadata.
MadeBy(g, sh, finished, d, meta) ==
    IF g.demultiplyCount[d] = 0 THEN <<d, meta>> \in finished
    ELSE \E i \in 0 .. sh[d] - 1, p \in Seq(LevelSet(g)) :
            <<d, p>> \in finished /\ meta = Append(p, [node |-> d, id |-> i, size |-> sh[d]])
SentOf(g, sh, finished) ==
    {x \in g.nodes \X g.nodes \X Seq(LevelSet(g)) : x[2] \in g.deps[x[1]] /\ MadeBy(g, sh, finished, x[2], x[3])}

SessionOf(g, sh, s) == s = <<s[1], s[2]>> /\ s[1] \in g.nodes /\ IsMeta(g, sh, s[2], KeyStack(g, s[1]))

\* The numbers of shards; one that is not fixed is known when its node, which
\* has one session, has finished.
ShardsOK(g, sh, finished) ==
    /\ sh \in [g.nodes -> Int]
    /\ \A d \in g.nodes : \/ sh[d] = g.demultiplyCount[d]
                          \/ g.demultiplyCount[d] = -1 /\ <<d, <<>> >> \in finished /\ sh[d] \in Nat

AllSentOK(g, sh, sent) == \A x \in sent : SentOK(g, sh, x)

\* What was sent fits the node that it was sent to.
LEMMA SentFits ==
    ASSUME NEW g, IsGraph(g), validate(g), NEW sh \in [g.nodes -> Int], NEW finished, \A s \in finished : SessionOf(g, sh, s)
    PROVE  AllSentOK(g, sh, SentOf(g, sh, finished))
<1> DEFINE L == LevelSet(g)
<1>1. SUFFICES ASSUME NEW x \in SentOf(g, sh, finished) PROVE SentOK(g, sh, x)
  BY DEF AllSentOK
<1>2. x \in g.nodes \X g.nodes \X Seq(L) /\ x[2] \in g.deps[x[1]] /\ MadeBy(g, sh, finished, x[2], x[3])
  BY DEF SentOf
<1> HIDE DEF L
<1>3. x = <<x[1], x[2], x[3]>> /\ x[1] \in g.nodes /\ x[2] \in g.nodes /\ x[3] \in Seq(L)
  BY <1>2
<1> DEFINE n == x[1]
           d == x[2]
           meta == x[3]
<1> HIDE DEF n, d, meta
<1>4. n \in g.nodes /\ d \in g.deps[n] /\ d \in g.nodes /\ MadeBy(g, sh, finished, d, meta)
  BY <1>2, <1>3 DEF n, d, meta
<1>5. IsMeta(g, sh, meta, Stack(g, n))
  <2>1. CASE g.demultiplyCount[d] = 0
    <3>1. <<d, meta>> \in finished
      BY <1>4, <2>1 DEF MadeBy
    <3>2. IsMeta(g, sh, meta, KeyStack(g, d))
      BY <3>1 DEF SessionOf
    <3> QED
      BY <1>4, <2>1, <3>2, MetaPassed
  <2>2. CASE g.demultiplyCount[d] # 0
    <3>1. PICK i \in 0 .. sh[d] - 1, p \in Seq(LevelSet(g)) :
             <<d, p>> \in finished /\ meta = Append(p, [node |-> d, id |-> i, size |-> sh[d]])
      BY <1>4, <2>2 DEF MadeBy
    <3>2. sh[d] \in Int
      BY <1>4
    <3>3. sh[d] \in Nat /\ i \in Nat /\ i < sh[d]
      BY <3>1, <3>2
    <3>4. IsMeta(g, sh, p, KeyStack(g, d))
      BY <3>1 DEF SessionOf
    <3>5. IsMeta(g, sh, Append(p, [node |-> d, id |-> i, size |-> sh[d]]), Stack(g, n))
      BY <1>4, <2>2, <3>3, <3>4, MetaPassed
    <3> QED
      BY <3>1, <3>5
  <2> QED
    BY <2>1, <2>2
<1> QED
  BY <1>3, <1>4, <1>5 DEF SentOK, n, d, meta

KnownStay(g, sh, th) == \A n \in g.nodes : sh[n] \in Nat => th[n] = sh[n]

\* Metadata stay what they are when the number of shards becomes known.
LEMMA ShardsStay ==
    ASSUME NEW g, NEW sh, NEW th, KnownStay(g, sh, th),
           NEW meta, NEW stack, IsMeta(g, sh, meta, stack)
    PROVE  IsMeta(g, th, meta, stack)
<1>1. meta \in Seq(LevelSet(g))
  BY DEF IsMeta, LevelsOK
<1>2. ASSUME NEW i \in 1 .. Len(meta) PROVE meta[i].node \in g.nodes /\ meta[i].size \in Nat
  <2>1. meta[i] \in LevelSet(g)
    BY <1>1, ElementOfSeq
  <2> QED
    BY <2>1 DEF LevelSet
<1>3. ASSUME NEW i \in 1 .. Len(meta) PROVE meta[i].size = th[meta[i].node]
  BY <1>2 DEF IsMeta, LevelsOK, KnownStay
<1> QED
  BY <1>3 DEF IsMeta, LevelsOK

\* A demultiplexer without a fixed number of shards is the only one, and is
\* reached before any level.
LEMMA DynamicFirst ==
    ASSUME NEW g, IsGraph(g), validate(g), NEW sh, NEW finished, ShardsOK(g, sh, finished),
           NEW d \in g.nodes, g.demultiplyCount[d] = -1, NEW meta, IsMeta(g, sh, meta, KeyStack(g, d))
    PROVE  meta = <<>>
<1> DEFINE D == Demultiplexers(g)
<1>1. d \in D /\ D \in SUBSET g.nodes /\ IsFiniteSet(g.nodes)
  BY DEF Demultiplexers, IsGraph
<1>2. IsFiniteSet(D)
  BY <1>1, FS_Subset
<1>3. Cardinality(D) <= 1
  BY DEF validate, validateNodes
<1>4. D = {d}
  <2>1. Cardinality(D) \in Nat /\ Cardinality(D) # 0
    <3> HIDE DEF D
    <3> QED
      BY <1>1, <1>2, FS_CardinalityType, FS_EmptySet
  <2>2. Cardinality(D) = 1
    BY <1>3, <2>1
  <2> HIDE DEF D
  <2> QED
    BY <1>1, <1>2, <2>2, FS_Singleton
<1> DEFINE L == LevelSet(g)
<1>5. /\ meta \in Seq(L) /\ Fits(meta, KeyStack(g, d)) /\ Len(meta) \in Nat
      /\ \A i \in 1 .. Len(meta) : /\ meta[i].id < meta[i].size /\ meta[i].size = sh[meta[i].node]
                                   /\ Fits(SubSeq(meta, 1, i - 1), KeyStack(g, meta[i].node))
  BY LenProperties DEF IsMeta, LevelsOK
<1>6. ASSUME Len(meta) # 0 PROVE FALSE
  <2>1. 1 \in 1 .. Len(meta) /\ 0 \in 0 .. Len(meta)
    BY <1>5, <1>6
  <2> DEFINE e == meta[1].node
  <2>2. meta[1] \in L
    BY <1>5, <2>1, ElementOfSeq
  <2>3. e \in g.nodes /\ meta[1].id \in Nat /\ meta[1].size \in Nat /\ meta[1].size # 0
    BY <1>5, <2>1, <2>2 DEF LevelSet
  <2>4. sh[e] # 0
    BY <1>5, <2>1, <2>3
  <2>5. g.demultiplyCount[e] # 0
    <3> HIDE DEF e
    <3>1. sh[e] = g.demultiplyCount[e] \/ g.demultiplyCount[e] = -1
      BY <2>3 DEF ShardsOK
    <3> QED
      BY <2>4, <3>1
  <2>6. e = d
    BY <1>4, <2>3, <2>5 DEF Demultiplexers
  <2> DEFINE p == SubSeq(meta, 1, 0)
  <2>7. Fits(SubSeq(meta, 1, 1 - 1), KeyStack(g, d))
    BY <1>5, <2>1, <2>6
  <2>8. Fits(p, KeyStack(g, d))
    BY <2>7
  <2> HIDE DEF L
  <2>9. p \in Seq(L) /\ Len(p) = 0
    BY <1>5, <2>1, PrefixIs
  <2> HIDE DEF p
  <2> DEFINE N == g.nodes
             stack == KeyStack(g, d)
  <2>10. IsFiniteSet(N) /\ stack \in Seq(SUBSET N) /\ Fits(p, stack) /\ Fits(meta, stack)
    BY <1>1, <1>5, <2>8, KeyStacks
  <2> HIDE DEF N, stack
  <2>11. Len(p) = Len(meta)
    <3>1. p \in Seq(L) /\ meta \in Seq(L)
      BY <1>5, <2>9
    <3>2. Len(p) = Len(meta) /\ \A i \in 1 .. Len(p) : \E j \in 1 .. Len(meta) : meta[j].node = p[i].node
      BY <2>10, <3>1, FitsAlike
    <3> QED
      BY <3>2
  <2> QED
    BY <1>6, <2>9, <2>11
<1> QED
  BY <1>5, <1>6, EmptySeq

-----------------------------------------------------------------------------
(***************************************************************************)
(* What a session that finishes hands out (Results): one result, or one    *)
(* for each shard                                                          *)
(***************************************************************************)

Handed(sh, d, count, meta, results) ==
    IF count = 0 THEN Len(results) = 1 /\ results[1].meta = meta
    ELSE /\ sh[d] \in Nat \ {0} /\ Len(results) = sh[d]
         /\ \A j \in 1 .. Len(results) : results[j].meta = Append(meta, [node |-> d, id |-> j - 1, size |-> sh[d]])

\* A level at the end can be taken off again.
LEMMA AppendApart ==
    ASSUME NEW L, NEW a \in Seq(L), NEW b \in Seq(L), NEW x \in L, NEW y \in L, Append(a, x) = Append(b, y)
    PROVE  a = b /\ x = y
<1> DEFINE p == Append(a, x)
           q == Append(b, y)
<1>1. Len(p) = Len(a) + 1 /\ (\A i \in 1 .. Len(a) : p[i] = a[i]) /\ p[Len(a) + 1] = x /\ Len(a) \in Nat
  BY AppendProperties, LenProperties
<1>2. Len(q) = Len(b) + 1 /\ (\A i \in 1 .. Len(b) : q[i] = b[i]) /\ q[Len(b) + 1] = y /\ Len(b) \in Nat
  BY AppendProperties, LenProperties
<1>3. p = q
  OBVIOUS
<1> HIDE DEF p, q
<1>4. Len(a) = Len(b)
  BY <1>1, <1>2, <1>3
<1>5. \A i \in 1 .. Len(a) : a[i] = b[i]
  BY <1>1, <1>2, <1>3, <1>4
<1>6. a = b
  BY <1>4, <1>5, SeqEqual
<1> QED
  BY <1>1, <1>2, <1>3, <1>6

\* The results can be sent to every next node.
LEMMA HandedSendable ==
    ASSUME NEW g, IsGraph(g), validate(g), NEW sh, NEW n \in g.nodes, NEW d \in g.deps[n],
           NEW meta, IsMeta(g, sh, meta, KeyStack(g, d)), NEW results, Handed(sh, d, g.demultiplyCount[d], meta, results)
    PROVE  Sendable(g, sh, n, d, results)
<1>1. CASE g.demultiplyCount[d] = 0
  <2>1. Len(results) = 1 /\ results[1].meta = meta
    BY <1>1 DEF Handed
  <2>2. IsMeta(g, sh, meta, Stack(g, n))
    BY <1>1, MetaPassed
  <2>3. SentOK(g, sh, <<n, d, meta>>)
    BY <2>2 DEF SentOK
  <2>4. \A i \in 1 .. Len(results) : i = 1
    BY <2>1
  <2> QED
    BY <2>1, <2>3, <2>4 DEF Sendable
<1>2. CASE g.demultiplyCount[d] # 0
  <2> DEFINE l(i) == [node |-> d, id |-> i - 1, size |-> sh[d]]
             L == LevelSet(g)
  <2>1. /\ sh[d] \in Nat \ {0} /\ Len(results) = sh[d]
        /\ \A j \in 1 .. Len(results) : results[j].meta = Append(meta, l(j))
    BY <1>2 DEF Handed
  <2>2. meta \in Seq(L) /\ d \in g.nodes
    BY DEF IsMeta, LevelsOK, IsGraph
  <2>3. ASSUME NEW i \in 1 .. Len(results) PROVE l(i) \in L /\ l(i).id = i - 1
    BY <2>1, <2>2 DEF LevelSet
  <2>4. ASSUME NEW i \in 1 .. Len(results) PROVE SentOK(g, sh, <<n, d, results[i].meta>>)
    <3>1. i - 1 \in Nat /\ i - 1 < sh[d]
      BY <2>1
    <3>2. IsMeta(g, sh, Append(meta, [node |-> d, id |-> i - 1, size |-> sh[d]]), Stack(g, n))
      <4> DEFINE k == i - 1
      <4>1. k \in Nat /\ k < sh[d] /\ sh[d] \in Nat
        BY <2>1, <3>1
      <4> HIDE DEF k
      <4>2. IsMeta(g, sh, Append(meta, [node |-> d, id |-> k, size |-> sh[d]]), Stack(g, n))
        BY <1>2, <4>1, MetaPassed
      <4> QED
        BY <4>2 DEF k
    <3>3. IsMeta(g, sh, results[i].meta, Stack(g, n))
      BY <2>1, <3>2
    <3> DEFINE m == results[i].meta
    <3> HIDE DEF m
    <3>4. IsMeta(g, sh, m, Stack(g, n))
      BY <3>3 DEF m
    <3>5. SentOK(g, sh, <<n, d, m>>)
      BY <3>4 DEF SentOK
    <3> QED
      BY <3>5 DEF m
  <2> HIDE DEF l, L
  <2>5. ASSUME NEW i \in 1 .. Len(results), NEW j \in 1 .. Len(results), results[i].meta = results[j].meta PROVE i = j
    <3>1. Append(meta, l(i)) = Append(meta, l(j)) /\ l(i) \in L /\ l(j) \in L
      BY <2>1, <2>3, <2>5
    <3>2. l(i) = l(j)
      BY <2>2, <3>1, AppendApart
    <3>3. i - 1 = j - 1
      BY <2>3, <3>2
    <3> QED
      BY <2>1, <3>3
  <2> QED
    BY <2>1, <2>4, <2>5 DEF Sendable
<1> QED
  BY <1>1, <1>2

NewlyMade(g, sh, finished, d, meta, results) ==
    /\ \A j \in 1 .. Len(results) : results[j].meta \in Seq(LevelSet(g)) /\ ~MadeBy(g, sh, finished, d, results[j].meta)
    /\ \A m \in Seq(LevelSet(g)) : MadeBy(g, sh, finished \cup {<<d, meta>>}, d, m)
                                     <=> MadeBy(g, sh, finished, d, m) \/ \E j \in 1 .. Len(results) : m = results[j].meta

\* They were not handed out before, and afterwards they were.
LEMMA HandedNew ==
    ASSUME NEW g, IsGraph(g), NEW sh, NEW d \in g.nodes,
           NEW meta \in Seq(LevelSet(g)), NEW results, Handed(sh, d, g.demultiplyCount[d], meta, results),
           NEW finished, <<d, meta>> \notin finished
    PROVE  NewlyMade(g, sh, finished, d, meta, results)
<1> DEFINE L == LevelSet(g)
           s == <<d, meta>>
           l(i) == [node |-> d, id |-> i, size |-> sh[d]]
<1>1. CASE g.demultiplyCount[d] = 0
  <2>1. Len(results) = 1 /\ results[1].meta = meta
    BY <1>1 DEF Handed
  <2>2. \A j \in 1 .. Len(results) : j = 1
    BY <2>1
  <2>3. 1 \in 1 .. Len(results)
    BY <2>1
  <2>4. \A m : <<d, m>> = <<d, meta>> <=> m = meta
    OBVIOUS
  <2> QED
    BY <1>1, <2>1, <2>2, <2>3, <2>4 DEF NewlyMade, MadeBy
<1>2. CASE g.demultiplyCount[d] # 0
  <2>1. /\ sh[d] \in Nat \ {0} /\ Len(results) = sh[d]
        /\ \A j \in 1 .. Len(results) : results[j].meta = Append(meta, l(j - 1))
    BY <1>2 DEF Handed
  <2>2. ASSUME NEW i \in Nat PROVE l(i) \in L /\ l(i).id = i
    BY <2>1 DEF LevelSet
  <2>3. meta \in Seq(L)
    OBVIOUS
  <2>4. \A fin, m : MadeBy(g, sh, fin, d, m) <=> \E i \in 0 .. sh[d] - 1, p \in Seq(L) : <<d, p>> \in fin /\ m = Append(p, l(i))
    BY <1>2 DEF MadeBy
  <2>5. \A p : <<d, p>> = <<d, meta>> <=> p = meta
    OBVIOUS
  <2>6. \A i \in 0 .. sh[d] - 1 : i \in Nat /\ i + 1 \in 1 .. Len(results) /\ i + 1 - 1 = i
    BY <2>1
  <2>7. \A j \in 1 .. Len(results) : j - 1 \in 0 .. sh[d] - 1 /\ j - 1 \in Nat
    BY <2>1
  <2> HIDE DEF l, L
  <2>8. ASSUME NEW j \in 1 .. Len(results) PROVE results[j].meta \in Seq(L) /\ ~MadeBy(g, sh, finished, d, results[j].meta)
    <3>1. results[j].meta = Append(meta, l(j - 1)) /\ l(j - 1) \in L
      BY <2>1, <2>2, <2>7
    <3>2. Append(meta, l(j - 1)) \in Seq(L)
      BY <2>3, <3>1, AppendProperties
    <3>3. ASSUME NEW i \in 0 .. sh[d] - 1, NEW p \in Seq(L), <<d, p>> \in finished, results[j].meta = Append(p, l(i)) PROVE FALSE
      <4>1. l(i) \in L /\ Append(meta, l(j - 1)) = Append(p, l(i))
        BY <2>2, <2>6, <3>1, <3>3
      <4>2. meta = p
        BY <2>3, <3>1, <4>1, AppendApart
      <4> QED
        BY <3>3, <4>2
    <3> QED
      BY <2>4, <3>1, <3>2, <3>3
  <2>9. ASSUME NEW m \in Seq(L)
        PROVE  MadeBy(g, sh, finished \cup {<<d, meta>>}, d, m)
                 <=> MadeBy(g, sh, finished, d, m) \/ \E j \in 1 .. Len(results) : m = results[j].meta
    <3>1. ASSUME MadeBy(g, sh, finished \cup {<<d, meta>>}, d, m)
          PROVE  MadeBy(g, sh, finished, d, m) \/ \E j \in 1 .. Len(results) : m = results[j].meta
      <4>1. PICK i \in 0 .. sh[d] - 1, p \in Seq(L) : <<d, p>> \in finished \cup {<<d, meta>>} /\ m = Append(p, l(i))
        <5> DEFINE fin == finished \cup {<<d, meta>>}
        <5>1. MadeBy(g, sh, fin, d, m)
          BY <3>1
        <5> HIDE DEF fin
        <5>2. \E i \in 0 .. sh[d] - 1, p \in Seq(L) : <<d, p>> \in fin /\ m = Append(p, l(i))
          BY <1>2, <5>1 DEF MadeBy, L, l
        <5> QED
          BY <5>2 DEF fin
      <4>2. CASE <<d, p>> \in finished
        BY <2>4, <4>1, <4>2
      <4>3. CASE p = meta
        <5>1. m = results[i + 1].meta /\ i + 1 \in 1 .. Len(results)
          BY <2>1, <2>6, <4>1, <4>3
        <5> QED
          BY <5>1
      <4> QED
        BY <2>5, <4>1, <4>2, <4>3
    <3>2. ASSUME MadeBy(g, sh, finished, d, m) PROVE MadeBy(g, sh, finished \cup {<<d, meta>>}, d, m)
      BY <2>4, <3>2
    <3>3. ASSUME NEW j \in 1 .. Len(results), m = results[j].meta PROVE MadeBy(g, sh, finished \cup {<<d, meta>>}, d, m)
      <4>1. m = Append(meta, l(j - 1)) /\ j - 1 \in 0 .. sh[d] - 1 /\ <<d, meta>> \in finished \cup {<<d, meta>>}
        BY <2>1, <2>7, <3>3
      <4> QED
        BY <2>3, <2>4, <4>1
    <3> QED
      BY <3>1, <3>2, <3>3
  <2> QED
    BY <2>8, <2>9 DEF NewlyMade, L
<1> QED
  BY <1>1, <1>2

\* The nodes that come after node d, in some order.
AllNext(g, d, ns, m) == Len(ns) = m /\ {ns[i] : i \in 1 .. m} = {n \in g.nodes : d \in g.deps[n]}

\* The sessions that finish send to the next nodes.
LEMMA SentMore ==
    ASSUME NEW g, IsGraph(g), NEW sh, NEW d \in g.nodes, NEW meta, NEW results, NEW finished,
           NewlyMade(g, sh, finished, d, meta, results),
           NEW ns, NEW m \in Nat, AllNext(g, d, ns, m)
    PROVE  SentOf(g, sh, finished \cup {<<d, meta>>}) = SentOf(g, sh, finished) \cup SentTo(ns, d, results, m)
<1> DEFINE L == LevelSet(g)
           fin == finished \cup {<<d, meta>>}
           A == SentOf(g, sh, fin)
           B == SentOf(g, sh, finished)
           C == SentTo(ns, d, results, m)
<1>1. /\ \A j \in 1 .. Len(results) : results[j].meta \in Seq(L) /\ ~MadeBy(g, sh, finished, d, results[j].meta)
      /\ \A t \in Seq(L) : MadeBy(g, sh, fin, d, t)
                                     <=> MadeBy(g, sh, finished, d, t) \/ \E j \in 1 .. Len(results) : t = results[j].meta
  BY DEF NewlyMade
<1>2. ASSUME NEW e, e # d, NEW t PROVE MadeBy(g, sh, fin, e, t) <=> MadeBy(g, sh, finished, e, t)
  <2>1. \A p : <<e, p>> \in fin <=> <<e, p>> \in finished
    BY <1>2
  <2> HIDE DEF fin
  <2> QED
    BY <2>1 DEF MadeBy
<1>3. \A x : x \in C <=> \E i \in 1 .. m, j \in 1 .. Len(results) : x = <<ns[i], d, results[j].meta>>
  BY DEF SentTo, SentFirst
<1> HIDE DEF L, fin, C
<1>4. \A f : \A x : x \in SentOf(g, sh, f) <=> /\ x \in g.nodes \X g.nodes \X Seq(L) /\ x[2] \in g.deps[x[1]]
                                              /\ MadeBy(g, sh, f, x[2], x[3])
  BY DEF SentOf, L
<1>5. ASSUME NEW x \in A PROVE x \in B \/ x \in C
  <2>1. x \in g.nodes \X g.nodes \X Seq(L) /\ x[2] \in g.deps[x[1]] /\ MadeBy(g, sh, fin, x[2], x[3])
    BY <1>4
  <2>2. x = <<x[1], x[2], x[3]>> /\ x[1] \in g.nodes /\ x[3] \in Seq(L)
    BY <2>1
  <2>3. CASE x[2] # d
    BY <1>2, <1>4, <2>1, <2>3
  <2>4. CASE x[2] = d /\ MadeBy(g, sh, finished, d, x[3])
    BY <1>4, <2>1, <2>4
  <2>5. ASSUME x[2] = d, NEW j \in 1 .. Len(results), x[3] = results[j].meta PROVE x \in C
    <3>1. x[1] \in {n \in g.nodes : d \in g.deps[n]}
      BY <2>1, <2>2, <2>5
    <3>2. PICK i \in 1 .. m : x[1] = ns[i]
      BY <3>1 DEF AllNext
    <3> QED
      BY <1>3, <2>2, <2>5, <3>2
  <2> QED
    BY <1>1, <2>1, <2>2, <2>3, <2>4, <2>5
<1>6. ASSUME NEW x \in B PROVE x \in A
  <2>1. x \in g.nodes \X g.nodes \X Seq(L) /\ x[2] \in g.deps[x[1]] /\ MadeBy(g, sh, finished, x[2], x[3])
    BY <1>4
  <2>2. x[3] \in Seq(L)
    BY <2>1
  <2>3. MadeBy(g, sh, fin, x[2], x[3])
    <3>1. CASE x[2] = d
      BY <1>1, <2>1, <2>2, <3>1
    <3>2. CASE x[2] # d
      BY <1>2, <2>1, <3>2
    <3> QED
      BY <3>1, <3>2
  <2> QED
    BY <1>4, <2>1, <2>3
<1>7. ASSUME NEW x \in C PROVE x \in A
  <2>1. PICK i \in 1 .. m, j \in 1 .. Len(results) : x = <<ns[i], d, results[j].meta>>
    BY <1>3
  <2> DEFINE n == ns[i]
             t == results[j].meta
  <2>2. n \in g.nodes /\ d \in g.deps[n] /\ t \in Seq(L) /\ MadeBy(g, sh, fin, d, t)
    BY <1>1, <2>1 DEF AllNext
  <2> HIDE DEF n, t
  <2>3. x = <<n, d, t>>
    BY <2>1 DEF n, t
  <2>4. x \in g.nodes \X g.nodes \X Seq(L) /\ x[1] = n /\ x[2] = d /\ x[3] = t
    BY <2>2, <2>3
  <2> QED
    BY <1>4, <2>2, <2>4
<1> QED
  BY <1>5, <1>6, <1>7 DEF fin, C

-----------------------------------------------------------------------------
(***************************************************************************)
(* The invariant while no error has occurred                               *)
(***************************************************************************)

OKState ==
    /\ validate(graph)
    /\ \A s \in DOMAIN nodeSessions \cup startedSessions : SessionOf(graph, shards, s)
    /\ \A s \in DOMAIN nodeSessions \cap startedSessions : nodeSessions[s].isUsed \/ graph.kind[s[1]] \in {"ENTRY", "EXIT"}
    /\ SessionsOK(graph, nodeSessions, SentOf(graph, shards, finishedSessions), startedSessions)
    /\ ShardsOK(graph, shards, finishedSessions)
    /\ late = {}

OKInv == stage \notin {"validate", "rejected"} /\ firstErrorStatus = "OK" => OKState

SameHeld(old, new) ==
    /\ DOMAIN new = DOMAIN old
    /\ \A s \in DOMAIN old : /\ new[s].sizes = old[s].sizes /\ new[s].inputs = old[s].inputs
                             /\ new[s].remaining = old[s].remaining
                             /\ old[s].isUsed => new[s].isUsed

\* What a session holds is not changed by starting it.
LEMMA HeldStays ==
    ASSUME NEW g, NEW old, NEW new, SameHeld(old, new), NEW sent, NEW started, SessionsOK(g, old, sent, started)
    PROVE  SessionsOK(g, new, sent, started)
<1>1. ASSUME NEW s \in DOMAIN old, FedOK(g, old[s], sent, s) PROVE FedOK(g, new[s], sent, s)
  <2> DEFINE a == old[s]
             b == new[s]
  <2>1. b.sizes = a.sizes /\ b.inputs = a.inputs /\ b.remaining = a.remaining
    BY DEF SameHeld
  <2>2. FedOK(g, a, sent, s)
    BY <1>1
  <2> HIDE DEF a, b
  <2>3. FedOK(g, b, sent, s)
    BY <2>1, <2>2 DEF FedOK
  <2> QED
    BY <2>3 DEF b
<1> QED
  BY <1>1 DEF SessionsOK, SameHeld

\* What holds without an error does not depend on how a session is executed.
LEMMA OKStays ==
    ASSUME OKState, SameHeld(nodeSessions, nodeSessions'),
           UNCHANGED <<graph, startedSessions, finishedSessions, shards, late>>
    PROVE  OKState'
<1>1. SessionsOK(graph, nodeSessions', SentOf(graph, shards, finishedSessions), startedSessions)
  <2> DEFINE sent == SentOf(graph, shards, finishedSessions)
  <2>1. SessionsOK(graph, nodeSessions, sent, startedSessions)
    BY DEF OKState
  <2> HIDE DEF sent
  <2>2. SessionsOK(graph, nodeSessions', sent, startedSessions)
    BY <2>1, HeldStays
  <2> QED
    BY <2>2 DEF sent
<1>2. /\ DOMAIN nodeSessions' = DOMAIN nodeSessions
      /\ \A s \in DOMAIN nodeSessions : nodeSessions[s].isUsed => nodeSessions'[s].isUsed
  BY DEF SameHeld
<1> QED
  BY <1>1, <1>2 DEF OKState

\* A turned session holds what it held.
LEMMA TurnedHeld ==
    ASSUME NEW old, NEW new, NEW s, NEW u, NEW gd, Turned(old, new, s, u, gd), s \in DOMAIN old => (old[s].isUsed => u)
    PROVE  SameHeld(old, new)
<1>1. DOMAIN new = DOMAIN old
  BY DEF Turned
<1>2. ASSUME NEW x \in DOMAIN old
      PROVE  /\ new[x].sizes = old[x].sizes /\ new[x].inputs = old[x].inputs
             /\ new[x].remaining = old[x].remaining /\ (old[x].isUsed => new[x].isUsed)
  BY DEF Turned
<1> QED
  BY <1>1, <1>2 DEF SameHeld

\* Sessions hold what they hold.
LEMMA SameItself ==
    ASSUME NEW old PROVE SameHeld(old, old)
BY DEF SameHeld

\* A pipeline starts with its entry node.
LEMMA OKStarts ==
    ASSUME IsGraph(graph), FirstIs, Validate
    PROVE  OKState'
<1> DEFINE f == FirstSession(graph)
           sh == graph.demultiplyCount
<1>1. validate(graph) /\ graph' = graph
  BY DEF Validate
<1>2. /\ DOMAIN nodeSessions' = {f} /\ startedSessions' = {f} /\ finishedSessions' = {} /\ late' = {} /\ shards' = sh
  BY DEF FirstIs
<1>3. EntryOf(graph) \in graph.nodes /\ graph.kind[EntryOf(graph)] = "ENTRY" /\ KeyStack(graph, EntryOf(graph)) = <<>>
  BY <1>1, OneOfKind, KeyStacks DEF validate
<1>4. SessionOf(graph, sh, f)
  <2> DEFINE e == EntryOf(graph)
             m == <<>>
             L == LevelSet(graph)
  <2>1. m \in Seq(L) /\ Len(m) = 0 /\ Fits(m, KeyStack(graph, e)) /\ f = <<e, m>>
    BY <1>3, FitsNothing DEF FirstSession
  <2> HIDE DEF m, e, L, sh
  <2>2. LevelsOK(graph, sh, m)
    BY <2>1 DEF LevelsOK, L
  <2> HIDE DEF f
  <2>3. f[1] = e /\ f[2] = m /\ e \in graph.nodes
    BY <1>3, <2>1 DEF e
  <2> QED
    BY <2>1, <2>2, <2>3 DEF SessionOf, IsMeta
<1>5. f[1] = EntryOf(graph)
  BY DEF FirstSession
<1>6. SentOf(graph, sh, {}) = {}
  BY DEF SentOf, MadeBy
<1>7. sh \in [graph.nodes -> Int]
  BY DEF IsGraph
<1> HIDE DEF sh
<1>8. SessionsOK(graph, nodeSessions', SentOf(graph, sh, {}), {f})
  BY <1>2, <1>6 DEF SessionsOK
<1>9. shards' = graph.demultiplyCount
  BY <1>2 DEF sh
<1>10. ShardsOK(graph, shards', finishedSessions')
  BY <1>2, <1>7, <1>9 DEF ShardsOK
<1> HIDE DEF f
<1> QED
  BY <1>1, <1>2, <1>3, <1>4, <1>5, <1>8, <1>10 DEF OKState

\* What was sent fits, in a state without an error.
LEMMA SentNow ==
    ASSUME IsGraph(graph), FlightInv, OKState
    PROVE  /\ shards \in [graph.nodes -> Int] /\ \A s \in finishedSessions : SessionOf(graph, shards, s)
           /\ \A x \in SentOf(graph, shards, finishedSessions) : SentOK(graph, shards, x)
<1>1. shards \in [graph.nodes -> Int] /\ \A s \in finishedSessions : SessionOf(graph, shards, s)
  BY DEF OKState, ShardsOK, FlightInv, FlightTypes
<1>2. AllSentOK(graph, shards, SentOf(graph, shards, finishedSessions))
  BY <1>1, SentFits DEF OKState
<1> QED
  BY <1>1, <1>2 DEF AllSentOK

\* A session that is started has got all that it is to get.
LEMMA OKTryReady ==
    ASSUME IsGraph(graph), FlightInv, OKState, NEW s \in ready, TryReady(s), firstErrorStatus' = "OK"
    PROVE  OKState'
<1> DEFINE sent == SentOf(graph, shards, finishedSessions)
<1>1. /\ s \in DOMAIN nodeSessions /\ nodeSessions[s].isUsed = FALSE /\ nodeSessions[s].remaining = 0
      /\ s \notin startedSessions
  BY ReadyIs
<1>2. PICK u \in BOOLEAN, gd \in Guards : Outcome(s, u, gd)
  BY TryReadyIs
<1>3. /\ startedSessions' = startedSessions \cup {s}
      /\ UNCHANGED <<graph, finishedSessions, shards, late>>
  BY DEF TryReady
<1>4. SessionOf(graph, shards, s) /\ SessionsOK(graph, nodeSessions, sent, startedSessions) /\ validate(graph)
  BY <1>1 DEF OKState
<1>5. SameHeld(nodeSessions, nodeSessions')
  <2>1. Turned(nodeSessions, nodeSessions', s, u, gd)
    BY <1>2 DEF Outcome
  <2> QED
    BY <1>1, <2>1, TurnedHeld
<1>6. u \/ graph.kind[s[1]] = "EXIT"
  BY <1>2 DEF Outcome, Pushed, Running, Deferring
<1>7. nodeSessions'[s].isUsed = u
  BY <1>1, <1>2 DEF Outcome, Turned
<1>8. \A x \in sent : SentOK(graph, shards, x)
  BY SentNow
<1> HIDE DEF sent
<1>9. SessionsOK(graph, nodeSessions', sent, startedSessions)
  BY <1>4, <1>5, HeldStays
<1>10. s # FirstSession(graph) => Complete(graph, sent, s)
  <2> SUFFICES ASSUME s # FirstSession(graph) PROVE Complete(graph, sent, s)
    OBVIOUS
  <2> DEFINE r == nodeSessions[s]
  <2>1. FedOK(graph, r, sent, s) /\ r.remaining = 0 /\ s[1] \in graph.nodes
    BY <1>1, <1>4 DEF SessionsOK, SessionOf
  <2> HIDE DEF r
  <2> QED
    BY <1>4, <1>8, <2>1, ReadyComplete
<1>11. SessionsOK(graph, nodeSessions', sent, startedSessions \cup {s})
  BY <1>9, <1>10 DEF SessionsOK
<1>12. DOMAIN nodeSessions' = DOMAIN nodeSessions /\ \A x \in DOMAIN nodeSessions : nodeSessions[x].isUsed => nodeSessions'[x].isUsed
  BY <1>5 DEF SameHeld
<1>13. \A x \in DOMAIN nodeSessions' \cap startedSessions' : nodeSessions'[x].isUsed \/ graph.kind[x[1]] \in {"ENTRY", "EXIT"}
  <2> SUFFICES ASSUME NEW x \in DOMAIN nodeSessions' \cap startedSessions' PROVE nodeSessions'[x].isUsed \/ graph.kind[x[1]] \in {"ENTRY", "EXIT"}
    OBVIOUS
  <2>1. CASE x = s
    BY <1>6, <1>7, <2>1
  <2>2. CASE x # s
    BY <1>3, <1>12, <2>2 DEF OKState
  <2> QED
    BY <2>1, <2>2
<1>14. \A x \in DOMAIN nodeSessions' \cup startedSessions' : SessionOf(graph, shards, x)
  BY <1>1, <1>3, <1>12 DEF OKState
<1>15. SessionsOK(graph, nodeSessions', SentOf(graph, shards, finishedSessions), startedSessions')
  BY <1>3, <1>11 DEF sent
<1> QED
  BY <1>3, <1>13, <1>14, <1>15 DEF OKState

\* Nothing depends on the exit.
LEMMA ExitFeedsNone ==
    ASSUME NEW g, IsGraph(g), validate(g), NEW s, g.kind[s[1]] = "EXIT", s = <<s[1], s[2]>>, NEW sh, NEW finished
    PROVE  SentOf(g, sh, finished \cup {s}) = SentOf(g, sh, finished)
<1> DEFINE fin == finished \cup {s}
           L == LevelSet(g)
<1>1. ASSUME NEW n \in g.nodes, NEW d \in g.deps[n] PROVE d # s[1]
  BY DEF validate, validateNodes, validateNode, getDependencyNodeInfo
<1>2. ASSUME NEW e, e # s[1], NEW m PROVE MadeBy(g, sh, fin, e, m) <=> MadeBy(g, sh, finished, e, m)
  <2>1. \A p : <<e, p>> \in fin <=> <<e, p>> \in finished
    <3> SUFFICES ASSUME NEW p PROVE <<e, p>> \in fin <=> <<e, p>> \in finished
      OBVIOUS
    <3>1. <<e, p>> # s
      <4>1. <<e, p>>[1] = e
        OBVIOUS
      <4> QED
        BY <1>2, <4>1
    <3> QED
      BY <3>1
  <2> HIDE DEF fin
  <2> QED
    BY <2>1 DEF MadeBy
<1> HIDE DEF fin, L
<1>3. \A f : \A x : x \in SentOf(g, sh, f) <=> /\ x \in g.nodes \X g.nodes \X Seq(L) /\ x[2] \in g.deps[x[1]]
                                              /\ MadeBy(g, sh, f, x[2], x[3])
  BY DEF SentOf, L
<1>4. ASSUME NEW x PROVE x \in SentOf(g, sh, fin) <=> x \in SentOf(g, sh, finished)
  <2>1. CASE x \in g.nodes \X g.nodes \X Seq(L) /\ x[2] \in g.deps[x[1]]
    <3>1. x[1] \in g.nodes
      BY <2>1
    <3>2. x[2] # s[1]
      BY <1>1, <2>1, <3>1
    <3> QED
      BY <1>2, <1>3, <3>2
  <2>2. CASE ~(x \in g.nodes \X g.nodes \X Seq(L) /\ x[2] \in g.deps[x[1]])
    BY <1>3, <2>2
  <2> QED
    BY <2>1, <2>2
<1> QED
  BY <1>4 DEF fin

\* Without the session that has finished.
LEMMA ErasedOK ==
    ASSUME NEW g, NEW sessions, NEW sent, NEW started, SessionsOK(g, sessions, sent, started), NEW s \in started
    PROVE  SessionsOK(g, Restrict(sessions, DOMAIN sessions \ {s}), sent, started)
<1> DEFINE e == Restrict(sessions, DOMAIN sessions \ {s})
<1>1. DOMAIN e = DOMAIN sessions \ {s} /\ \A x \in DOMAIN e : e[x] = sessions[x]
  BY DEF Restrict
<1> HIDE DEF e
<1>2. SessionsOK(g, e, sent, started)
  BY <1>1 DEF SessionsOK
<1> QED
  BY <1>2 DEF e

-----------------------------------------------------------------------------
(***************************************************************************)
(* A session finishes without an error, and its results go to the next     *)
(* nodes                                                                   *)
(***************************************************************************)

Divides(s, sh, results) ==
    /\ SessionOf(graph, sh, s) /\ sh \in [graph.nodes -> Int]
    /\ Handed(sh, s[1], graph.demultiplyCount[s[1]], s[2], results) /\ Len(results) \in Nat \ {0}
    /\ \A x : SessionOf(graph, shards, x) => SessionOf(graph, sh, x)
    /\ ShardsOK(graph, sh, finishedSessions \cup {s})
    /\ SentOf(graph, sh, finishedSessions) = SentOf(graph, shards, finishedSessions)

OnlyAt(g, sh, th, d, finished) ==
    /\ \A n \in g.nodes : n # d => th[n] = sh[n]
    /\ \A p : <<d, p>> \notin finished

\* What is sent does not depend on the number of shards that becomes known.
LEMMA SentStays ==
    ASSUME NEW g, NEW sh, NEW th, NEW finished, NEW d, OnlyAt(g, sh, th, d, finished)
    PROVE  SentOf(g, th, finished) = SentOf(g, sh, finished)
<1>1. ASSUME NEW e \in g.nodes, NEW m PROVE MadeBy(g, th, finished, e, m) <=> MadeBy(g, sh, finished, e, m)
  <2>1. CASE e = d
    BY <2>1 DEF MadeBy, OnlyAt
  <2>2. CASE e # d
    BY <2>2 DEF MadeBy, OnlyAt
  <2> QED
    BY <2>1, <2>2
<1> DEFINE L == LevelSet(g)
<1>2. \A h : \A x : x \in SentOf(g, h, finished) <=> /\ x \in g.nodes \X g.nodes \X Seq(L) /\ x[2] \in g.deps[x[1]]
                                                     /\ MadeBy(g, h, finished, x[2], x[3])
  BY DEF SentOf
<1> HIDE DEF L
<1>3. ASSUME NEW x PROVE x \in SentOf(g, th, finished) <=> x \in SentOf(g, sh, finished)
  <2>1. CASE x \in g.nodes \X g.nodes \X Seq(L)
    <3>1. x[2] \in g.nodes
      BY <2>1
    <3> QED
      BY <1>1, <1>2, <3>1
  <2>2. CASE x \notin g.nodes \X g.nodes \X Seq(L)
    BY <1>2, <2>2
  <2> QED
    BY <2>1, <2>2
<1> QED
  BY <1>3

\* A session that finishes hands out its output or, if its node demultiplexes,
\* as many shards as the output has; the number is known from then on.
LEMMA ResultsDivide ==
    ASSUME IsGraph(graph), FlightInv, OKState, NEW s \in startedSessions, s \notin finishedSessions,
           NEW results \in Results(s),
           NEW sh, sh = [shards EXCEPT ![s[1]] = IF @ = 0 THEN 0 ELSE Len(results)]
    PROVE  Divides(s, sh, results)
<1> DEFINE d == s[1]
           meta == s[2]
           dc == graph.demultiplyCount[d]
<1>1. SessionOf(graph, shards, s) /\ validate(graph) /\ ShardsOK(graph, shards, finishedSessions)
  BY DEF OKState
<1>2. s = <<d, meta>> /\ d \in graph.nodes /\ IsMeta(graph, shards, meta, KeyStack(graph, d)) /\ dc \in Int
  BY <1>1 DEF SessionOf, IsGraph
<1>3. shards \in [graph.nodes -> Int] /\ (shards[d] = dc \/ (dc = -1 /\ <<d, <<>> >> \in finishedSessions /\ shards[d] \in Nat))
  BY <1>1, <1>2 DEF ShardsOK
<1>4. \A x \in finishedSessions : SessionOf(graph, shards, x)
  BY SentNow
<1>5. ASSUME sh = shards, Handed(shards, d, dc, meta, results), Len(results) \in Nat \ {0}
      PROVE  Divides(s, sh, results)
  <2>1. ShardsOK(graph, shards, finishedSessions \cup {s})
    BY <1>1 DEF ShardsOK
  <2> QED
    BY <1>1, <1>3, <1>5, <2>1 DEF Divides
<1>6. CASE dc = 0
  <2>1. shards[d] = 0
    BY <1>3, <1>6
  <2>2. sh = shards
    BY <1>2, <1>3, <2>1
  <2>3. results = <<[meta |-> meta, tensor |-> Output(s)]>>
    BY <1>6 DEF Results
  <2>4. Len(results) = 1 /\ results[1].meta = meta
    BY <2>3
  <2> QED
    BY <1>5, <1>6, <2>2, <2>4 DEF Handed
<1>7. CASE dc # 0
  <2>1. PICK count \in 0 .. MaxShards : CanDivide(d, count) /\ results = Divided(d, meta, Output(s), count)
    BY <1>7 DEF Results
  <2>2. count \in Nat \ {0} /\ (dc # -1 => count = dc)
    BY <2>1, LimitAssumption DEF CanDivide
  <2> DEFINE l(i) == [node |-> d, id |-> i, size |-> count]
  <2>3. /\ Len(results) = count
        /\ \A j \in 1 .. count : results[j].meta = Append(meta, l(j - 1))
    <3>1. results = [i \in 1 .. count |-> [meta |-> Append(meta, l(i - 1)), tensor |-> <<"shard", Output(s), i - 1>>]]
      BY <2>1 DEF Divided
    <3>2. DOMAIN results = 1 .. count
      BY <3>1
    <3>3. Len(results) = count
      <4>1. results \in [1 .. count -> {results[i] : i \in 1 .. count}]
        BY <3>1
      <4>2. results \in Seq({results[i] : i \in 1 .. count})
        BY <2>2, <4>1, SeqDef
      <4>3. Len(results) \in Nat /\ DOMAIN results = 1 .. Len(results)
        BY <4>2, LenProperties
      <4> QED
        BY <2>2, <3>2, <4>3
    <3>4. ASSUME NEW j \in 1 .. count PROVE results[j].meta = Append(meta, l(j - 1))
      BY <3>1
    <3> QED
      BY <3>3, <3>4
  <2>4. CASE dc # -1
    <3>1. shards[d] = dc /\ count = dc /\ shards[d] # 0
      BY <1>3, <1>7, <2>2, <2>4
    <3>2. sh = shards
      BY <1>2, <1>3, <2>3, <3>1
    <3>3. Handed(shards, d, dc, meta, results)
      BY <1>7, <2>2, <2>3, <3>1 DEF Handed
    <3> QED
      BY <1>5, <2>2, <2>3, <3>2, <3>3
  <2>5. CASE dc = -1
    <3>1. meta = <<>>
      BY <1>1, <1>2, <2>5, DynamicFirst
    <3>2. s = <<d, <<>> >>
      BY <1>2, <3>1
    <3>3. shards[d] = -1
      BY <1>3, <2>5, <3>2
    <3>4. sh \in [graph.nodes -> Int] /\ sh[d] = count /\ \A n \in graph.nodes : n # d => sh[n] = shards[n]
      BY <1>2, <1>3, <2>2, <2>3, <3>3
    <3>5. KnownStay(graph, shards, sh)
      BY <3>3, <3>4 DEF KnownStay
    <3>6. ASSUME NEW x, SessionOf(graph, shards, x) PROVE SessionOf(graph, sh, x)
      <4> DEFINE m == x[2]
                 stack == KeyStack(graph, x[1])
      <4>1. IsMeta(graph, shards, m, stack)
        BY <3>6 DEF SessionOf
      <4> HIDE DEF m, stack
      <4>2. IsMeta(graph, sh, m, stack)
        BY <3>5, <4>1, ShardsStay
      <4> QED
        BY <3>6, <4>2 DEF SessionOf, m, stack
    <3>7. ASSUME NEW p PROVE <<d, p>> \notin finishedSessions
      <4> SUFFICES ASSUME <<d, p>> \in finishedSessions PROVE FALSE
        OBVIOUS
      <4> DEFINE y == <<d, p>>
      <4>1. SessionOf(graph, shards, y) /\ y[1] = d /\ y[2] = p
        BY <1>4
      <4>2. IsMeta(graph, shards, p, KeyStack(graph, d))
        <5> HIDE DEF y, d
        <5> QED
          BY <4>1 DEF SessionOf
      <4>3. p = <<>>
        BY <1>1, <1>2, <2>5, <4>2, DynamicFirst
      <4> QED
        BY <3>2, <4>3
    <3>8. SentOf(graph, sh, finishedSessions) = SentOf(graph, shards, finishedSessions)
      <4>1. OnlyAt(graph, shards, sh, d, finishedSessions)
        BY <3>4, <3>7 DEF OnlyAt
      <4> HIDE DEF d
      <4> QED
        BY <4>1, SentStays
    <3>9. Handed(sh, d, dc, meta, results)
      BY <1>7, <2>2, <2>3, <3>4 DEF Handed
    <3>10. ShardsOK(graph, sh, finishedSessions \cup {s})
      <4> SUFFICES ASSUME NEW n \in graph.nodes
                   PROVE  \/ sh[n] = graph.demultiplyCount[n]
                          \/ graph.demultiplyCount[n] = -1 /\ <<n, <<>> >> \in finishedSessions \cup {s} /\ sh[n] \in Nat
        BY <3>4 DEF ShardsOK
      <4>1. CASE n = d
        BY <2>2, <2>5, <3>2, <3>4, <4>1
      <4>2. CASE n # d
        BY <1>1, <3>4, <4>2 DEF ShardsOK
      <4> QED
        BY <4>1, <4>2
    <3>11. SessionOf(graph, sh, s)
      BY <1>1, <3>6
    <3> QED
      BY <2>2, <2>3, <3>4, <3>6, <3>8, <3>9, <3>10, <3>11 DEF Divides
  <2> QED
    BY <2>4, <2>5
<1> QED
  BY <1>6, <1>7

\* The first k of the next nodes.
FirstNext(d, k) == SubSeq(SetToSeq(NextNodes(d)), 1, k)

\* They are the next nodes, each of them once.
LEMMA NextIs ==
    ASSUME IsGraph(graph), NEW d, NEW k \in 0 .. Cardinality(NextNodes(d))
    PROVE  /\ Len(FirstNext(d, k)) = k /\ k \in Nat
           /\ \A i \in 1 .. k : FirstNext(d, k)[i] \in NextNodes(d)
           /\ \A i, j \in 1 .. k : FirstNext(d, k)[i] = FirstNext(d, k)[j] => i = j
           /\ k = Len(SetToSeq(NextNodes(d))) => {FirstNext(d, k)[i] : i \in 1 .. k} = NextNodes(d)
<1> DEFINE N == NextNodes(d)
           all == SetToSeq(N)
           c == Cardinality(N)
           q == FirstNext(d, k)
<1>1. N \in SUBSET graph.nodes /\ IsFiniteSet(graph.nodes)
  BY DEF NextNodes, IsGraph
<1>2. IsFiniteSet(N)
  BY <1>1, FS_Subset
<1>3. /\ all \in Seq(N) /\ Len(all) = c /\ c \in Nat
      /\ \A i, j \in 1 .. c : all[i] = all[j] => i = j
      /\ \A x \in N : \E i \in 1 .. c : all[i] = x
  <2> HIDE DEF N
  <2> QED
    BY <1>2, SetToSeqIs
<1>4. k \in 0 .. c /\ q = SubSeq(all, 1, k)
  BY DEF FirstNext
<1> HIDE DEF N, all, c, q
<1>5. q \in Seq(N) /\ Len(q) = k /\ \A i \in 1 .. k : q[i] = all[i]
  BY <1>3, <1>4, PrefixIs
<1>6. \A i \in 1 .. k : q[i] \in N
  BY <1>5, ElementOfSeq
<1>7. \A i, j \in 1 .. k : q[i] = q[j] => i = j
  <2>1. \A i \in 1 .. k : i \in 1 .. c
    BY <1>3, <1>4
  <2> QED
    BY <1>3, <1>5, <2>1
<1>8. k = Len(all) => {q[i] : i \in 1 .. k} = N
  <2> SUFFICES ASSUME k = c PROVE {q[i] : i \in 1 .. k} = N
    BY <1>3
  <2> QED
    BY <1>3, <1>5, <1>6
<1> QED
  BY <1>3, <1>4, <1>5, <1>6, <1>7, <1>8 DEF N, all, q

\* What becomes of the sessions.
Fed(s, sh, results, ns, k, fed) ==
    LET sent == SentTo(ns, s[1], results, k)
        keys == {KeyOf(graph, x) : x \in sent}
    IN  /\ FedTo(graph, Erased(s), fed, SentOf(graph, sh, finishedSessions) \cup sent, startedSessions, keys)
        /\ keys \cap startedSessions = {}
        /\ \A x \in keys : SessionOf(graph, sh, x)

\* All that a session hands out fits the sessions of the next nodes: feeding
\* them reports no error, and none of their sessions was started before.
LEMMA ResultsFed ==
    ASSUME IsGraph(graph), FlightInv, OKState, NEW s \in startedSessions, s \notin finishedSessions,
           NEW sh, NEW results, Divides(s, sh, results),
           NEW k \in 0 .. Cardinality(NextNodes(s[1])), NEW ns, ns = FirstNext(s[1], k)
    PROVE  Fed(s, sh, results, ns, k, Feed(Erased(s), ns, s[1], results))
<1> DEFINE d == s[1]
           meta == s[2]
           sent == SentOf(graph, sh, finishedSessions)
           old == Erased(s)
           new == SentTo(ns, d, results, k)
<1>1. /\ SessionOf(graph, sh, s) /\ sh \in [graph.nodes -> Int] /\ validate(graph)
      /\ Handed(sh, d, graph.demultiplyCount[d], meta, results)
      /\ \A x \in finishedSessions : SessionOf(graph, sh, x)
  BY SentNow DEF Divides, OKState
<1>2. s = <<d, meta>> /\ d \in graph.nodes /\ IsMeta(graph, sh, meta, KeyStack(graph, d)) /\ meta \in Seq(LevelSet(graph))
  BY <1>1 DEF SessionOf, IsMeta, LevelsOK
<1>3. \A y \in sent : SentOK(graph, sh, y)
  <2>1. AllSentOK(graph, sh, SentOf(graph, sh, finishedSessions))
    BY <1>1, SentFits
  <2> QED
    BY <2>1 DEF AllSentOK
<1>4. NewlyMade(graph, sh, finishedSessions, d, meta, results)
  <2>1. <<d, meta>> \notin finishedSessions
    BY <1>2
  <2> HIDE DEF d, meta
  <2> QED
    BY <1>1, <1>2, <2>1, HandedNew
<1>5. /\ Len(ns) = k /\ k \in Nat /\ \A i \in 1 .. k : ns[i] \in NextNodes(d)
      /\ \A i, j \in 1 .. k : ns[i] = ns[j] => i = j
  <2> HIDE DEF d
  <2> QED
    BY NextIs DEF d
<1>6. \A i \in 1 .. k : ns[i] \in graph.nodes /\ d \in graph.deps[ns[i]]
  BY <1>5 DEF NextNodes
<1>7. ASSUME NEW i \in 1 .. k
      PROVE  /\ Sendable(graph, sh, ns[i], d, results)
             /\ \A j \in 1 .. Len(results) : <<ns[i], d, results[j].meta>> \notin sent
  <2> DEFINE n == ns[i]
  <2>1. n \in graph.nodes /\ d \in graph.deps[n]
    BY <1>6
  <2> HIDE DEF n, d, meta
  <2>2. Sendable(graph, sh, n, d, results)
    BY <1>1, <1>2, <2>1, HandedSendable
  <2>3. ASSUME NEW j \in 1 .. Len(results) PROVE <<n, d, results[j].meta>> \notin sent
    <3> DEFINE m == results[j].meta
               x == <<n, d, m>>
    <3>1. ~MadeBy(graph, sh, finishedSessions, d, m)
      BY <1>4 DEF NewlyMade
    <3>2. x[2] = d /\ x[3] = m
      OBVIOUS
    <3> HIDE DEF m, x
    <3>3. x \notin sent
      BY <3>1, <3>2 DEF SentOf
    <3> QED
      BY <3>3 DEF x, m
  <2> QED
    BY <2>2, <2>3 DEF n
<1>8. old = [x \in DOMAIN old |-> old[x]] /\ \A x \in DOMAIN old : IsSession(old[x])
  BY DEF Erased, Restrict, FlightInv, FlightTypes, Sessions
<1>9. SessionsOK(graph, old, sent, startedSessions)
  <2>1. SessionsOK(graph, nodeSessions, sent, startedSessions)
    BY DEF OKState, Divides
  <2> HIDE DEF sent
  <2> QED
    BY <2>1, ErasedOK DEF Erased
<1> HIDE DEF d, meta, sent, old, new
<1>10. FedTo(graph, old, Feed(old, ns, d, results), sent \cup SentTo(ns, d, results, k), startedSessions,
             {KeyOf(graph, x) : x \in SentTo(ns, d, results, k)})
  BY <1>1, <1>3, <1>5, <1>7, <1>8, <1>9, FeedDoes
<1>11. ASSUME NEW x \in SentTo(ns, d, results, k) PROVE SentOK(graph, sh, x) /\ x \notin sent
  <2>1. PICK i \in 1 .. k, j \in 1 .. Len(results) : x = <<ns[i], d, results[j].meta>>
    BY DEF SentTo, SentFirst
  <2> QED
    BY <1>7, <2>1 DEF Sendable
<1>12. ASSUME NEW x \in SentTo(ns, d, results, k)
       PROVE  KeyOf(graph, x) \notin startedSessions /\ SessionOf(graph, sh, KeyOf(graph, x))
  <2>1. SentOK(graph, sh, x) /\ x \notin sent
    BY <1>11
  <2>2. KeyOf(graph, x) \notin startedSessions
    BY <1>1, <1>3, <1>9, <2>1, NotStarted
  <2> DEFINE n == x[1]
             m == x[3]
             G == graph.gatherFrom[n]
  <2>3. n \in graph.nodes /\ IsMeta(graph, sh, m, Stack(graph, n))
    BY <2>1 DEF SentOK
  <2> HIDE DEF n, m
  <2>4. KeyIs(graph, sh, n, m, G)
    <3>1. G = graph.gatherFrom[n]
      OBVIOUS
    <3> HIDE DEF G
    <3> QED
      BY <1>1, <2>3, <3>1, MetaKey
  <2>5. KeyOf(graph, x) = <<n, Collapsed(m, G)>>
    BY DEF KeyOf, n, m
  <2> DEFINE c == Collapsed(m, G)
  <2>6. IsMeta(graph, sh, c, KeyStack(graph, n))
    BY <2>4 DEF KeyIs
  <2> HIDE DEF c
  <2>7. SessionOf(graph, sh, <<n, c>>)
    BY <2>3, <2>6 DEF SessionOf
  <2> QED
    BY <2>2, <2>5, <2>7 DEF c
<1>13. \A y \in {KeyOf(graph, x) : x \in SentTo(ns, d, results, k)} : y \notin startedSessions /\ SessionOf(graph, sh, y)
  BY <1>12
<1> QED
  BY <1>10, <1>13 DEF Fed, d, sent, old

\* A session finishes while there is no error: none of the deferred ones has an
\* event in the queue, and what becomes of the others is no matter of theirs.
LEMMA FetchKeeps ==
    ASSUME FlightInv, NEW s, Take(s), firstErrorStatus = "OK",
           UNCHANGED <<graph, startedSessions, deferred, tmpDeferred, at, inference>>,
           NEW keys, Kept(Erased(s), nodeSessions', keys), firstErrorStatus' \in {"OK", "failed"},
           FlightReady', FlightEnd', stage' # "disarm"
    PROVE  FlightInv'
<1> USE DEF FlightInv
<1>1. /\ s \in Queued /\ s \in startedSessions /\ s \notin finishedSessions
      /\ Once(finishedNodeQueue') /\ Queued' = Queued \ {s} /\ finishedSessions' = finishedSessions \cup {s}
  BY TakeIs
<1>2. Waiters' = Waiters
  BY DEF Waiters
<1> DEFINE old == Erased(s)
<1>3. DOMAIN old = DOMAIN nodeSessions \ {s} /\ \A x \in DOMAIN old : old[x] = nodeSessions[x]
  BY DEF Erased, Restrict
<1> HIDE DEF old
<1>4. /\ nodeSessions' = [x \in DOMAIN old \cup keys |-> nodeSessions'[x]]
      /\ \A x \in DOMAIN nodeSessions' : IsSession(nodeSessions'[x])
      /\ \A x \in DOMAIN old : nodeSessions'[x].guard = old[x].guard /\ nodeSessions'[x].isUsed = old[x].isUsed
      /\ \A x \in DOMAIN nodeSessions' \ DOMAIN old : ~nodeSessions'[x].isUsed /\ nodeSessions'[x].guard = "none"
  BY DEF Kept, old
<1>5. /\ DOMAIN nodeSessions' = DOMAIN old \cup keys
      /\ \A x \in DOMAIN old : nodeSessions'[x].guard = nodeSessions[x].guard /\ nodeSessions'[x].isUsed = nodeSessions[x].isUsed
  BY <1>3, <1>4
<1>6. Sessions(nodeSessions')
  BY <1>4, <1>5 DEF Sessions
<1>7. FlightTypes'
  BY <1>1, <1>2, <1>6 DEF FlightTypes
<1>8. FlightInference'
  BY <1>1, <1>2 DEF FlightInference
<1>9. FlightDeferred'
  <2>1. ASSUME NEW x \in Waiters PROVE x \in DOMAIN nodeSessions' /\ graph.kind[x[1]] = "DL" /\ Waits(x)'
    <3>1. x \in DOMAIN nodeSessions /\ graph.kind[x[1]] = "DL" /\ Waits(x)
      BY DEF FlightDeferred
    <3>2. nodeSessions[x].guard \in {"waiting", "ready"} /\ nodeSessions[x].isUsed /\ x \notin finishedSessions /\ x \notin Queued
      BY <3>1 DEF Waits
    <3>3. x # s /\ x \in DOMAIN old
      BY <1>1, <1>3, <3>1, <3>2
    <3> QED
      BY <1>1, <1>5, <3>1, <3>2, <3>3 DEF Waits
  <2>2. ASSUME NEW x \in DOMAIN nodeSessions' PROVE /\ nodeSessions'[x].guard = "waiting" => x \in Waiters
                                                    /\ ~nodeSessions'[x].isUsed => nodeSessions'[x].guard = "none"
    <3>1. CASE x \in DOMAIN old
      BY <1>3, <1>5, <3>1 DEF FlightDeferred
    <3>2. CASE x \notin DOMAIN old
      BY <1>4, <3>2
    <3> QED
      BY <3>1, <3>2
  <2> QED
    BY <1>2, <2>1, <2>2 DEF FlightDeferred
<1> QED
  BY <1>7, <1>8, <1>9

\* The other sessions stay.
LEMMA ErasedKept ==
    ASSUME FlightInv, NEW s
    PROVE  Kept(Erased(s), Erased(s), {})
<1> DEFINE old == Erased(s)
<1>1. old = [x \in DOMAIN old |-> old[x]] /\ DOMAIN old \cup {} = DOMAIN old
  BY DEF Erased, Restrict
<1>2. \A x \in DOMAIN old : IsSession(old[x])
  BY DEF Erased, Restrict, FlightInv, FlightTypes, Sessions
<1> HIDE DEF old
<1>3. Kept(old, old, {})
  BY <1>1, <1>2 DEF Kept
<1> QED
  BY <1>3 DEF old

\* The results cannot be had.
LEMMA FetchFailsKeeps ==
    ASSUME FlightInv, NEW s, FetchFails(s)
    PROVE  FlightInv'
<1>1. /\ Take(s) /\ firstErrorStatus = "OK" /\ firstErrorStatus' = "failed" /\ nodeSessions' = Erased(s)
      /\ LeaveOrPull(finishedSessions')
      /\ UNCHANGED <<graph, startedSessions, todo, ready, deferred, tmpDeferred, at, response, inference, others, shards>>
  BY DEF FetchFails, Fetch
<1>2. Kept(Erased(s), nodeSessions', {})
  BY <1>1, ErasedKept
<1>3. todo = {} /\ ready = {} /\ finishedSessions' = finishedSessions \cup {s} /\ s \in startedSessions
  BY <1>1, TakeIs
<1>4. stage' \in {"returned", "pull"}
  BY <1>1 DEF LeaveOrPull
<1>5. stage' = "returned" => finishedSessions' = startedSessions'
  <2> SUFFICES ASSUME stage' = "returned" PROVE finishedSessions' = startedSessions
    BY <1>1
  <2>1. Cardinality(finishedSessions') = Cardinality(startedSessions)
    BY <1>1 DEF LeaveOrPull
  <2>2. IsFiniteSet(startedSessions) /\ finishedSessions' \subseteq startedSessions
    BY <1>3 DEF FlightInv, FlightTypes
  <2> QED
    BY <2>1, <2>2, Leaves
<1>6. FlightReady'
  BY <1>1, <1>3 DEF FlightReady
<1>7. FlightEnd'
  BY <1>4, <1>5 DEF FlightEnd
<1> QED
  BY <1>1, <1>2, <1>4, <1>6, <1>7, FetchKeeps

\* The exit has serialized the response.
LEMMA FetchResponseKeeps ==
    ASSUME FlightInv, NEW s, FetchResponse(s)
    PROVE  FlightInv'
<1>1. /\ Take(s) /\ firstErrorStatus = "OK" /\ nodeSessions' = Erased(s) /\ todo' = {} /\ stage' = "next"
      /\ UNCHANGED <<graph, startedSessions, ready, deferred, tmpDeferred, at, firstErrorStatus, inference, others, shards, late>>
  BY DEF FetchResponse, Fetch
<1>2. Kept(Erased(s), nodeSessions', {})
  BY <1>1, ErasedKept
<1>3. ready = {}
  BY <1>1, TakeIs
<1>4. FlightReady' /\ FlightEnd'
  BY <1>1, <1>3 DEF FlightReady, FlightEnd
<1> QED
  BY <1>1, <1>2, <1>4, FetchKeeps

\* The exit has no next nodes; what the others have sent stays as it was.
LEMMA FetchResponseOK ==
    ASSUME IsGraph(graph), FlightInv, OKState, NEW s, FetchResponse(s)
    PROVE  OKState'
<1>1. /\ Take(s) /\ nodeSessions' = Erased(s) /\ graph.kind[s[1]] = "EXIT"
      /\ UNCHANGED <<graph, startedSessions, shards, late>>
  BY DEF FetchResponse, Fetch, FetchExit
<1>2. finishedSessions' = finishedSessions \cup {s} /\ s \in startedSessions
  BY <1>1, TakeIs
<1>3. SessionOf(graph, shards, s) /\ validate(graph)
  BY <1>2 DEF OKState
<1>4. SentOf(graph, shards, finishedSessions') = SentOf(graph, shards, finishedSessions)
  BY <1>1, <1>2, <1>3, ExitFeedsNone DEF SessionOf
<1>5. SessionsOK(graph, nodeSessions', SentOf(graph, shards, finishedSessions'), startedSessions)
  <2> DEFINE sent == SentOf(graph, shards, finishedSessions)
  <2>1. SessionsOK(graph, nodeSessions, sent, startedSessions)
    BY DEF OKState
  <2> HIDE DEF sent
  <2>2. SessionsOK(graph, Restrict(nodeSessions, DOMAIN nodeSessions \ {s}), sent, startedSessions)
    BY <1>2, <2>1, ErasedOK
  <2> QED
    BY <1>1, <1>4, <2>2 DEF Erased, sent
<1>6. DOMAIN nodeSessions' \subseteq DOMAIN nodeSessions /\ \A x \in DOMAIN nodeSessions' : nodeSessions'[x] = nodeSessions[x]
  BY <1>1 DEF Erased, Restrict
<1>7. ShardsOK(graph, shards, finishedSessions')
  BY <1>2 DEF OKState, ShardsOK
<1> QED
  BY <1>1, <1>5, <1>6, <1>7 DEF OKState

\* The results have gone to the next nodes; their sessions were not started.
LEMMA FetchResultsIs ==
    ASSUME IsGraph(graph), FlightInv, OKState, firstErrorStatus = "OK", NEW s, FetchResults(s)
    PROVE  /\ FlightInv'
           /\ firstErrorStatus' = "OK" => OKState'
<1> DEFINE d == s[1]
           meta == s[2]
           sh == shards'
<1>1. /\ Take(s) /\ todo' = NextNodes(d) /\ stage' = "next" /\ Fetch(s) /\ ~FetchExit(s)
      /\ late' = late \cup ({s} \cap DOMAIN inference)
      /\ UNCHANGED <<graph, startedSessions, ready, deferred, tmpDeferred, at, response, inference, others>>
  BY DEF FetchResults, Fetch
<1>2. finishedSessions' = finishedSessions \cup {s} /\ s \in startedSessions /\ s \notin finishedSessions /\ ready = {}
  BY <1>1, TakeIs
<1>3. PICK results \in Results(s), k \in 0 .. Cardinality(NextNodes(d)) :
         LET ns == SetToSeq(NextNodes(d))
             fed == Feed(Erased(s), SubSeq(ns, 1, k), d, results)
         IN  /\ \/ k = Len(ns) /\ firstErrorStatus' = IF fed.ok THEN "OK" ELSE "internal"
                \/ k > 0 /\ GatherFails(fed, ns[k]) /\ firstErrorStatus' = "failed"
             /\ nodeSessions' = fed.sessions
             /\ shards' = [shards EXCEPT ![d] = IF @ = 0 THEN 0 ELSE Len(results)]
  BY DEF FetchResults
<1> DEFINE ns == FirstNext(d, k)
           fed == Feed(Erased(s), ns, d, results)
           sent == SentTo(ns, d, results, k)
           keys == {KeyOf(graph, x) : x \in sent}
           was == SentOf(graph, sh, finishedSessions)
<1>4. /\ \/ k = Len(SetToSeq(NextNodes(d))) /\ firstErrorStatus' = IF fed.ok THEN "OK" ELSE "internal"
         \/ firstErrorStatus' = "failed"
      /\ nodeSessions' = fed.sessions
  BY <1>3 DEF FirstNext
<1>5. Divides(s, sh, results)
  BY <1>2, <1>3, ResultsDivide
<1>6. Fed(s, sh, results, ns, k, fed)
  <2> HIDE DEF sh
  <2>1. ns = FirstNext(s[1], k) /\ k \in 0 .. Cardinality(NextNodes(s[1]))
    OBVIOUS
  <2> HIDE DEF ns
  <2>2. Fed(s, sh, results, ns, k, Feed(Erased(s), ns, s[1], results))
    BY <1>2, <1>5, <2>1, ResultsFed
  <2> QED
    BY <2>2
<1> HIDE DEF fed, ns, sh
<1>7. /\ FedTo(graph, Erased(s), fed, was \cup sent, startedSessions, keys)
      /\ keys \cap startedSessions = {} /\ \A x \in keys : SessionOf(graph, sh, x)
  BY <1>6 DEF Fed
<1>8. fed.ok = TRUE
  <2>1. fed = [ok |-> TRUE, sessions |-> fed.sessions]
    BY <1>7 DEF FedTo
  <2> QED
    BY <2>1
<1>9. firstErrorStatus' \in {"OK", "failed"}
  BY <1>4, <1>8
<1>10. Kept(Erased(s), nodeSessions', keys) /\ SessionsOK(graph, nodeSessions', was \cup sent, startedSessions)
  BY <1>4, <1>7 DEF FedTo
<1> DEFINE old == Erased(s)
<1>11. DOMAIN old = DOMAIN nodeSessions \ {s} /\ \A x \in DOMAIN old : old[x] = nodeSessions[x]
  BY DEF Erased, Restrict
<1> HIDE DEF keys, sent, was
<1>12. /\ DOMAIN nodeSessions' = DOMAIN old \cup keys
       /\ \A x \in DOMAIN old : nodeSessions'[x].isUsed = nodeSessions[x].isUsed
  BY <1>10, <1>11 DEF Kept
<1> HIDE DEF old
<1>13. \A x \in DOMAIN nodeSessions' \cap startedSessions : nodeSessions'[x].isUsed \/ graph.kind[x[1]] \in {"ENTRY", "EXIT"}
  <2> SUFFICES ASSUME NEW x \in DOMAIN nodeSessions' \cap startedSessions PROVE nodeSessions'[x].isUsed \/ graph.kind[x[1]] \in {"ENTRY", "EXIT"}
    OBVIOUS
  <2>1. x \in DOMAIN old /\ x \in DOMAIN nodeSessions \cap startedSessions
    BY <1>7, <1>11, <1>12
  <2> QED
    BY <1>12, <2>1 DEF OKState
<1>14. /\ validate(graph) /\ d \in graph.nodes /\ s = <<d, meta>> /\ IsMeta(graph, sh, meta, KeyStack(graph, d))
       /\ Handed(sh, d, graph.demultiplyCount[d], meta, results) /\ Len(results) \in Nat \ {0}
       /\ \A x : SessionOf(graph, shards, x) => SessionOf(graph, sh, x)
       /\ ShardsOK(graph, sh, finishedSessions') /\ was = SentOf(graph, shards, finishedSessions)
       /\ sh \in [graph.nodes -> Int]
  BY <1>2, <1>5 DEF Divides, OKState, SessionOf, was
<1>15. \A x \in DOMAIN nodeSessions' \cup startedSessions : SessionOf(graph, sh, x)
  <2>1. \A x \in DOMAIN nodeSessions \cup startedSessions : SessionOf(graph, sh, x)
    BY <1>14 DEF OKState
  <2> QED
    BY <1>7, <1>11, <1>12, <2>1
<1>16. \A x \in finishedSessions : SessionOf(graph, sh, x)
  BY <1>14, SentNow
<1>17. \A y \in was : SentOK(graph, sh, y)
  <2>1. AllSentOK(graph, sh, SentOf(graph, sh, finishedSessions))
    BY <1>14, <1>16, SentFits
  <2> QED
    BY <2>1 DEF AllSentOK, was
<1>18. NewlyMade(graph, sh, finishedSessions, d, meta, results)
  <2>1. <<d, meta>> \notin finishedSessions /\ meta \in Seq(LevelSet(graph))
    BY <1>2, <1>14 DEF IsMeta, LevelsOK
  <2> HIDE DEF d, meta
  <2> QED
    BY <1>14, <2>1, HandedNew
<1>19. ASSUME NEW x \in DOMAIN nodeSessions', x[1] \in NextNodes(d), ~nodeSessions'[x].isUsed PROVE x \notin startedSessions
  <2> SUFFICES ASSUME x \in startedSessions PROVE FALSE
    OBVIOUS
  <2> DEFINE n == x[1]
  <2>1. n \in graph.nodes /\ d \in graph.deps[n]
    BY <1>19 DEF NextNodes
  <2>2. graph.kind[n] \in {"ENTRY", "EXIT"}
    BY <1>13, <1>19
  <2>3. graph.kind[n] # "ENTRY"
    BY <2>1 DEF IsGraph
  <2>4. n = ExitOf(graph) /\ KeyStack(graph, n) = <<>>
    <3> HIDE DEF n, d, meta
    <3>1. /\ ExitOf(graph) \in graph.nodes /\ graph.kind[ExitOf(graph)] = "EXIT"
          /\ \A m \in graph.nodes : graph.kind[m] = "EXIT" => m = ExitOf(graph)
      BY <1>14, OneOfKind DEF validate
    <3>2. n = ExitOf(graph)
      BY <2>1, <2>2, <2>3, <3>1
    <3>3. KeyStack(graph, ExitOf(graph)) = <<>>
      BY <1>14, <3>1, KeyStacks DEF validate
    <3> QED
      BY <3>2, <3>3
  <2>5. x = <<n, x[2]>> /\ IsMeta(graph, sh, x[2], KeyStack(graph, n))
    BY <1>15 DEF SessionOf
  <2>6. x[2] = <<>>
    BY <2>4, <2>5, FitsNothing DEF IsMeta, LevelsOK
  <2> DEFINE m == results[1].meta
             y == <<n, d, m>>
             G == graph.gatherFrom[n]
  <2> HIDE DEF n, d, meta
  <2>7. Sendable(graph, sh, n, d, results)
    BY <1>14, <2>1, HandedSendable
  <2>8. 1 \in 1 .. Len(results)
    BY <1>14
  <2>9. SentOK(graph, sh, y)
    BY <2>7, <2>8 DEF Sendable
  <2>10. ~MadeBy(graph, sh, finishedSessions, d, m)
    BY <1>18, <2>8 DEF NewlyMade
  <2>11. y[1] = n /\ y[2] = d /\ y[3] = m
    OBVIOUS
  <2> HIDE DEF m, y
  <2>12. y \notin was
    BY <2>10, <2>11 DEF SentOf, was
  <2>13. SessionsOK(graph, nodeSessions, was, startedSessions)
    BY <1>14 DEF OKState
  <2>14. KeyOf(graph, y) \notin startedSessions
    BY <1>14, <1>17, <2>9, <2>12, <2>13, NotStarted
  <2>15. IsMeta(graph, sh, m, Stack(graph, n))
    BY <2>9, <2>11 DEF SentOK
  <2>16. G = graph.gatherFrom[n]
    OBVIOUS
  <2> HIDE DEF G
  <2>17. KeyIs(graph, sh, n, m, G)
    BY <1>14, <2>1, <2>15, <2>16, MetaKey
  <2> DEFINE c == Collapsed(m, G)
  <2>18. IsMeta(graph, sh, c, KeyStack(graph, n))
    BY <2>17 DEF KeyIs
  <2> HIDE DEF c
  <2>19. c = <<>>
    BY <2>4, <2>18, FitsNothing DEF IsMeta, LevelsOK
  <2>20. KeyOf(graph, y) = <<n, c>>
    BY <2>11, <2>16 DEF KeyOf, c
  <2> QED
    BY <2>5, <2>6, <2>14, <2>19, <2>20
<1>20. FlightReady' /\ FlightEnd'
  BY <1>1, <1>2, <1>19 DEF FlightReady, FlightEnd
<1>21. FlightInv'
  BY <1>1, <1>9, <1>10, <1>20, FetchKeeps DEF Fetch
<1>22. ASSUME firstErrorStatus' = "OK" PROVE OKState'
  <2>1. k = Len(SetToSeq(NextNodes(d)))
    BY <1>4, <1>22
  <2>2. /\ Len(ns) = k /\ k \in Nat /\ {ns[i] : i \in 1 .. k} = NextNodes(d)
    <3> HIDE DEF d
    <3> QED
      BY <1>3, <2>1, NextIs DEF ns
  <2>3. NextNodes(d) = {n \in graph.nodes : d \in graph.deps[n]}
    BY DEF NextNodes
  <2>4. SentOf(graph, sh, finishedSessions \cup {<<d, meta>>}) = was \cup sent
    <3> HIDE DEF d, meta
    <3>1. AllNext(graph, d, ns, k) /\ k \in Nat
      BY <2>2, <2>3 DEF AllNext
    <3>2. SentOf(graph, sh, finishedSessions \cup {<<d, meta>>})
            = SentOf(graph, sh, finishedSessions) \cup SentTo(ns, d, results, k)
      BY <1>14, <1>18, <3>1, SentMore
    <3> QED
      BY <3>2 DEF was, sent
  <2>5. SessionsOK(graph, nodeSessions', SentOf(graph, sh, finishedSessions'), startedSessions)
    BY <1>2, <1>10, <1>14, <2>4
  <2>6. late' = {}
    <3>1. late = {}
      BY DEF OKState
    <3>2. s \notin DOMAIN inference
      BY <1>1 DEF Fetch, FetchEntry, FetchDL, FetchCustom, FetchExit, WaitForResult, FlightInv, FlightInference
    <3> QED
      BY <1>1, <3>1, <3>2
  <2> QED
    BY <1>1, <1>13, <1>14, <1>15, <2>5, <2>6 DEF OKState, sh
<1> QED
  BY <1>21, <1>22

-----------------------------------------------------------------------------
(***************************************************************************)
(* Every step of an execution keeps the invariant; the theorems            *)
(***************************************************************************)

ExecutionInv == IsGraph(graph) /\ FlightInv /\ OKInv

\* Nothing has been started yet.
LEMMA ExecutionStarts ==
    ASSUME ExecutionInit
    PROVE  ExecutionInv
<1>1. IsGraph(graph)
  BY GraphsAssumption DEF ExecutionInit
<1>2. /\ stage = "validate" /\ startedSessions = {} /\ finishedSessions = {} /\ todo = {} /\ ready = {} /\ at = 1
      /\ firstErrorStatus = "OK" /\ shards = graph.demultiplyCount /\ late = {}
  BY DEF ExecutionInit
<1>3. finishedNodeQueue = <<>> /\ deferred = <<>> /\ tmpDeferred = <<>>
  BY DEF ExecutionInit
<1>4. nodeSessions = <<>> /\ inference = <<>>
  BY DEF ExecutionInit
<1>5. Once(<<>>) /\ ToSet(<<>>) = {}
  BY OnceFew DEF OnceOf
<1>6. <<>> = [x \in DOMAIN <<>> |-> <<>>[x]] /\ DOMAIN <<>> = {}
  OBVIOUS
<1>7. Sessions(nodeSessions) /\ inference = [x \in DOMAIN inference |-> inference[x]]
      /\ DOMAIN nodeSessions = {} /\ DOMAIN inference = {}
  BY <1>4, <1>6 DEF Sessions
<1>8. Queued = {} /\ Waiters = {}
  BY <1>3, <1>5 DEF Queued, Waiters
<1>9. FlightTypes
  BY <1>2, <1>3, <1>5, <1>7, <1>8, FS_EmptySet DEF FlightTypes
<1>10. FlightInference /\ FlightDeferred /\ FlightReady /\ FlightEnd
  BY <1>2, <1>7, <1>8 DEF FlightInference, FlightDeferred, FlightReady, FlightEnd
<1> QED
  BY <1>1, <1>2, <1>9, <1>10 DEF ExecutionInv, FlightInv, OKInv

\* While no error has occurred, a step that neither starts nor finishes a
\* session leaves what holds then.
LEMMA OKSame ==
    ASSUME OKInv, stage \notin {"validate", "rejected"}, firstErrorStatus' = "OK" => firstErrorStatus = "OK",
           SameHeld(nodeSessions, nodeSessions'),
           UNCHANGED <<graph, startedSessions, finishedSessions, shards, late>>
    PROVE  OKInv'
BY OKStays DEF OKInv

\* The steps of the thread that finish a session.
LEMMA FinishKeeps ==
    ASSUME ExecutionInv, NEW s, ReleaseFinished(s) \/ FetchFails(s) \/ FetchResults(s) \/ FetchResponse(s)
    PROVE  ExecutionInv'
<1> USE DEF ExecutionInv
<1>1. stage = "pull" /\ graph' = graph
  BY DEF ReleaseFinished, FetchFails, FetchResults, FetchResponse, Fetch, Take
<1>2. CASE ReleaseFinished(s)
  <2>1. firstErrorStatus' # "OK"
    BY <1>2 DEF ReleaseFinished
  <2> QED
    BY <1>1, <1>2, <2>1, ReleaseKeeps DEF OKInv
<1>3. CASE FetchFails(s)
  <2>1. firstErrorStatus' # "OK"
    BY <1>3 DEF FetchFails
  <2> QED
    BY <1>1, <1>3, <2>1, FetchFailsKeeps DEF OKInv
<1>4. ASSUME FetchResults(s) \/ FetchResponse(s) PROVE firstErrorStatus = "OK" /\ OKState
  BY <1>1, <1>4 DEF FetchResults, FetchResponse, Fetch, OKInv
<1>5. CASE FetchResults(s)
  BY <1>1, <1>4, <1>5, FetchResultsIs DEF OKInv
<1>6. CASE FetchResponse(s)
  BY <1>1, <1>4, <1>6, FetchResponseKeeps, FetchResponseOK DEF OKInv
<1> QED
  BY <1>2, <1>3, <1>5, <1>6

\* The steps of the thread that try a deferred session.
LEMMA DeferredKeeps ==
    ASSUME ExecutionInv, TryDeferred
    PROVE  ExecutionInv'
<1> USE DEF ExecutionInv
<1>1. /\ stage \in {"deferred", "retry"} /\ at <= Len(deferred)
      /\ UNCHANGED <<graph, startedSessions, finishedSessions, shards, late>>
  BY DEF TryDeferred
<1> DEFINE s == deferred[at]
<1>2. Start(s) \/ (Quiet /\ UNCHANGED nodeSessions)
  BY DEF TryDeferred
<1>3. firstErrorStatus' = "OK" => firstErrorStatus = "OK"
  BY <1>2 DEF Start, InferenceFails, executeInference, Quiet, Fail
<1>4. SameHeld(nodeSessions, nodeSessions')
  <2>1. CASE Start(s)
    <3>1. Taken(s)
      BY <2>1 DEF Start, InferenceFails, executeInference
    <3> HIDE DEF s
    <3>2. "got" \in Guards /\ Sessions(nodeSessions)
      BY DEF Guards, FlightInv, FlightTypes
    <3> DEFINE u == TRUE
               gd == "got"
    <3>3. Turned(nodeSessions, nodeSessions', s, u, gd)
      BY <3>1, <3>2, Turns DEF Taken
    <3>4. s \in DOMAIN nodeSessions => (nodeSessions[s].isUsed => u)
      OBVIOUS
    <3> HIDE DEF u, gd
    <3> QED
      BY <3>3, <3>4, TurnedHeld
  <2>2. CASE UNCHANGED nodeSessions
    <3>1. SameHeld(nodeSessions, nodeSessions)
      BY SameItself
    <3> QED
      BY <2>2, <3>1
  <2> QED
    BY <1>2, <2>1, <2>2
<1>5. OKInv'
  BY <1>1, <1>3, <1>4, OKSame
<1> QED
  BY <1>1, <1>5, TryDeferredKeeps

\* The steps of the thread.
LEMMA ThreadKeeps ==
    ASSUME ExecutionInv, Thread
    PROVE  ExecutionInv'
<1>1. IsGraph(graph) /\ FlightInv /\ OKInv
  BY DEF ExecutionInv
<1>2. ASSUME NEW s \in ToSet(finishedNodeQueue), ReleaseFinished(s) \/ FetchFails(s) \/ FetchResults(s) \/ FetchResponse(s)
      PROVE  ExecutionInv'
  BY <1>2, FinishKeeps
<1>3. ASSUME nodeSessions' = nodeSessions, UNCHANGED <<graph, startedSessions, finishedSessions, shards, late, firstErrorStatus>>,
             stage \notin {"validate", "rejected"}
      PROVE  OKInv'
  <2>1. SameHeld(nodeSessions, nodeSessions)
    BY SameItself
  <2>2. SameHeld(nodeSessions, nodeSessions')
    BY <1>3, <2>1
  <2> QED
    BY <1>1, <1>3, <2>2, OKSame
<1>4. ASSUME NEW n \in todo, TryNode(n) PROVE ExecutionInv'
  BY <1>1, <1>3, <1>4, TryNodeKeeps DEF TryNode, ExecutionInv
<1>5. ASSUME NEW s \in ready, TryReady(s) PROVE ExecutionInv'
  <2>1. stage = "next" /\ graph' = graph
    BY <1>5 DEF TryReady
  <2>2. PICK u \in BOOLEAN, gd \in Guards : Outcome(s, u, gd)
    BY <1>1, <1>5, TryReadyIs
  <2>3. firstErrorStatus' = "OK" => firstErrorStatus = "OK"
    BY <2>2 DEF Outcome, Pushed, Running, Deferring
  <2>4. firstErrorStatus' = "OK" => OKState'
    BY <1>1, <1>5, <2>1, <2>3, OKTryReady DEF OKInv
  <2> QED
    BY <1>1, <1>5, <2>1, <2>4, TryReadyKeeps DEF OKInv, ExecutionInv
<1>6. CASE NextNodesTried
  BY <1>1, <1>3, <1>6, NextNodesTriedKeeps DEF NextNodesTried, ExecutionInv
<1>7. CASE TryDeferred
  BY <1>7, DeferredKeeps
<1>8. CASE Merge
  BY <1>1, <1>3, <1>8, MergeKeeps DEF Merge, ExecutionInv
<1>9. CASE EndRetry
  BY <1>1, <1>3, <1>9, EndRetryKeeps DEF EndRetry, ExecutionInv, tvars
<1>10. CASE Timeout
  BY <1>1, <1>3, <1>10, TimeoutKeeps DEF Timeout, ExecutionInv
<1>11. CASE tryDisarm
  <2>1. graph' = graph /\ firstErrorStatus' = firstErrorStatus /\ stage = "disarm"
    BY <1>11 DEF tryDisarm
  <2>2. firstErrorStatus # "OK"
    BY <1>1, <2>1 DEF FlightInv, FlightDeferred
  <2> QED
    BY <1>1, <1>11, <2>1, <2>2, tryDisarmKeeps DEF OKInv, ExecutionInv
<1>12. CASE EndDisarm
  BY <1>1, <1>3, <1>12, EndDisarmKeeps DEF EndDisarm, ExecutionInv, tvars
<1> QED
  BY <1>2, <1>4, <1>5, <1>6, <1>7, <1>8, <1>9, <1>10, <1>11, <1>12 DEF Thread

\* Every step of the execution.
LEMMA ExecutionKeeps ==
    ASSUME ExecutionInv, [ExecutionNext]_executionVars
    PROVE  ExecutionInv'
<1>1. IsGraph(graph) /\ FlightInv /\ OKInv
  BY DEF ExecutionInv
<1>2. ASSUME UNCHANGED <<graph, stage, nodeSessions, tvars, firstErrorStatus, shards, late>> PROVE OKInv'
  <2>1. UNCHANGED <<graph, stage, nodeSessions, startedSessions, finishedSessions, firstErrorStatus, shards, late>>
    BY <1>2 DEF tvars
  <2>2. SameHeld(nodeSessions, nodeSessions)
    BY SameItself
  <2>3. SameHeld(nodeSessions, nodeSessions')
    BY <2>1, <2>2
  <2>4. CASE stage \in {"validate", "rejected"}
    BY <2>1, <2>4 DEF OKInv
  <2> QED
    BY <1>1, <2>1, <2>3, <2>4, OKSame
<1>3. CASE Validate
  <2>1. FlightInv' /\ FirstIs /\ graph' = graph
    BY <1>1, <1>3, ValidateKeeps DEF Validate
  <2>2. OKState'
    BY <1>1, <1>3, <2>1, OKStarts
  <2> QED
    BY <1>1, <2>1, <2>2 DEF OKInv, ExecutionInv
<1>4. CASE Reject
  <2>1. stage' = "rejected" /\ graph' = graph
    BY <1>4 DEF Reject
  <2> QED
    BY <1>1, <1>4, <2>1, RejectKeeps DEF OKInv, ExecutionInv
<1>5. CASE Thread
  BY <1>5, ThreadKeeps
<1>6. ASSUME NEW s \in DOMAIN inference, Callback(s) PROVE ExecutionInv'
  <2>1. UNCHANGED <<graph, stage, nodeSessions, startedSessions, finishedSessions, firstErrorStatus, shards, late>>
    BY <1>6 DEF Callback
  <2>2. SameHeld(nodeSessions, nodeSessions)
    BY SameItself
  <2>3. SameHeld(nodeSessions, nodeSessions')
    BY <2>1, <2>2
  <2>4. OKInv'
    <3>1. CASE stage \in {"validate", "rejected"}
      BY <2>1, <3>1 DEF OKInv
    <3> QED
      BY <1>1, <2>1, <2>3, <3>1, OKSame
  <2> QED
    BY <1>1, <1>6, <2>1, <2>4, CallbackKeeps DEF ExecutionInv
<1>7. ASSUME NEW s \in DOMAIN inference, EndCallback(s) PROVE ExecutionInv'
  BY <1>1, <1>2, <1>7, EndCallbackKeeps DEF EndCallback, ExecutionInv
<1>8. ASSUME NEW s \in DOMAIN nodeSessions, Grant(s) PROVE ExecutionInv'
  <2>1. /\ UNCHANGED <<graph, stage, startedSessions, finishedSessions, firstErrorStatus, shards, late>>
        /\ stage \notin {"validate", "rejected"} /\ nodeSessions' = [nodeSessions EXCEPT ![s].guard = "ready"]
    BY <1>8 DEF Grant, tvars
  <2> DEFINE u == nodeSessions[s].isUsed
             gd == "ready"
  <2>2. gd \in Guards /\ Sessions(nodeSessions)
    BY <1>1 DEF Guards, FlightInv, FlightTypes
  <2>3. Turned(nodeSessions, nodeSessions', s, u, gd)
    BY <2>1, <2>2, Turns
  <2>4. s \in DOMAIN nodeSessions => (nodeSessions[s].isUsed => u)
    OBVIOUS
  <2> HIDE DEF u, gd
  <2>5. SameHeld(nodeSessions, nodeSessions')
    BY <2>3, <2>4, TurnedHeld
  <2>6. OKInv'
    BY <1>1, <2>1, <2>5, OKSame
  <2> QED
    BY <1>1, <1>8, <2>1, <2>6, GrantKeeps DEF ExecutionInv
<1>9. ASSUME UNCHANGED <<graph, stage, nodeSessions, tvars, firstErrorStatus, inference, shards, late>> PROVE ExecutionInv'
  BY <1>1, <1>2, <1>9, OthersMove DEF ExecutionInv
<1>10. CASE OthersTake
  BY <1>9, <1>10 DEF OthersTake
<1>11. CASE OthersReturn
  BY <1>9, <1>11 DEF OthersReturn
<1>12. CASE Done
  BY <1>9, <1>12 DEF Done, executionVars
<1>13. CASE UNCHANGED executionVars
  BY <1>9, <1>13 DEF executionVars
<1> QED
  BY <1>3, <1>4, <1>5, <1>6, <1>7, <1>8, <1>10, <1>11, <1>12, <1>13 DEF ExecutionNext, InferenceEnds, Granted

\* Everything the pipeline returns with has been given back.
LEMMA InvGivesBack ==
    ASSUME ExecutionInv
    PROVE  GivesBackInTime /\ firstErrorStatus # "internal"
<1>1. FlightInv /\ OKInv
  BY DEF ExecutionInv
<1>2. stage # "threw" /\ firstErrorStatus # "internal"
  BY <1>1 DEF FlightInv, FlightEnd, FlightTypes
<1>3. ASSUME stage = "returned"
      PROVE  /\ \A s \in DOMAIN nodeSessions : nodeSessions[s].guard # "waiting"
             /\ \A s \in DOMAIN inference : inference[s] # "running"
             /\ finishedNodeQueue = <<>>
  <2>1. finishedSessions = startedSessions
    BY <1>1, <1>3 DEF FlightInv, FlightEnd
  <2>2. Queued = {} /\ \A x \in Waiters : x \in finishedSessions
    BY <1>1, <2>1 DEF FlightInv, FlightTypes
  <2>3. finishedNodeQueue = <<>>
    BY <1>1, <2>2, OnceHas DEF FlightInv, FlightTypes, Queued
  <2>4. ASSUME NEW s \in DOMAIN nodeSessions, nodeSessions[s].guard = "waiting" PROVE FALSE
    <3>1. s \in Waiters
      BY <1>1, <2>4 DEF FlightInv, FlightDeferred
    <3>2. Waits(s) /\ s \in finishedSessions
      BY <1>1, <2>2, <3>1 DEF FlightInv, FlightDeferred
    <3> QED
      BY <2>2, <2>4, <3>2 DEF Waits
  <2>5. ASSUME NEW s \in DOMAIN inference, inference[s] = "running" PROVE FALSE
    BY <1>1, <2>1, <2>5 DEF FlightInv, FlightInference
  <2> QED
    BY <2>3, <2>4, <2>5
<1>4. firstErrorStatus = "OK" => late = {}
  BY <1>1 DEF OKInv, OKState, FlightInv, FlightEnd
<1> QED
  BY <1>2, <1>3, <1>4 DEF GivesBackInTime

\* The sessions of an execution and what they hold: the invariant is kept.
THEOREM ExecutionIsInv == ExecutionSpec => []ExecutionInv
<1>1. ExecutionInit => ExecutionInv
  BY ExecutionStarts
<1>2. ExecutionInv /\ [ExecutionNext]_executionVars => ExecutionInv'
  BY ExecutionKeeps
<1> QED
  BY <1>1, <1>2, PTL DEF ExecutionSpec

\* A session gives back its stream, its guard and its inference, on every path
\* and before the pipeline returns.
THEOREM ExecutionGivesBack == ExecutionSpec => []GivesBackInTime
<1>1. ExecutionInv => GivesBackInTime
  BY InvGivesBack
<1> QED
  BY <1>1, ExecutionIsInv, PTL

\* A pipeline that passed the validation never runs into an error that only a
\* wrong graph can cause.
THEOREM ValidatedRuns == ExecutionSpec => [](firstErrorStatus # "internal")
<1>1. ExecutionInv => firstErrorStatus # "internal"
  BY InvGivesBack
<1> QED
  BY <1>1, ExecutionIsInv, PTL
==============================================================================
