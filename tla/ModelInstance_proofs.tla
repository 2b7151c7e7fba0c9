------------------------ MODULE ModelInstance_proofs ------------------------
(***************************************************************************)
(* Theorems about one served version of a model, for any number of predict *)
(* threads and any batch sizes, configurations and directories.            *)
(***************************************************************************)
EXTENDS ModelInstance, FiniteSetTheorems, TLAPS

HoldersOf(f) == {p \in Predicts : f[p] \in Guarding}

(***************************************************************************)
(* The inductive invariant.  NoUseWhileLoading, InferenceFitsModel,        *)
(* AvailableIsComplete and EndIsUnloaded hold because of what is true      *)
(* between the steps of the loading thread:                                *)
(***************************************************************************)

\* the handles count is the number of predict threads with a guard;
GuardsCounted == predictRequestsHandlesCount = Cardinality(HoldersOf(pc))

\* the owner of loadingMutex is the thread the current job belongs to;
OwnerOK ==
    /\ loadingMutex = None <=> stage = "none"
    /\ \A p \in Predicts : pc[p] = "reload" <=> loadingMutex = p
    /\ stage # "none" => (job.attempt = "manager" <=> loadingMutex = Manager)
    /\ stage \in {"drainToUnload", "unload"} /\ job.after \in {"end", "return"}
           => loadingMutex = Manager

\* a job that loads has a configuration, and a dynamic reload has the batch
\* size of its request;
JobOK ==
    /\ stage \notin {"none", "drainToUnload", "unload"} => job.cfg \in Configs
    /\ job.after \in {"impl", "reload"} => job.cfg \in Configs
    /\ \A p \in Predicts :
           loadingMutex = p /\ job.attempt \in {"dynamic", "full"} => job.batch = batch[p]

\* the status tells the predict threads what the loading thread does;
StatusOK ==
    /\ stage \notin {"none", "loaded"} => state # "AVAILABLE"
    /\ stage = "loaded" => state = "AVAILABLE"
    /\ stage # "none" => state \notin {"START", "END"}
    /\ state = "START" => \A p \in Predicts : pc[p] \notin Using \cup {"lock"}
    /\ order # None /\ order.op = "load" => state = "START" \/ loadingMutex = Manager

\* the components are produced one after the other, and a thread that uses
\* them has seen all of them.
ComponentsOK ==
    /\ stage = "read" /\ config.loader = None => modelFile # None
    /\ stage \in {"tensors", "compile", "queue"} => model # None
    /\ stage = "queue" => compiledModel = model
    /\ stage \in {"compile", "queue", "loaded"} /\ job.batch # None => model.batch = job.batch
    /\ \A p \in Predicts : pc[p] \in Using => model # None /\ inferRequestsQueue = model
    /\ \A p \in Predicts : pc[p] = "infer" => model.batch = batch[p]

Shape == OwnerOK /\ JobOK /\ StatusOK /\ ComponentsOK
Promises == NoUseWhileLoading /\ AvailableIsComplete /\ EndIsUnloaded
IInv == TypeOK /\ GuardsCounted /\ Shape /\ Promises

-----------------------------------------------------------------------------
(***************************************************************************)
(* Counting the guards                                                     *)
(***************************************************************************)

\* A thread that takes a guard raises the number of guards by one.
LEMMA OneMoreHolder ==
    ASSUME NEW f \in [Predicts -> Places], NEW p \in Predicts, f[p] \notin Guarding,
           NEW place \in Guarding
    PROVE  Cardinality(HoldersOf([f EXCEPT ![p] = place])) = Cardinality(HoldersOf(f)) + 1
<1>1. HoldersOf([f EXCEPT ![p] = place]) = HoldersOf(f) \cup {p} /\ p \notin HoldersOf(f)
    BY DEF HoldersOf
<1>2. IsFiniteSet(HoldersOf(f))
    BY PredictsAssumption, FS_Subset DEF HoldersOf
<1> QED
    BY <1>1, <1>2, FS_AddElement

\* A thread that drops its guard lowers it by one.
LEMMA OneHolderLess ==
    ASSUME NEW f \in [Predicts -> Places], NEW p \in Predicts, f[p] \in Guarding,
           NEW place \in Places \ Guarding
    PROVE  Cardinality(HoldersOf([f EXCEPT ![p] = place])) = Cardinality(HoldersOf(f)) - 1
<1>1. HoldersOf([f EXCEPT ![p] = place]) = HoldersOf(f) \ {p} /\ p \in HoldersOf(f)
    BY DEF HoldersOf, Guarding
<1>2. IsFiniteSet(HoldersOf(f))
    BY PredictsAssumption, FS_Subset DEF HoldersOf
<1> QED
    BY <1>1, <1>2, FS_RemoveElement

\* A thread that neither takes nor drops one leaves it alone.
LEMMA SameHolders ==
    ASSUME NEW f \in [Predicts -> Places], NEW p \in Predicts, NEW place \in Places,
           (f[p] \in Guarding) = (place \in Guarding)
    PROVE  Cardinality(HoldersOf([f EXCEPT ![p] = place])) = Cardinality(HoldersOf(f))
<1>1. HoldersOf([f EXCEPT ![p] = place]) = HoldersOf(f)
    BY DEF HoldersOf
<1> QED
    BY <1>1

\* When the count is zero nobody has a guard: what canUnloadInstance tells
\* the loading thread.
LEMMA NobodyHolds ==
    ASSUME GuardsCounted, CanUnloadInstance
    PROVE  \A p \in Predicts : pc[p] \notin Guarding
<1>1. IsFiniteSet(HoldersOf(pc))
    BY PredictsAssumption, FS_Subset DEF HoldersOf
<1>2. HoldersOf(pc) = {}
    BY <1>1, FS_EmptySet DEF GuardsCounted, CanUnloadInstance
<1> QED
    BY <1>2 DEF HoldersOf

\* The count follows the guards: every path through waitForLoaded, validation,
\* a dynamic reload and an inference drops what it took.
LEMMA CountStep == TypeOK /\ GuardsCounted /\ OwnerOK /\ [Next]_vars => GuardsCounted'
<1> SUFFICES ASSUME TypeOK, GuardsCounted, OwnerOK, [Next]_vars PROVE GuardsCounted'
    OBVIOUS
<1>pc. pc \in [Predicts -> Places] /\ predictRequestsHandlesCount \in Nat
    BY DEF TypeOK
<1> USE DEF GuardsCounted
<1>1. ASSUME UNCHANGED <<pc, predictRequestsHandlesCount>> PROVE GuardsCounted'
    BY <1>1
\* Steps that take a guard.
<1>2. ASSUME NEW p \in Predicts,
             \/ \E b \in Batches : Arrive(p, b)
             \/ Poll(p)
             \/ DynamicReloadDone(p)
      PROVE  GuardsCounted'
  <2>1. pc[p] \notin Guarding
    BY <1>2 DEF Arrive, Poll, DynamicReloadDone, OwnerOK, Guarding
  <2>2. TakeGuard /\ (Goto(p, "check") \/ Goto(p, "recheck") \/ Goto(p, "infer"))
    BY <1>2 DEF Arrive, Poll, DynamicReloadDone
  <2>3. PICK place \in Guarding : pc' = [pc EXCEPT ![p] = place]
    BY <2>2 DEF Goto, Guarding
  <2> QED
    BY <1>pc, <2>1, <2>2, <2>3, OneMoreHolder DEF TakeGuard
\* Steps that drop one.
<1>3. ASSUME NEW p \in Predicts,
             FindUnavailable(p) \/ ReloadRequired(p) \/ Invalid(p) \/ InferenceDone(p)
      PROVE  GuardsCounted'
  <2>1. pc[p] \in Guarding
    BY <1>3 DEF FindUnavailable, ReloadRequired, Invalid, InferenceDone, Guarding
  <2>2. DropGuard /\ (Goto(p, "wait") \/ Goto(p, "giveUp") \/ Goto(p, "lock") \/ Goto(p, "idle"))
    BY <1>3 DEF FindUnavailable, ReloadRequired, Invalid, InferenceDone
  <2>3. PICK place \in Places \ Guarding : pc' = [pc EXCEPT ![p] = place]
    BY <2>2 DEF Goto, Guarding, Places
  <2> QED
    BY <1>pc, <2>1, <2>2, <2>3, OneHolderLess DEF DropGuard
\* Steps of a predict thread that do neither.
<1>4. ASSUME NEW p \in Predicts,
             \/ FindAvailable(p) \/ ValidateOK(p)
             \/ GiveUp(p) \/ TimeOut(p) \/ ReloadModelDynamic(p) \/ RecoveryDone(p)
      PROVE  GuardsCounted'
  <2>1. predictRequestsHandlesCount' = predictRequestsHandlesCount
    BY <1>4 DEF FindAvailable, ValidateOK, GiveUp, TimeOut, ReloadModelDynamic, RecoveryDone
  <2>2. PICK place \in Places : /\ pc' = [pc EXCEPT ![p] = place]
                               /\ (pc[p] \in Guarding) = (place \in Guarding)
    BY <1>4 DEF FindAvailable, ValidateOK, GiveUp, TimeOut, ReloadModelDynamic, RecoveryDone,
                Goto, Guarding, Places, OwnerOK
  <2>3. Cardinality(HoldersOf([pc EXCEPT ![p] = place])) = Cardinality(HoldersOf(pc))
    BY <1>pc, <2>2, SameHolders
  <2> QED
    BY <2>1, <2>2, <2>3
\* Steps of the manager and of the thread that loads.
<1>5. ASSUME \/ \E c \in Configs : DecideReload(c)
             \/ \E op \in {"load", "retire", "cleanup"} : Decide(op)
             \/ Begin \/ Load
             \/ Drained \/ DrainedToUnload \/ UnloadModelComponents \/ ReturnToManager
             \/ \E p \in Predicts : RetryReload(p)
             \/ UNCHANGED vars
      PROVE  GuardsCounted'
  <2>1. UNCHANGED <<pc, predictRequestsHandlesCount>>
    BY <1>5 DEF DecideReload, Decide, Begin, LoadModel, ReloadModel, RetireModel,
                CleanupFailedLoad, Load, FetchModelFiles, ReadModel, LoadTensors, CompileModel,
                PrepareQueue, Drained, DrainedToUnload, UnloadModelComponents,
                ReturnToManager, RetryReload, predict, vars
  <2> QED
    BY <1>1, <2>1
<1> QED
    BY <1>2, <1>3, <1>4, <1>5 DEF Next, Loading, Serve

-----------------------------------------------------------------------------
(***************************************************************************)
(* The other parts of the invariant, one lemma each                        *)
(***************************************************************************)

\* loadingMutex, the stage and the job change hands together.
LEMMA OwnerStep == TypeOK /\ OwnerOK /\ [Next]_vars => OwnerOK'
<1> SUFFICES ASSUME TypeOK, OwnerOK, [Next]_vars PROVE OwnerOK'
    OBVIOUS
<1> USE NoneAssumption, ManagerAssumption
    DEF TypeOK, OwnerOK, Goto, Lock, Unlock, NoJob, manager, predict, components, status
<1>1. CASE UNCHANGED vars
    BY <1>1 DEF vars
<1>2. CASE \/ \E c \in Configs : DecideReload(c)
           \/ \E op \in {"load", "retire", "cleanup"} : Decide(op)
    BY <1>2 DEF DecideReload, Decide
<1>3. CASE Begin
    BY <1>3 DEF Begin, LoadModel, ReloadModel, RetireModel, CleanupFailedLoad
<1>4. CASE Drained \/ DrainedToUnload
    BY <1>4 DEF Drained, DrainedToUnload, Jobs
<1>5. CASE UnloadModelComponents
    BY <1>5 DEF UnloadModelComponents
<1>6. CASE Load
    BY <1>6 DEF Load, FetchModelFiles, ReadModel, LoadTensors, CompileModel, PrepareQueue, Step, Fail
<1>7. CASE ReturnToManager
    BY <1>7 DEF ReturnToManager
<1>8. ASSUME NEW p \in Predicts, DynamicReloadDone(p) \/ RecoveryDone(p) PROVE OwnerOK'
    BY <1>8 DEF DynamicReloadDone, RecoveryDone
<1>9. ASSUME NEW p \in Predicts, RetryReload(p) PROVE OwnerOK'
    BY <1>9 DEF RetryReload, Jobs
<1>10. ASSUME NEW p \in Predicts, ReloadModelDynamic(p) PROVE OwnerOK'
    BY <1>10 DEF ReloadModelDynamic
<1>11. ASSUME NEW p \in Predicts, Serve(p) \/ \E b \in Batches : Arrive(p, b) PROVE OwnerOK'
    BY <1>11 DEF Serve, FindAvailable, FindUnavailable, Poll, GiveUp, TimeOut, ValidateOK,
                 ReloadRequired, Invalid, InferenceDone, Arrive
<1> QED
    BY <1>1, <1>2, <1>3, <1>4, <1>5, <1>6, <1>7, <1>8, <1>9, <1>10, <1>11 DEF Next, Loading

\* The job of the loading thread stays complete: reloadModel hands the
\* configuration and the batch size of the request on to every attempt.
LEMMA JobStep == TypeOK /\ OwnerOK /\ JobOK /\ [Next]_vars => JobOK'
<1> SUFFICES ASSUME TypeOK, OwnerOK, JobOK, [Next]_vars PROVE JobOK'
    OBVIOUS
<1> USE NoneAssumption, ManagerAssumption
    DEF TypeOK, OwnerOK, JobOK, Goto, Lock, Unlock, NoJob, manager, predict, components, status
<1>1. CASE UNCHANGED vars
    BY <1>1 DEF vars
<1>2. CASE \/ \E c \in Configs : DecideReload(c)
           \/ \E op \in {"load", "retire", "cleanup"} : Decide(op)
    BY <1>2 DEF DecideReload, Decide
<1>3. CASE Begin
    BY <1>3 DEF Begin, LoadModel, ReloadModel, RetireModel, CleanupFailedLoad, Orders
<1>4. CASE Drained \/ DrainedToUnload
    BY <1>4 DEF Drained, DrainedToUnload, Jobs
<1>5. CASE UnloadModelComponents
    BY <1>5 DEF UnloadModelComponents
<1>6. CASE Load
    BY <1>6 DEF Load, FetchModelFiles, ReadModel, LoadTensors, CompileModel, PrepareQueue, Step, Fail
<1>7. CASE ReturnToManager
    BY <1>7 DEF ReturnToManager
<1>8. ASSUME NEW p \in Predicts, DynamicReloadDone(p) \/ RecoveryDone(p) PROVE JobOK'
    BY <1>8 DEF DynamicReloadDone, RecoveryDone
<1>9. ASSUME NEW p \in Predicts, RetryReload(p) PROVE JobOK'
    BY <1>9 DEF RetryReload, Jobs
<1>10. ASSUME NEW p \in Predicts, ReloadModelDynamic(p) PROVE JobOK'
    BY <1>10 DEF ReloadModelDynamic
<1>11. ASSUME NEW p \in Predicts, Serve(p) \/ \E b \in Batches : Arrive(p, b) PROVE JobOK'
    BY <1>11 DEF Serve, FindAvailable, FindUnavailable, Poll, GiveUp, TimeOut, ValidateOK,
                 ReloadRequired, Invalid, InferenceDone, Arrive
<1> QED
    BY <1>1, <1>2, <1>3, <1>4, <1>5, <1>6, <1>7, <1>8, <1>9, <1>10, <1>11 DEF Next, Loading

\* The status is changed before the components are and becomes AVAILABLE
\* after the last of them (loadModelImpl, reloadModel, retireModel).
LEMMA StatusStep == TypeOK /\ OwnerOK /\ StatusOK /\ [Next]_vars => StatusOK'
<1> SUFFICES ASSUME TypeOK, OwnerOK, StatusOK, [Next]_vars PROVE StatusOK'
    OBVIOUS
<1> USE NoneAssumption, ManagerAssumption
    DEF TypeOK, OwnerOK, StatusOK, Goto, Lock, Unlock, SetStatus, Using,
        manager, predict, components, status
<1>1. CASE UNCHANGED vars
    BY <1>1 DEF vars
<1>2. CASE \/ \E c \in Configs : DecideReload(c)
           \/ \E op \in {"load", "retire", "cleanup"} : Decide(op)
    BY <1>2 DEF DecideReload, Decide, Orders
<1>3. CASE Begin
    BY <1>3 DEF Begin, LoadModel, ReloadModel, RetireModel, CleanupFailedLoad, Orders
<1>4. CASE Drained \/ DrainedToUnload
    BY <1>4 DEF Drained, DrainedToUnload
<1>5. CASE UnloadModelComponents
    BY <1>5 DEF UnloadModelComponents
<1>6. CASE Load
    BY <1>6 DEF Load, FetchModelFiles, ReadModel, LoadTensors, CompileModel, PrepareQueue, Step, Fail
<1>7. CASE ReturnToManager
    BY <1>7 DEF ReturnToManager
<1>8. ASSUME NEW p \in Predicts, DynamicReloadDone(p) \/ RecoveryDone(p) PROVE StatusOK'
    BY <1>8 DEF DynamicReloadDone, RecoveryDone
<1>9. ASSUME NEW p \in Predicts, RetryReload(p) PROVE StatusOK'
    BY <1>9 DEF RetryReload
<1>10. ASSUME NEW p \in Predicts, ReloadModelDynamic(p) PROVE StatusOK'
    BY <1>10 DEF ReloadModelDynamic
<1>11. ASSUME NEW p \in Predicts, Serve(p) \/ \E b \in Batches : Arrive(p, b) PROVE StatusOK'
    BY <1>11 DEF Serve, FindAvailable, FindUnavailable, Poll, GiveUp, TimeOut, ValidateOK,
                 ReloadRequired, Invalid, InferenceDone, Arrive
<1> QED
    BY <1>1, <1>2, <1>3, <1>4, <1>5, <1>6, <1>7, <1>8, <1>9, <1>10, <1>11 DEF Next, Loading

\* No step produces a component out of order or changes one that a predict
\* thread has seen (loadModelImpl, unloadModelComponents).
LEMMA ComponentsStep ==
    TypeOK /\ Shape /\ NoUseWhileLoading /\ AvailableIsComplete /\ [Next]_vars => ComponentsOK'
<1> SUFFICES ASSUME TypeOK, Shape, NoUseWhileLoading, AvailableIsComplete, [Next]_vars
             PROVE  ComponentsOK'
    OBVIOUS
<1> USE NoneAssumption, ManagerAssumption
    DEF TypeOK, Shape, OwnerOK, ComponentsOK, Goto, Lock, Unlock, Using,
        manager, predict, components, status
<1>1. CASE UNCHANGED vars
    BY <1>1 DEF vars
<1>2. CASE \/ \E c \in Configs : DecideReload(c)
           \/ \E op \in {"load", "retire", "cleanup"} : Decide(op)
    BY <1>2 DEF DecideReload, Decide
<1>3. CASE Begin
    BY <1>3 DEF Begin, LoadModel, ReloadModel, RetireModel, CleanupFailedLoad
<1>4. CASE Drained \/ DrainedToUnload
    BY <1>4 DEF Drained, DrainedToUnload, Jobs
<1>5. CASE UnloadModelComponents
    BY <1>5 DEF UnloadModelComponents, NoUseWhileLoading, Touching
<1>6. CASE FetchModelFiles
    BY <1>6, PathsAssumption, ConfigsAssumption
    DEF FetchModelFiles, JobOK, ConfigType, Step, Fail, NoUseWhileLoading, Touching
<1>7. CASE ReadModel
  <2>1. stage' = "failed" \/ model' \in Loaded
    BY <1>7, ConfigsAssumption, BatchesAssumption DEF ReadModel, ConfigType, Loaded, Fail
  <2> QED
    BY <1>7, <2>1 DEF ReadModel, Step, Fail, NoUseWhileLoading, Touching
<1>8. CASE LoadTensors
  <2>1. model \in Loaded /\ model \in [path : Paths, batch : Batches]
    BY <1>8 DEF LoadTensors, Loaded
  <2>2. /\ stage' = "failed" \/ model' \in Loaded
        /\ stage' = "failed" \/ job.batch = None \/ model'.batch = job.batch
    BY <1>8, <2>1, ConfigsAssumption DEF LoadTensors, ConfigType, Jobs, Loaded, Fail
  <2> QED
    BY <1>8, <2>2 DEF LoadTensors, Step, Fail, NoUseWhileLoading, Touching
<1>9. CASE CompileModel
    BY <1>9 DEF CompileModel, Step, Fail, NoUseWhileLoading, Touching
<1>10. CASE PrepareQueue
    BY <1>10 DEF PrepareQueue, Fail, NoUseWhileLoading, Touching
<1>11. CASE ReturnToManager
    BY <1>11 DEF ReturnToManager
<1>12. ASSUME NEW p \in Predicts, DynamicReloadDone(p) PROVE ComponentsOK'
    BY <1>12, BatchesAssumption DEF DynamicReloadDone, JobOK, StatusOK, AvailableIsComplete
<1>13. ASSUME NEW p \in Predicts, RecoveryDone(p) PROVE ComponentsOK'
    BY <1>13 DEF RecoveryDone
<1>14. ASSUME NEW p \in Predicts, RetryReload(p) PROVE ComponentsOK'
    BY <1>14 DEF RetryReload
<1>15. ASSUME NEW p \in Predicts, ReloadModelDynamic(p) PROVE ComponentsOK'
    BY <1>15 DEF ReloadModelDynamic
<1>16. ASSUME NEW p \in Predicts, FindAvailable(p) PROVE ComponentsOK'
    BY <1>16 DEF FindAvailable, AvailableIsComplete
<1>17. ASSUME NEW p \in Predicts,
              \/ FindUnavailable(p) \/ Poll(p) \/ GiveUp(p) \/ TimeOut(p) \/ ValidateOK(p)
              \/ ReloadRequired(p) \/ Invalid(p) \/ InferenceDone(p)
              \/ \E b \in Batches : Arrive(p, b)
       PROVE  ComponentsOK'
    BY <1>17 DEF FindUnavailable, Poll, GiveUp, TimeOut, ValidateOK, ReloadRequired, Invalid,
                 InferenceDone, Arrive
<1> QED
    BY <1>1, <1>2, <1>3, <1>4, <1>5, <1>6, <1>7, <1>8, <1>9, <1>10, <1>11, <1>12, <1>13,
       <1>14, <1>15, <1>16, <1>17 DEF Next, Loading, Load, Serve

\* Every step keeps the variables in their types.
LEMMA TypeStep == TypeOK /\ GuardsCounted /\ Shape /\ [Next]_vars => TypeOK'
<1> SUFFICES ASSUME TypeOK, GuardsCounted, Shape, [Next]_vars PROVE TypeOK'
    OBVIOUS
<1> USE DEF TypeOK, Goto, Lock, Unlock, SetStatus, manager, predict, components, status, Manager
<1>1. CASE UNCHANGED vars
    BY <1>1 DEF vars
<1>2. CASE \/ \E c \in Configs : DecideReload(c)
           \/ \E op \in {"load", "retire", "cleanup"} : Decide(op)
  <2>1. order' \in Orders
    BY <1>2 DEF DecideReload, Decide, Orders
  <2>2. isCustomLoaderConfigChanged' \in BOOLEAN
    BY <1>2, Zenon DEF DecideReload, Decide
  <2> QED
    BY <1>2, <2>1, <2>2 DEF DecideReload, Decide
<1>3. CASE Begin
    BY <1>3 DEF Begin, LoadModel, ReloadModel, RetireModel, CleanupFailedLoad, NoJob, Jobs,
                Orders, Attempts, Afters, States, ErrorCodes, Stages
<1>4. CASE Drained \/ DrainedToUnload
    BY <1>4 DEF Drained, DrainedToUnload, Jobs, Afters, Stages
<1>5. CASE UnloadModelComponents
    BY <1>5 DEF UnloadModelComponents, NoJob, Jobs, Attempts, Afters, States, ErrorCodes, Stages
<1>6. CASE FetchModelFiles
    BY <1>6, ConfigsAssumption
    DEF FetchModelFiles, Shape, JobOK, ConfigType, Step, Fail, States, ErrorCodes, Stages
<1>7. CASE ReadModel
    BY <1>7, ConfigsAssumption, BatchesAssumption
    DEF ReadModel, Shape, ComponentsOK, ConfigType, Loaded, Step, Fail, States, ErrorCodes, Stages
<1>8. CASE LoadTensors
    BY <1>8, ConfigsAssumption
    DEF LoadTensors, Shape, ComponentsOK, ConfigType, Loaded, Jobs, Step, Fail, States,
        ErrorCodes, Stages
<1>9. CASE CompileModel \/ PrepareQueue
    BY <1>9 DEF CompileModel, PrepareQueue, Step, Fail, States, ErrorCodes, Stages
<1>10. CASE ReturnToManager
    BY <1>10 DEF ReturnToManager, NoJob, Jobs, Attempts, Afters, Stages
<1>11. ASSUME NEW p \in Predicts, DynamicReloadDone(p) \/ RecoveryDone(p) PROVE TypeOK'
    BY <1>11 DEF DynamicReloadDone, RecoveryDone, TakeGuard, NoJob, Jobs, Attempts, Afters,
                 Stages, Places
<1>12. ASSUME NEW p \in Predicts, RetryReload(p) PROVE TypeOK'
  <2>1. job' \in Jobs
    BY <1>12 DEF RetryReload, Jobs, Attempts, Afters
  <2> QED
    BY <1>12, <2>1 DEF RetryReload, States, ErrorCodes, Stages
<1>13. ASSUME NEW p \in Predicts, ReloadModelDynamic(p) PROVE TypeOK'
    BY <1>13 DEF ReloadModelDynamic, NoJob, Jobs, Attempts, Afters, States, ErrorCodes,
                 Stages, Places
<1>14. ASSUME NEW p \in Predicts, \E b \in Batches : Arrive(p, b) PROVE TypeOK'
    BY <1>14 DEF Arrive, TakeGuard, Places
<1>15. ASSUME NEW p \in Predicts,
              FindAvailable(p) \/ Poll(p) \/ GiveUp(p) \/ TimeOut(p) \/ ValidateOK(p)
       PROVE  TypeOK'
    BY <1>15, CheckpointsAssumption
    DEF FindAvailable, Poll, GiveUp, TimeOut, ValidateOK, TakeGuard, Places
\* A guard is dropped only by a thread that has one, so the count was not zero.
<1>16. ASSUME NEW p \in Predicts,
              FindUnavailable(p) \/ ReloadRequired(p) \/ Invalid(p) \/ InferenceDone(p)
       PROVE  TypeOK'
  <2>1. predictRequestsHandlesCount # 0
    BY <1>16, NobodyHolds
    DEF CanUnloadInstance, FindUnavailable, ReloadRequired, Invalid, InferenceDone, Guarding
  <2> QED
    BY <1>16, <2>1, CheckpointsAssumption
    DEF FindUnavailable, ReloadRequired, Invalid, InferenceDone, DropGuard, Places
<1> QED
    BY <1>1, <1>2, <1>3, <1>4, <1>5, <1>6, <1>7, <1>8, <1>9, <1>10, <1>11, <1>12, <1>13,
       <1>14, <1>15, <1>16 DEF Next, Loading, Load, Serve

(***************************************************************************)
(* The promises                                                            *)
(***************************************************************************)

\* A thread starts to write the components only when the count is zero, or
\* when the version was never available; a thread starts to use them only
\* when the version is available, and then nobody writes them.
LEMMA NoUseStep ==
    TypeOK /\ GuardsCounted /\ Shape /\ NoUseWhileLoading /\ [Next]_vars => NoUseWhileLoading'
<1> SUFFICES ASSUME TypeOK, GuardsCounted, Shape, NoUseWhileLoading, [Next]_vars
             PROVE  NoUseWhileLoading'
    OBVIOUS
<1> USE DEF TypeOK, NoUseWhileLoading, Goto, Lock, Unlock, Using, Touching,
            manager, predict, components, status
<1>1. CASE UNCHANGED vars
    BY <1>1 DEF vars
<1>2. CASE \/ \E c \in Configs : DecideReload(c)
           \/ \E op \in {"load", "retire", "cleanup"} : Decide(op)
    BY <1>2 DEF DecideReload, Decide
<1>3. CASE LoadModel
    BY <1>3, ManagerAssumption DEF LoadModel, Shape, StatusOK
<1>4. CASE ReloadModel \/ RetireModel \/ CleanupFailedLoad
    BY <1>4 DEF ReloadModel, RetireModel, CleanupFailedLoad
<1>5. CASE Drained \/ DrainedToUnload
  <2>1. \A p \in Predicts : pc[p] \notin Using
    BY <1>5, NobodyHolds DEF Drained, DrainedToUnload, Guarding
  <2> QED
    BY <1>5, <2>1 DEF Drained, DrainedToUnload
<1>6. CASE UnloadModelComponents \/ Load \/ ReturnToManager
    BY <1>6 DEF UnloadModelComponents, Load, FetchModelFiles, ReadModel, LoadTensors,
                CompileModel, PrepareQueue, Step, Fail, ReturnToManager
<1>7. ASSUME NEW p \in Predicts,
             DynamicReloadDone(p) \/ RecoveryDone(p) \/ RetryReload(p) \/ ReloadModelDynamic(p)
      PROVE  NoUseWhileLoading'
    BY <1>7 DEF DynamicReloadDone, RecoveryDone, RetryReload, ReloadModelDynamic
<1>8. ASSUME NEW p \in Predicts, FindAvailable(p) PROVE NoUseWhileLoading'
    BY <1>8 DEF FindAvailable, Shape, StatusOK
<1>9. ASSUME NEW p \in Predicts,
             \/ FindUnavailable(p) \/ Poll(p) \/ GiveUp(p) \/ TimeOut(p) \/ ValidateOK(p)
             \/ ReloadRequired(p) \/ Invalid(p) \/ InferenceDone(p)
             \/ \E b \in Batches : Arrive(p, b)
      PROVE  NoUseWhileLoading'
    BY <1>9 DEF FindUnavailable, Poll, GiveUp, TimeOut, ValidateOK, ReloadRequired, Invalid,
                InferenceDone, Arrive
<1> QED
    BY <1>1, <1>2, <1>3, <1>4, <1>5, <1>6, <1>7, <1>8, <1>9 DEF Next, Begin, Loading, Serve

\* The components change only while the version is neither available nor at
\* its end, and are complete, or gone, when it gets there.
LEMMA CompleteStep ==
    TypeOK /\ Shape /\ AvailableIsComplete /\ EndIsUnloaded /\ [Next]_vars
        => AvailableIsComplete' /\ EndIsUnloaded'
<1> SUFFICES ASSUME TypeOK, Shape, AvailableIsComplete, EndIsUnloaded, [Next]_vars
             PROVE  AvailableIsComplete' /\ EndIsUnloaded'
    OBVIOUS
<1> USE DEF AvailableIsComplete, EndIsUnloaded, Shape, StatusOK, ComponentsOK, SetStatus,
            manager, components, status
<1>1. ASSUME UNCHANGED <<status, components>> PROVE AvailableIsComplete' /\ EndIsUnloaded'
    BY <1>1
<1>2. ASSUME UNCHANGED components, state' \in {"LOADING", "UNLOADING"}
      PROVE  AvailableIsComplete' /\ EndIsUnloaded'
    BY <1>2
<1>3. CASE Begin \/ \E p \in Predicts : ReloadModelDynamic(p) \/ RetryReload(p)
  <2>1. UNCHANGED components /\ state' \in {"LOADING", "UNLOADING"}
    BY <1>3 DEF Begin, LoadModel, ReloadModel, RetireModel, CleanupFailedLoad,
                ReloadModelDynamic, RetryReload
  <2> QED
    BY <1>2, <2>1
<1>4. CASE UnloadModelComponents
    BY <1>4 DEF UnloadModelComponents
<1>5. CASE FetchModelFiles \/ ReadModel \/ LoadTensors \/ CompileModel
    BY <1>5 DEF FetchModelFiles, ReadModel, LoadTensors, CompileModel, Step, Fail
<1>6. CASE PrepareQueue
    BY <1>6 DEF PrepareQueue, Fail
<1>7. CASE \/ \E c \in Configs : DecideReload(c)
           \/ \E op \in {"load", "retire", "cleanup"} : Decide(op)
           \/ Drained \/ DrainedToUnload \/ ReturnToManager
           \/ \E p \in Predicts : \/ DynamicReloadDone(p) \/ RecoveryDone(p) \/ Serve(p)
                                  \/ \E b \in Batches : Arrive(p, b)
           \/ UNCHANGED vars
  <2>1. UNCHANGED <<status, components>>
    BY <1>7 DEF DecideReload, Decide, Drained, DrainedToUnload, ReturnToManager,
                DynamicReloadDone, RecoveryDone, Serve, FindAvailable, FindUnavailable, Poll,
                GiveUp, TimeOut, ValidateOK, ReloadRequired, Invalid, InferenceDone, Arrive, vars
  <2> QED
    BY <1>1, <2>1
<1> QED
    BY <1>3, <1>4, <1>5, <1>6, <1>7 DEF Next, Loading, Load

\* A freshly constructed instance satisfies the invariant.
LEMMA InvInit == Init => IInv
<1> SUFFICES ASSUME Init PROVE IInv
    OBVIOUS
<1> USE DEF Init
<1>1. TypeOK
  <2>1. job \in Jobs
    BY DEF Jobs, NoJob, Attempts, Afters
  <2>2. isCustomLoaderConfigChanged \in BOOLEAN
    BY Zenon
  <2>3. pc \in [Predicts -> Places] /\ batch \in [Predicts -> Batches]
    BY BatchesAssumption DEF Places
  <2>4. checks \in [Predicts -> 0 .. Checkpoints]
    BY CheckpointsAssumption
  <2> QED
    BY <2>1, <2>2, <2>3, <2>4 DEF TypeOK, States, ErrorCodes, Stages
<1>2. GuardsCounted
  <2>1. HoldersOf(pc) = {}
    BY DEF HoldersOf, Guarding
  <2> QED
    BY <2>1, FS_EmptySet DEF GuardsCounted
<1>3. Shape
    BY NoneAssumption
    DEF Shape, OwnerOK, JobOK, StatusOK, ComponentsOK, NoJob, Using
<1>4. Promises
    BY DEF Promises, NoUseWhileLoading, AvailableIsComplete, EndIsUnloaded, Touching
<1> QED
    BY <1>1, <1>2, <1>3, <1>4 DEF IInv

\* Every step preserves the invariant.
LEMMA InvStep == IInv /\ [Next]_vars => IInv'
BY TypeStep, CountStep, OwnerStep, JobStep, StatusStep, ComponentsStep, NoUseStep, CompleteStep
DEF IInv, Shape, Promises

\* The invariant holds in every behaviour of the instance.
LEMMA InvHolds == Spec => []IInv
BY InvInit, InvStep, PTL DEF Spec

-----------------------------------------------------------------------------
(***************************************************************************)
(* The theorems                                                            *)
(***************************************************************************)

\* The instance is always well typed; in particular the handles count, which
\* is unsigned in modelinstance.hpp, never goes below zero.
THEOREM InstanceTypeCorrect == Spec => []TypeOK
<1>1. IInv => TypeOK
    BY DEF IInv
<1> QED
    BY InvHolds, <1>1, PTL

\* The components of a version are never written while a predict thread
\* reads them, for any number of predict threads: the handles count and the
\* status do the work of a readers-writer lock (waitForLoaded against
\* reloadModel and unloadModelComponents).
THEOREM NobodyUsesWhileLoading == Spec => []NoUseWhileLoading
<1>1. IInv => NoUseWhileLoading
    BY DEF IInv, Promises
<1> QED
    BY InvHolds, <1>1, PTL

\* An inference always runs on inference requests of the loaded model, with
\* the batch size of its request (infer in modelinstance.cpp).
THEOREM InferencesFitTheModel == Spec => []InferenceFitsModel
<1>1. IInv => InferenceFitsModel
    BY NoneAssumption
    DEF IInv, Shape, ComponentsOK, InferenceFitsModel, Using
<1> QED
    BY InvHolds, <1>1, PTL

\* A version is announced as available only with all of its components, and
\* is at its end only without them (loadModelImpl, retireModel).
THEOREM AvailableVersionsAreComplete == Spec => [](AvailableIsComplete /\ EndIsUnloaded)
<1>1. IInv => AvailableIsComplete /\ EndIsUnloaded
    BY DEF IInv, Promises
<1> QED
    BY InvHolds, <1>1, PTL
=============================================================================
