# A TLA+ verification of OpenVINO Model Server

This directory models the model server in `src/src` (OpenVINO Model Server,
C++): how inference requests share the streams of a model, how a model version
is loaded, reloaded and unloaded under running requests, how the manager decides
which versions are served and brings the server to what its configuration file
says, how stateful models keep the state of their clients' sequences, how
pipelines are validated, reloaded, retired and executed, how requests find,
measure, fill and answer with tensors, and how model files are brought from
remote storage. TLC checks the modules on small instances; TLAPS proves the
safety properties of nine components for every size.

Names in the modules are the names of the source where TLA+ allows it.
`PROJECT.json` maps every definition to the lines it models.

## 1. The system

| Part | State it keeps | Operations | Interacts with |
|---|---|---|---|
| Inference queue, `Queue<T>` (`queue.hpp`) and the guards `ExecutingStreamIdGuard`, `NodeStreamIdGuard` | ring of idle streams, queue of promises, two mutexes | get, return, wait, disarm | every inference of a model |
| `ModelInstance` (`modelinstance.cpp`) | status, configuration, `ov::Model`, `ov::CompiledModel`, queue, `predictRequestsHandlesCount`, `loadingMutex` | load, reload, dynamic reload, retire, clean up, wait for loaded, infer | the manager thread and all predict threads |
| `Model` (`model.cpp`), version policies | versions, default version | add, reload, retire, clean up versions | manager, requests that name no version |
| `ModelManager` (`modelmanager.cpp`) | models, pipelines, loaders, libraries, served configurations, MD5 of the file | load the configuration, poll directories, clean up | everything |
| Configuration (`modelconfig.*`, `config.cpp`) | settings of a model | parse, compare (`isReloadRequired`) | manager |
| Sequences (`sequence_manager.cpp`, `sequence.cpp`, `statefulmodelinstance.cpp`, `global_sequences_viewer.cpp`) | map of sequences with their memory states, mutexes and idle flags; the versions registered with the cleaner | start, continue, end, remove idle ones, register | the queue, the cleaner thread |
| Pipeline definitions (`pipelinedefinition.cpp`) | state of the definition, its nodes, handles count | create, validate, reload, retire, create a pipeline | models (subscriptions), manager, requests |
| Pipeline execution (`pipeline.cpp`, `node.cpp`, `*session.cpp`) | node sessions, shards, event queue, deferred sessions | execute, fetch results, release | queue guards, unload guards, custom nodes |
| Custom loaders, node libraries | registries | add, keep, remove | manager, model instances, pipelines |
| Frontends (gRPC for TensorFlow Serving and KServe, REST) | metrics of the servables | route, parse, look up, infer, metadata, status, reload | manager, instances, definitions |
| Tensors (`predict_request_validation_utils.cpp`, `deserialization.*`, `binaryutils.cpp`, `serialization.cpp`, `rest_utils.cpp`) | - | validate, decode, fill, serialize, write JSON | frontends, instances, pipelines |
| File systems (`s3filesystem.cpp`, `gcsfilesystem.cpp`, `azurestorage.cpp`) | temporary local copies | list, download, delete | `Model` |
| Server modules, metrics registry | - | start, shut down, collect | all of the above |

What makes it hard:

* No lock protects the components of a model during an inference. A request
  raises a counter and then reads the status; a loading thread sets the status
  and then waits for the counter to be zero. Pipeline definitions do the same.
* The inference queue takes its two mutexes one after the other, so a thread
  can act on what it saw under the first when it holds the second.
* A request that needs another batch size reloads the model itself, competing
  with the manager, after it gave up the guard under which it was validated, and
  is not validated again.
* Several versions are changed in one pass, some of which fail; the plan is
  remade from what is left. A configuration is applied in steps, any of which
  can end the load, and the next cycle starts from what was left.
* The configuration file and remote objects change while they are read.
* A request of a stateful model takes a mutex, a second mutex under it, a
  stream under that, and then the first mutex again, while a cleaner thread
  scans the sequences.
* A pipeline definition is replaced under the requests that read it, its status
  machine is driven by two kinds of threads without a lock, and what it was
  validated against can change during the validation.
* The sessions of a pipeline finish in any order, on other threads; shards are
  put together by computed numbers; an error must still collect every session.
* The size of a buffer is measured in one place and the buffer read, without a
  copy, in another.

What each part must guarantee, in one line: the queue gives no stream to two
users and loses none; an instance is never used while it is replaced and what
is available is complete; the versions served are the ones the policy asks
for, and good ones are retired only when replaced; an inference of a stateful
model continues from where its own sequence stopped, and no sequence is used
after it was erased; a pipeline delivers the composition of its nodes or an
error, and releases all it took; a definition is never executed in a state that
has not been validated; the configuration in force becomes the one in the file,
and a status of OK is true; a response is about one generation of a
servable, and a request is counted once; what is read is what was measured; a download that
succeeds is complete.

## 2. Modules

| Module | Models | Extends / instantiates |
|---|---|---|
| `StreamPool` | what the queue promises: a first-in first-out pool | - |
| `InferRequestsQueue` | `queue.hpp`, `executingstreamidguard.cpp`, `nodestreamidguard.cpp` | instantiates `StreamPool` |
| `ModelInstance` | `modelinstance.cpp`, `modelversionstatus`, `modelinstanceunloadguard` | - |
| `ModelInstance_proofs` | proofs | `ModelInstance` |
| `ModelVersions` | `model.cpp`, `model_version_policy.cpp`, `reloadModelWithVersions` of `modelmanager.cpp`, registration in `statefulmodelinstance.cpp` and `global_sequences_viewer.cpp` | - |
| `ModelVersions_proofs` | proofs | `ModelVersions` |
| `SequenceManager` | `sequence_manager.cpp`, `sequence.cpp`, `infer` of `statefulmodelinstance.cpp` | - |
| `SequenceManager_proofs` | proofs | `SequenceManager` |
| `PipelineDefinition` | `pipelinedefinition.cpp`, `pipelinedefinitionstatus.hpp`, `pipeline_factory.cpp`, `modelchangesubscription.cpp`, the cycle of `ModelManager::watcher` around them | - |
| `PipelineValidation` | the checks of the graph in `pipelinedefinition.cpp` | - |
| `PipelineExecution` | `pipeline.cpp`, the nodes, their sessions, metadata and input handlers | `PipelineValidation` |
| `Pipeline_proofs` | proofs about definitions and their execution | `PipelineDefinition`, `PipelineExecution` |
| `RequestFrontends` | `prediction_service.cpp`, `kfs_grpc_inference_service.cpp`, `model_service.cpp`, `get_model_metadata_impl.cpp`, the handlers of `http_rest_api_handler.cpp` | - |
| `RequestFrontends_proofs` | proofs | `RequestFrontends` |
| `RestParsing` | the patterns of `http_rest_api_handler.cpp`, `rest_parser.cpp`, binary inputs | - |
| `TensorShapes` | `shape.cpp`, `layout.cpp`, `tensorinfo.cpp` | - |
| `TensorExchange` | validation, deserialization, images, serialization, JSON | `TensorShapes` |
| `Inference_proofs` | proofs about both sides of an inference: its stream and its tensors | `InferRequestsQueue`, `TensorExchange` |
| `RemoteFiles` | `s3filesystem.cpp`, `gcsfilesystem.cpp`, `azurestorage.cpp`, the downloads of `model.cpp` | - |
| `RemoteFiles_proofs` | proofs | `RemoteFiles` |
| `ModelConfig` | `modelconfig.hpp`, `modelconfig.cpp`, the model of `config.cpp` | - |
| `ConfigReload` | the watcher and `loadConfig` of `modelmanager.cpp`, `customloaders.cpp`, `custom_node_library_manager.cpp`, the reload API | `ModelConfig` |
| `ConfigReload_proofs` | proofs | `ConfigReload` |
| `MC*` | the instances that TLC checks | the module of the same name |

A definition named `X_Something` in front of `X` is a wrong variant of `X`: a
plausible bug. Each property is known to fail under one of them.

### InferRequestsQueue

`streams`, `front_idx`, `back_idx` are the ring; `front_mut` and `queue_mutex`
appear as variables because a thread can hold one while it waits for the other;
`promises`, `future` stand for the promise queue; the gauges are the metrics
that the guards maintain, and equal to the numbers of guards that run and that
are counted. `getIdleStream` is `TakeIdleStream`, or
`FindNoIdleStream` and `PushPromise`; `returnStream` is `PopPromise` and
`SetValue`, or `ReserveSlot` and `StoreStream`. `StreamPool` is the abstract
pool: idle streams and waiters in order; `ImplementsPool` says every behaviour
of the ring, seen through `Pool` (the instance with its mapping), is one of the
pool. `tryToGetIdleStream` has no caller and is left out.

### ModelInstance

The manager's orders (load, reload, retire, clean up) and the predict threads'
dynamic reloads go through the same loading steps, under `loadingMutex`:
set the status, wait for the handles count, then one step for each component
that is made or kept. Shapes are abstracted to a batch size, a model file to
its directory; which component is kept by a reload, and which setting takes
effect when, is as in `loadModelImpl`. Loading may fail at each step that can
fail in the code. The status is read without a lock in the source; the model
takes memory to be sequentially consistent.

### ModelVersions

One poll of one model: list the directories, plan, add versions one by one,
strike out the failed ones and plan again, reload, retire. Between two polls the
operator changes the disk, the policy, the settings, the custom loader and its
blacklist. Directories are listed in the order of their names as strings, as the
`std::set` of names does (`DirOrder`). The failed ones are looked for in that
listing with `std::binary_search`, which is defined only if it is in the order of
the numbers (`Ordered`): then it finds all of them, otherwise the model lets it
miss any. `overlooked` remembers the failed ones that it missed, until they are
loaded, retired or cleaned up: it restricts no action and is what the properties
name as their exception. Two directories that denote one number (`1`, `01`) are excluded.

The model is stateful. `registration` says, per version, whether the cleaner of
idle sequences knows nothing of it, its current sequence manager, or one that
it has dropped. `cleanupFailedLoad` drops the sequence manager without telling
the cleaner; from then on a load succeeds and then fails to register
(`RegistrationFails`).

### SequenceManager

`sequences` is the map (a record per id, `exists` saying whether it is in the
map), each record with the mutex, memory state and flags of a `Sequence`.
A request takes the manager's mutex and processes its spec
(`ProcessRequestedSpec`), waits for the sequence with that mutex in hand
(`LockSequence`), waits for a stream (`AcquireStream`), loads the state, infers,
saves the state, and, when it ends the sequence, takes the manager's mutex
again (`RemoveSequence`), its stream still in hand because the guard lives
until `infer` returns. An error returns early and unwinds the guards
(`FailInference`). The memory state is abstracted to the number of inferences
that led to it; each stream remembers the state of whoever used it last. The
cleaner visits one sequence per step and holds the manager's mutex throughout.
`sequenceIdCounter` wraps around modulo `MaxSequenceId + 1` as the `uint64_t`
of the source does modulo 2^64. The stream queue is abstracted to "an idle
stream, if there is one". `inferences` and `used` are history variables that
only the properties read. `updateMemoryState` is taken to succeed: its only
error is a copy between tensors of different sizes.

### PipelineDefinition

One definition that uses one model, and three kinds of threads. The manager
(`mpc` is its place in a cycle) loads the configuration (`LoadModels`, then
`CreateDefinition`, or `Reload` to `Replace`, or `Retire` to `Clear`, then
`ReloadGated`), polls the versions (`Update`) and revalidates (`Revalidate`);
`validate` is the steps from `InitializeNodeResources` to `NotifyResult`. A
request takes an unload guard and waits for the definition to be available
(`Arrive` to `Created`). A request to the used model may reload it dynamically,
by itself, which notifies the definition (`QueueReload` to `EndReload`).

A definition is abstracted to the metadata of the model that it fits, whether
it names a version, and its custom nodes; the model to whether it is known and
automatic and what has become of the version. All that `NodeValidator` and the
checks for cycles and demultiplexers find is the one question whether the
definition fits. `handle` reads the status and writes the next one without a
lock; the two threads that do this are the manager and the reloading request.
Only the order in which the request reads, the manager writes and the request
writes has an effect of its own, so only the request's read (`StartReload`) and
write (`WriteNotice`) are two steps. Torn reads of the `std::variant` are not
modelled: `getStateCode` repeats them. `thrown`, `unnoticed` and `overwritten`
are history variables: the manager raised an invalid event; a dynamic reload
did not reach the definition, or did during its validation; a notification
overwrote a change of the manager's.

### PipelineValidation and PipelineExecution

`PipelineValidation` decides which graphs are accepted; `Wellformed` is the
reference definition (levels nest, nodes depend on nodes of their level, a
gathering node closes the innermost levels) that `ValidationIsExact` compares
it with. `PipelineExecution` starts with any graph, validates it (`Validate`,
`Reject`) and executes it: `stage` is the place of the executing thread in
`Pipeline::execute` (pull an event, try the next nodes, retry deferred sessions,
disarm), `nodeSessions` the sessions by node and metadata, with the inputs they
have, the shards they wait for, their guards. Inferences end and call back on
other threads (`InferenceEnds`), and the callback ends after it has reported.
Streams come from a pool shared with other requests; `Granted` is the promise
that is kept. A tensor is a term that says how it was computed, so that
`DeliversComposition` can compare the response with `Composition`, which is
read off the graph alone. Every step that can fail may fail.

### RequestFrontends

A request is a thread with an interface, a method, a name and a version. It
looks the name up among models and, in a second step, among pipelines, takes an
unload guard, reads inputs and outputs, infers, serializes and counts; every
return of the handlers is a branch. The manager adds names, loads, reloads and
retires what they stand for. What was read of a servable is the generation it
was read from. A REST request for a pipeline is parsed for the inputs of one
generation and, the guard having been dropped, executed by whatever generation it
then finds; the entry node only compares names, shapes and precisions, so a later
generation may take it or not (`Accepts`, `Fits`). `modelsMtx` is modelled because `getAllModelsStatuses` takes it
shared twice: the shared mutex lets readers in while a writer waits, as the
read-write lock of glibc does by default.

### RestParsing

Functions from requests to results, one step per request. A URL is the sequence
of its segments; each pattern is the set of the ways in which it matches. The
documents are trees; a parsed tensor keeps for each element the path of its leaf
in the document, so that order and completeness can be judged. References:
exactly one pattern matches; the tensor is the row-major flattening of an evenly
nested document; binary parts are consecutive. The sizes of
binary parts are numbers that the request announces: negative ones, ones that are
no multiple of the element and a JSON part longer than the body are among them.
Sums and differences are those of a `size_t` with `Word` values; a loop that reads
past a part reads `Whole` elements.

### TensorShapes and TensorExchange

Dimensions are intervals or open, layouts are sequences of letters with "?" and
"...". `InfoIntersection` is what `createIntersection` makes of two
descriptions; `CommonIsBoth` compares it with what both match. In
`TensorExchange` a case is a request, an image request, a response or a pair of
descriptions; a request goes through validation, perhaps a reload for its batch
size or shape, and deserialization, where each tensor records how much is read
and how much was there. Values are left out; sizes, precisions, containers and
positions are kept. The reload is an action of its own that may fail.
`IsExchange` says which cases the code can be given: descriptions whose layouts
`Layout::validate` accepts and whose dimensions `Dimension` can be constructed
with, inputs of a servable with names of their own, outputs gathered once. An
automatic shape and an automatic batch size exclude each other, and only
stateful models, whose shapes are fixed, have optional inputs (`ModelConfig`).

### RemoteFiles

Each request to the storage is a step, between which objects change and requests
fail. The four storages walk folders differently (pages, levels, how a folder
is told from a file), and each has its own steps; the life of the local copy is
common: `load` is the download, `op` the operation of the model (add, reload,
retire, clean up) with its versions one by one, `instance` the versions with
their local paths. `Silent` names the failures that the code of a storage lets
pass.

### ModelConfig and ConfigReload

`ModelConfig` turns an entry of the file or the command line into settings and
compares settings. `ConfigReload` has the file, who holds `configMtx`, the MD5
and the status of the last load, the models with the settings they serve with,
the custom loaders, libraries and pipelines, and the configurations that were
held back because a pipeline uses the model. The watcher's cycle and the reload
request go through the same steps of `loadConfig`, each look at the file being
one step; the operator edits or removes the file in between. Loads of models,
loaders and libraries may fail. A server started with a model on the command
line has no file. The MD5 sum of a content is the content.

## 3. Runs

| Run | Instance | Result |
|---|---|---|
| `queue` | 2 requests, 2 sessions, 2 streams | no stream in two hands, gauges are the numbers of guards; the ring implements `StreamPool`, so that none is lost; a guard waits for ever only if all streams rest in the ring |
| `instance` | 2 predict threads, 2 configurations that differ in loader and batch size, failing loads | components are never replaced in use; inferences fit; available is complete; every request answered and order carried out once requests pause |
| `versions` | versions 8, 9, 10 of a stateful model, listed 10, 8, 9, 2 policies, loader and blacklist | but for overlooked versions: default version right, versions retired only when not wanted or replaced, those that serve looked after by the cleaner; served = wanted, once the operator rests and loads work |
| `definition` | 1 request, 1 reloading request, 2 definitions, 2 metadata of the model | pipelines are created from whole definitions; available means validated; definitions settle, requests are answered |
| `sequences` | 2 requests, 2 streams, 1 sequence of 3 ids | references good, states do not mix, no circle of mutexes; abandoned sequences are removed |
| `pipeline` | every graph of 2 inner nodes, demultiplexers and gathering everywhere, 1 stream | the response is the composition; accepted pipelines meet no internal error, well-formed ones are accepted; nothing is left behind; execution ends |
| `frontends` | 1 request of every kind, 2 names, 3 generations | counted once; missing is true; a response is about one generation, and an inference runs on a generation that takes it; statuses complete; answered; retired servables unload |
| `rest` | all URLs of up to 4 segments after the prefix, documents of depth 3, 2 binary inputs with sizes from -8 to 8 | one route; versions kept; tensors as written, in both formats; binary parts consecutive and inside the data |
| `tensors` | every precision and container, 1 and 2 inputs, raw buffers for all or for fewer, images, 2 outputs, pairs of descriptions | what is measured is what is read; what is accepted is taken; images fill their tensors; outputs aligned; intersections exact |
| `files` | 4 storages, 2 versions, folders 2 deep, 1 failure or change | a success is complete but for named failures; copies are of their own file; what serves keeps its copy |
| `config` | 9 contents, 2 edits, 2 failures, watcher and 1 reload request; or 1 command line out of all combinations | OK is true; an OK answer means applied; the server converges to the file; requests answered; loaders settle; command line and file agree |
| `sequences_deadlock` | 3 requests, 1 stream, 2 sequences | **violated**: three requests wait for each other |

The type invariants of the modules with proofs are theorems (that of
`ModelVersions` as a part of its invariant, what `FlightTypes` needs of that of
`PipelineExecution`), and so are five more properties
that no run repeats: `EndIsUnloaded`, `WithinMaxSequenceNumber`,
`RemovesOnlyIdle`, `ManagerNeverThrows` and `CopiesAreTrue`. `TypeOK` in the other modules
documents the types of their variables.

### Why the bounds are enough

*Queue.* Two getters and one returner are what each race needs; with two guards
more than streams two promises are queued and their order matters, with two
streams the indices wrap while slots are reserved and not written. *Instance.*
One loading thread and one request make each race, a second request adds two
dynamic reloads at once. `Checkpoints` is the number of polls of
`waitForLoaded`: one suffices to wait and to give up. The safety properties are
proved for any configurations. *Versions.* With three versions the fallback to
an older version, the fallback after that, and a version that stays are
distinct. They are listed by name, hence out of order, so that the search may
overlook any of them. The policies are latest 1 and specific
{8, 10}; policy all behaves as latest 3 does. The loader blacklists 10 only
(`Refusable`), for the state space: a version that is not always the highest
wanted one. *Sequences.* Two streams, over which a sequence moves, and three
ids for one sequence, so that the counter passes over ids in use and wraps;
`MaxInferences` 2 lets a sequence be started, continued and ended. Two sequences
at once are in `sequences_deadlock` and, for any number, in the proofs.
`sequences` checks `StuckOnlyForStreams`, which holds also where the circle of
`sequences_deadlock` can close.

*Definition.* A valid definition that names a version and has a custom node, and
one that fits no model and has none, make every reload change nodes and
resources and some validations fail; two metadata tell a model that fits from
one that does not. Requests do not interact except through the counter, which
the proofs cover for any number. *Pipeline.* Two inner nodes give chains,
branches, joins, cycles and two nested levels of demultiplexing (request and
first node); with one stream, sessions are deferred as soon as there are two;
`MaxShards` exceeds `DEMULTIPLY_LIMIT` by one, so that too many shards occur.
*Frontends.* Requests meet each other only through locks that readers share;
what matters is one request against the manager, with a name that is reloaded
twice, once by a generation that takes what was parsed for the one before and
once by one that does not, and a name that is only registered. *REST.* Four segments hold the longest
pattern; depth three has a first, a middle and a last dimension;
the sizes -8, 0, 6 and 8 are a negative one, none, one that is no multiple of 4 or
8 and a whole one, and the data is shorter than the JSON (-4), empty, 7, 14 or 32
bytes long. `Word` only has to exceed
the sums of sizes. *Tensors.* The
cases are in `MCTensorExchange`; two inputs suffice for a batch size taken from
the wrong one. *Files.* Pages of three make the larger folder exceed a page; two
temporary directories let a reload follow a load. *Config.* The contents are one
per early return of `loadConfig`; two edits change the file between any two
looks and leave a third content behind. `cut` loads a model and then meets
unsupported keys, so that a loaded model is in no list.

`frontends`, `rest`, `tensors` and `files` switch deadlock checking off: their
requests and cases simply end, and `files` stops at its bounds; that requests
and unloading do not hang is checked as liveness. In all other runs a state
without a successor is an error.

### Fairness

Weak fairness for what a running thread does by itself: the code neither blocks
there nor loops without end. Strong fairness for taking a mutex, or a stream in
the first-in first-out queue of promises, that keeps becoming free: the waits of
the code are on `std::mutex` and futures, held for bounded times by threads
that go on. In `InferRequestsQueue` one strong condition covers all steps of a
thread: each of them moves the thread's program counter, so this says the same.
Nothing makes requests arrive or the operator act. In `PipelineDefinition` the
end of a dynamic reload is strongly fair: it has at most three attempts, between
which it notifies again. In `PipelineExecution` the thread, the ends of
inferences and the return of streams by others are weakly fair, the grant of a
stream strongly, which `ImplementsPool` justifies. In `ConfigReload` a request
gets `configMtx` because the watcher sleeps at least a second between cycles.
Two premises are part of the properties: `Calm` (from some time on no new
request) in `ModelInstance` and `PipelineDefinition`, because requests that keep
arriving can hold the handles count above zero whenever the loading thread
looks, and `Settled` (the operator rests and loads succeed) in `ModelVersions`.

### Findings

**Three requests wait for each other** (`statefulmodelinstance.cpp:285`, run
`sequences_deadlock`). One ends sequence A and waits for the manager's mutex
with the only stream in hand; one holds that mutex and waits for sequence B;
one works on B and waits for a stream. `StuckOnlyForStreams` shows that this is
the only way for everybody to wait.

Behaviours that the models contain and that a property names as its exception,
or that a reader of a module should know. They have no run of their own.

*Queue, instances, versions, sequences*

* A wake-up is lost when the last stream comes back between the look at the ring
  and the queueing of the promise (`queue.hpp:45`; the exception in
  `ServedOrAllIdle`).
* A dynamic reload can bring back a version that was retired while it waited for
  `loadingMutex` (`modelinstance.cpp:963`).
* A changed `base_path` is not applied by a reload unless the layout changed too
  (`modelinstance.cpp:843`).
* `std::binary_search` over versions that are ordered as strings can miss failed
  versions when the numbers differ in length (`modelmanager.cpp:1277`); a good
  version is then retired, a failed one stays the default, or the cleaner keeps the
  dropped sequence manager of one (`overlooked` in `DefaultIsServed`,
  `RetiresOnlyReplaced`, `CleanedWhenServed`). All three exceptions are needed:
  TLC finds a counterexample without any of them.
* A stateful version that is cleaned up while it serves is never loaded again
  until it is retired (`statefulmodelinstance.cpp:122`; exception in
  `Converges`).
* A sequence whose SEQUENCE_END request fails stays terminated, and the cleaner
  skips it (`sequence_manager.cpp:60`; exception in `AbandonedIsRemoved`).

*Pipelines*

* A notification during a validation is lost when the validation passes
  (`pipelinedefinition.hpp:59`; `unnoticed` in `AvailableIsValidated`).
* A notification can overwrite RELOADING or RETIRED, and requests then read
  nodes that are being replaced (`pipelinedefinitionstatus.hpp:65`;
  `overwritten` in `CreatesFromWhole`). It takes a dynamic reload that was
  queued when the model was still automatic.
* After an error a finished session is released without waiting for its callback
  (`pipeline.cpp:132`, `dlnodesession.cpp:312`; exception in
  `GivesBackInTime`).
* A gathering session whose gathering failed is executed once all the same
  (`pipeline.cpp:158`); with a dynamic count the first dimensions of several
  outputs of a node are not compared (`node.cpp:236`).

*Frontends and parsing*

* `getAllModelsStatuses` takes a shared lock it already has
  (`model_service.cpp:148`): safe only with a lock that prefers readers.
* A REST request for a pipeline is parsed with a copy of the inputs after the
  guard was dropped (`http_rest_api_handler.cpp:899-925`), and a reload between
  that and `:945` executes it by another definition if names, shapes and
  precisions still match (`entry_node.cpp:135-143`): `OneGeneration` asks only that
  the definition takes it. A pipeline that is not loaded counts nothing.
* Some documents whose numbers lie at different depths, such as `[[[1]],[2]]`,
  are accepted; a single encoded image without an array drops its input
  (`rest_parser.cpp:54`); a KServe document that mixes values and arrays reads
  values as what they are not (`rest_parser.cpp:545`). Binary data that no input
  announced is ignored.
* A JSON length beyond the body makes the size of the binary data wrap
  (`http_rest_api_handler.cpp:416`), and sizes are then not checked against
  anything; a negative size is taken for a huge one, against which the sum is
  compared after it wrapped (`:430`, `:447`), and the part is read for ever; a size
  that is no multiple of the element is read to the end of its last element
  (`:291-338`). `BinaryPartition` holds of requests that are answered, with the
  first as its premise and the last in its bounds.

*Tensors*

* The batch size of one input stands for all, and a request is not validated
  again after a reload (`prediction_service_utils.cpp:41`, `:72`; exception in
  `AcceptedIsTaken`).
* Images for an input that feeds a demultiplexer get a dimension of one
  (`binaryutils.cpp:390-401`): an input without five dimensions, or whose second
  does not take one, refuses them after they were validated (exception in
  `AcceptedIsTaken`).
* Raw buffers are indexed by the position of the input and not counted
  (`predict_request_validation_utils.cpp:500-502`, `deserialization.hpp:376`): with
  fewer of them than inputs, what lies behind them is measured and read (`stray`;
  exception in `ReadsWhatWasMeasured`).
* Images for an input with a range of channels need not agree on their number
  (`binaryutils.cpp:124-153`; exception in `ReadsWhatWasMeasured`).
* An output without elements cannot be written as JSON for TensorFlow Serving;
  FP16 and U16 (TensorFlow Serving), FP16 and BOOL (KServe) have no writer
  (exceptions in `ResponseIsWhole`). A `uint32` above 2^31 - 1 is written as a signed
  number (`rest_utils.cpp:265-268`; values are not modelled).

*Files*

* In GCS a failed look at an object makes it a file (`gcsfilesystem.cpp:145-156`);
  of S3 and Azure listings only the first page is read (`s3filesystem.cpp:264`,
  `azurestorage.cpp:270-285`), of S3 folders one level; a directory that could
  not be made ends a download with OK (`gcsfilesystem.cpp:365`,
  `azurestorage.cpp:487`, `:1081`); in S3 and GCS an object with others below its
  path is taken for their folder and not downloaded (`s3filesystem.cpp:206`, `:432`,
  `gcsfilesystem.cpp:128`, `:238`). All are exceptions in `DownloadsAreTrue`. In an
  Azure container such an object would be listed as a blob and as a directory
  (`azurestorage.cpp:280`, `:317`) and could not be saved over the directory: the
  download fails, which the model, where a name is one item, does not show.
* The result of a download is not looked at (`model.cpp:141`), and a reload
  leaves the former copy behind (`model.cpp:267`).

*Configuration*

* The MD5 sum is taken before the file is read (`modelmanager.cpp:712`): a file
  that gets an earlier content again can be missed (`restored`).
* A held-back configuration whose second attempt succeeds is still reported as a
  failure, and one whose second attempt fails is given up
  (`modelmanager.cpp:636`, `:660`; `dropped` in `Converges`).
* Unsupported plugin keys end the load of the models half-way
  (`modelmanager.cpp:620`); the status of `loadLibrary` is ignored (`:477`); a
  model whose loader is missing is OK (`:1259`); loaders are deinitialised
  before their models are retired (`customloaders.cpp:72`). A model that such a
  half load has loaded is in no list, and a next one of the kind can finalize its
  loader and leave it serving (exception in `LoadersSettle`).
* `parseNode` swallows wrong shapes and policies (`modelconfig.cpp:458`, `:475`,
  `:571`); the number 0 is a batch size, the text 0 is not (`modelconfig.hpp:456`);
  next to sequence options the command line asks for `--stateful` and not for its
  value (`config.cpp:322`), a file for the value (`modelconfig.cpp:550-561`). The
  three exceptions in `CliAgrees` are the number 0, the anonymous shape and
  `--stateful=false` with sequence options.

## 4. Proofs

All proofs hold for every value of the constants that satisfies the named
assumptions of the modules, which TLC evaluates in every run.

**Inference_proofs, the streams.** `QueueTypeCorrect` and `StreamsAreExclusive`: no
stream is in two places among ring, futures, guards and returning threads, which
is inductive once the type invariant is added. `QueueImplementsPool`: the ring
implements `StreamPool`, and so loses no stream and serves in order;
`GaugesTellTheTruth`: the metrics are the numbers of guards that are counted and
of inferences that run. These two need `QueueInv`: the idle streams fill the slots from `front_idx`
to `back_idx` without a gap, what is reserved there belongs to a thread that is
about to store, a promise is queued once for each guard that waits for it. The
ring has NIREQ slots and there are NIREQ streams: when all slots are taken every
stream is in the ring, which is the pigeonhole argument `FullRing`, and why a
stream that is returned never overwrites another. The refinement maps `TakeIdleStream` to
`Get`, `PushPromise` to `Wait`, `PopPromise` to `HandOver`, `StoreStream` to
`PutBack`, and every other step to a stutter. `GaugesCount` follows the
cardinalities through the steps. Assumptions: at least one stream, requests and
sessions distinct, none of them the name of the free mutex.

**Inference_proofs, the tensors.** `RequestsAreRead` (`ReadsWhatWasMeasured`),
`RequestsAreTaken` (`AcceptedIsTaken`), `ResponsesAreWhole` (`ResponseIsWhole`) and
`CommonIsExact` (`CommonIsBoth`), for any number of inputs, outputs and images, any
shapes and any layouts. The four properties are about the end of an exchange;
`ExchangeInv` says what holds before: a servable is `Ready` for the request once it
was accepted, and still after a reload for the batch size or for the shapes, which
is what makes a second validation unnecessary. That it is so needs that
validation found each input once (`CheckedIsEachOnce`), that the content it
measured is that of the shape in the request and not of the servable
(`CheckedIsMeasured`), and that a request asks for one kind of change only. For
images `Alike` follows the loop: each image converted so far is as large as the
first is made, so that the sum of the copied bytes is the product of the shape.
`ResponseInv` rests on `Whole`: names in the response are there once and each buffer
is that of the name at its position, which gathering and serializing keep
although either may come first; that all outputs are there is then a count
(`InjectionCounts`). For layouts, `Joined` is what the left one has learnt up to a
position, and `AgreedIsCompatible` that looking for each letter in it finds every
conflict, in whichever order the two are given. No assumption on constants:
`IsCase` only chooses the cases that TLC enumerates.

The loops of the code are folds, whose definition in the community modules is a
recursive function over sets of indices. The library's induction theorems cannot
be instantiated, but induction over a set of numbers can be stated as a lemma
(`Induction`, from the well-foundedness of the naturals). `FoldIs` shows with it
that a fold goes through a function from 0 .. n to the values, one step of the
loop for each number; each fold of the model has a lemma of that form
(`VolumeIs`, `ConvertImagesIs`, `MeetAllIs`, `SerializedIs`, `GatheredIs`).

**ModelInstance_proofs.** `InstanceTypeCorrect`, `NobodyUsesWhileLoading`,
`InferencesFitTheModel`, `AvailableVersionsAreComplete` (which also says that END
is unloaded). The promises are not inductive: that nobody uses components while they are replaced depends on the
count being the number of guards (`GuardsCounted`, a cardinality), on the
status being what the owner of `loadingMutex` set (`OwnerOK`, `StatusOK`), on
what the job at hand may assume at each of its steps (`JobOK`) and on which
components exist in between (`ComponentsOK`). The heart of the argument is
`NoUseStep`: a thread past the wait has seen the count at zero after it changed
the status, and a thread that raised the count since has seen that status.
Assumptions: finitely many predict threads; the model values are distinct.

**SequenceManager_proofs.** Six theorems, one for each safety property of
`SequenceManager`. The inductive invariant adds to them who holds which mutex
at which point of `infer` (`LocksOK`), that a request which ends a sequence is
the last that `processRequestedSpec` let through for it (`EndingOK`, which is
why nobody refers to a sequence that it removes), that streams are exclusive
(`StreamsOK`), that the saved state agrees with the history (`MemoryOK`,
`WorkOK`) and that marked sequences are unused (`UsedOK`).
`CircularWaitNeedsStreams` follows a chain of waiting from any request to one
that waits for a stream. `UniqueIdIsFree` shows that the search for an id ends,
from the well-foundedness of the naturals. Assumption: fewer sequences than
ids, which `uint32_t` against `uint64_t` guarantees.

**Pipeline_proofs, the definitions.** `DefinitionTypeCorrect`,
`PipelinesAreCreatedFromWhole`, `AvailableDefinitionsAreValidated`,
`ManagerRaisesValidEvents`. The inductive invariant says that the counter is the
number of guards (`GuardsCounted`), what the status can be at each point of the
manager's cycle (`StatusOK`), that who subscribes has nodes and can be notified
(`SubscribedOK`), that what is available keeps its resources (`ResourcesOK`),
that what was found valid subscribed, so that no change of the manager's escapes
it (`NoticesOK`), and that what validation has seen is still so (`SeenOK`).
`WholeStep` is the argument that reload and the requests exclude each other:
the counter at zero after the status changed. Assumptions: finitely many
requests; model values distinct.

**Pipeline_proofs, the execution.** `ExecutionGivesBack` (`GivesBackInTime`) and
`ValidatedRuns` (the second half of `ValidationIsExact`: no error that only a
wrong graph can cause), for any set of pipelines, streams, shards and failures.
`ExecutionInv` has two parts. `FlightInv` holds whatever fails: a session is in
one place among the event queue, the deferred lists, the running inferences and
the finished ones; one that waits for a stream is in a list of deferred sessions;
one that is deferred holds its guard until its event is taken (`Waits`); what is
about to be started was not started (`FlightReady`). With it the pipeline returns
only when the two counts agree, hence the sets (`Leaves`), and no guard is
disarmed that gave its stream away. That it is inductive is not only a matter of
lists: a session that is ready must not have been started, and that is a
statement about the graph.

`OKInv` says what holds until the first error, for an accepted pipeline. Its
centre is the set of all that has been sent, read off the finished sessions
(`SentOf`): a session holds exactly the tensors that were sent to it, misses the
others (`FedOK`), and is started when it has all of them (`Complete`), so that a
tensor that is sent later cannot be meant for it (`NotStarted`). This needs that
the session and the place in it determine the metadata (`MetaAlike`, `ShardsApart`,
`ShardsWithin`: the number that `getShardId` makes is different for different shards
and smaller than the product of the sizes, `Digits`), that every node has one stack of
open demultiplexers whichever way it is reached (`Linked`, from
`validateDemultiplexerGatherNodesOrder`), and that metadata fit the stack of the
node they arrive at (`IsMeta`, `Fits`), which demultiplexing and gathering keep
(`MetaPassed`, `MetaKey`). A dynamic number of shards becomes known when its node
finishes; no metadata can have named it before (`DynamicFirst`). The loops of
the validation and of `Node::setInputs` are recursive functions over 0 .. n, each
with a lemma that unfolds it step by step (`WalkedIs`, `OrderCheckIs`, `FeedIs`).
Assumptions: `GraphsAssumption` (a pipeline has finitely many nodes, connected as
the configuration can connect them) and at least one stream.

**ModelVersions_proofs.** `DefaultVersionIsServed`, `WhatServesIsCleaned` and the
action property `RetiredVersionsAreReplaced`, for all versions in whatever order
they are listed, policies, settings and loaders; and `InOrderNothingIsOverlooked`,
by which their exceptions do not occur when the listing is in numeric order. In the middle of an update all three can be about to
fail: the default version may be one that has just failed to reload, and the
cleaner may know a version by a sequence manager it has dropped. `VersionsInv`
says who puts that right: what failed in this update keeps an instance that is
not unloaded (`FailedStay`), and is struck off what is available unless it was
overlooked (`Struck`, `Missed`), so that the last plan has it among the versions to
clean up and never among those to retire (`RefreshKeeps`, `FailedAreRemoved`); and
until the plan is worked off the default version and the cleaner's entries are
allowed to be behind just for these (`Suspect`, `Default`, `Registrations`). That the
default version is right but for some versions is kept when more are left out
(`RightBut`, `StaysRight`), and a policy that asks for a version asks for it still
when there are fewer others (`FilterOfFewer`), which is what `RetiresOnlyReplaced`
needs of a listing from which only some of the failed ones were struck off. That a
least and a highest version exist is proved from the finiteness of the listing
(`ListIsBounded`, `LeastNatural`). Assumptions: version numbers are positive and
listed once.

**RequestFrontends_proofs.** `EveryInferenceIsCountedOnce`,
`LookupsFindWhatWasThere`, `ResponsesAreOfOneGeneration`, `FrontendTypeCorrect`.
`FrontendInv` says of each request, at each of its steps, what it has found and
read so far (`RequestOK`): the generation it read is still that of the servable
as long as it has the guard, because a load is not replaced under one; what was
there when it came is still known, because names are never taken away; and the
counters of inferences are exactly the numbers of the requests that ended in
each way (`Counters`, a cardinality). A REST request for a pipeline
runs on the generation that `Fits` found to take it, which need not be the one it
was parsed for. `ManagerStep` shows that the manager
disturbs none of this. Assumptions: finitely many requests, positive version
numbers.

**RemoteFiles_proofs.** `DownloadsComplete` (`DownloadsAreTrue`), which rests on
`DownloadsLoseNothing`; `ServingVersionsKeepTheirCopies`, `CopiesHaveTheirPath`,
`FilesTypeCorrect`. `FilesInv` follows a file from the listing to the local copy:
what an open folder holds is below the version that is downloaded (`FoldersOf`),
the directories of that version are there while it is (`Downloading`), every
local file is in the directory of a version that is still there (`CopiesInPlace`),
and versions serve from temporary directories that have been made (`Numbers`); no
operation that deletes is under way during a download.
`CompleteInv` says that nothing is lost, at each step of a download in which
nothing has happened that the storage lets pass: of a version that is done every
wanted object has its copy (`DoneComplete`), and of the version under way every
wanted object has its copy or is still to come from one of the open folders
(`LackIsToCome`) - which one, and from which of its sets, is what the phase of the
folder says. For a file in a folder of a folder that is the folder not opened yet:
a step that opens it hands the object on to the new folder, so that no induction
over the tree is needed, only that objects lie below the folders of their paths
and that paths of open folders extend each other (`Shapes`). A listing of one page
has every name below the folder. Assumptions: finitely many versions and objects;
paths are sequences of names; objects lie below a version.

**ConfigReload_proofs.** `OkMeansApplied`, `CommandLineAgreesWithFile`,
`ReloadTypeCorrect`. The status OK is about a load that ended long ago. `ReloadInv`
says what a load has achieved at each of its steps (`Progress`), that between
two loads a status OK is still true of the content applied last (`Settled`), that
configurations are kept under their own names (`Named`), which contents the MD5 sum can
stand for (`Sums`), that what is applied was in the file while the request was
served (`Fresh`), and who holds `configMtx` (`Mutex`). For the command line
(`CommandLine`) the proof compares the settings made by `config.cpp` and by
`parseNode` case by case. Assumptions: those of `ConfigAssumption`; the watcher is no
request; at least one attempt at reading the file; `max_sequence_number` of the
command line fits its `uint32_t` (`config.hpp:326`).

Each inductive invariant was checked with TLC on a small instance before it was
proved.

**Only model-checked.** Liveness and everything under fairness, which the prover
does not handle.
`DeliversComposition`, whose reference is a function defined by recursion along the
edges of the graph (`Composition`, `OpenLevels`): that such a function exists rests on
the graph being free of cycles, hence on the depth-first walk of
`validateForCycles` finding every cycle. The first half of `ValidationIsExact`,
that a rejected pipeline is not `Wellformed`, for the same reason. `RestParsing`,
whose recursive operators the prover cannot be used with.

## 5. Not modelled, and the plan

Not modelled, and why:

* **Server lifecycle** (`server.cpp`, modules): one thread starts and stops
  modules in order; the rest is in the gRPC and HTTP libraries.
* **Metrics registry, profiling, logging**: the gauges of the stream guards and
  the request counters are modelled, collecting them is the business of the
  prometheus library.
* **Internal managers of custom node libraries** and the conversion of tensors to
  the C interface: what a library does is its own.
* **Command line parsing and the JSON schema**: text in, settings out, by
  libraries; what is made of the settings is in `ModelConfig`.
* **Values of tensors, image codecs, credentials and connection strings.**
* **Directories `1` and `01`**, which `std::stoll` maps to one version.
* **Parameters and libraries of the nodes of a definition**: `nodeResources` is
  keyed by the name of a node, so that a node that keeps its name keeps its old
  resource (`pipelinedefinition.cpp:107`).

What is left of the plan:

1. **Proofs**: that `validateForCycles` finds every cycle, with which
   `DeliversComposition` could be proved from what `OKInv` says of the tensors
   that were sent.
2. **Composition** of `ModelInstance` with `ModelVersions`: a default version
   that a failed dynamic reload has made unavailable (`modelinstance.cpp:983`).
3. **Resources of custom nodes** in `PipelineDefinition`.
