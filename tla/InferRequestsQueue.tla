------------------------ MODULE InferRequestsQueue --------------------------
(***************************************************************************)
(* The queue of inference requests of one loaded model (Queue<T> in        *)
(* src/src/queue.hpp, instantiated by OVInferRequestsQueue) and the two    *)
(* RAII guards that take streams from it:                                  *)
(*   - ExecutingStreamIdGuard, used by ModelInstance::infer: blocks in its *)
(*     constructor until it has a stream ("Requests");                     *)
(*   - NodeStreamIdGuard, used by DLNodeSession: asks for a stream, polls  *)
(*     for it, and may be disarmed or destroyed before it uses one         *)
(*     ("Sessions").                                                       *)
(* Idle streams sit in a ring.  The front of the ring is guarded by        *)
(* front_mut, its back and the queue of promises by queue_mutex, and the   *)
(* two are taken one after the other, which is where the interleavings     *)
(* are.  A step is what a thread does up to the next point where another   *)
(* thread can interfere; a mutex variable appears for a mutex that stays   *)
(* locked between two steps.                                               *)
(***************************************************************************)
EXTENDS Integers, Sequences, FiniteSets

CONSTANTS
    Requests,   \* single-model requests: ExecutingStreamIdGuard objects
    Sessions,   \* pipeline node sessions: NodeStreamIdGuard objects
    NIREQ       \* streams.size(), the number of inference requests

ASSUME NIREQAssumption == NIREQ \in Nat \ {0}
ASSUME GuardsAssumption == Requests \cap Sessions = {}

Guards == Requests \cup Sessions
Streams == 0 .. NIREQ - 1
None == -1                      \* an empty slot, or no stream yet
Free == "free"                  \* an unlocked mutex

\* Free stands for no guard.
ASSUME FreeAssumption == Free \notin Guards

PCs == {"idle", "get", "push", "ctor", "wait", "hold", "ret", "deliver", "store", "done"}

VARIABLES
    streams,            \* the ring: slot -> idle stream, or None when consumed
    front_idx,          \* slot of the next stream to hand out
    back_idx,           \* slot of the next stream to come back
    front_mut,          \* the guard whose thread holds front_mut, or Free
    queue_mutex,        \* the guard whose thread holds queue_mutex, or Free
    promises,           \* the guards whose promise is queued
    future,             \* value of each guard's future, None before set_value
    streamId,           \* the stream a guard has read from its future
    target,             \* the guard whose promise a returning thread popped (itself: none)
    old_back,           \* the slot a returning thread has reserved (0 when it has none)
    pc,                 \* where each guard is
    currentRequests,    \* gauge ovms_current_requests
    inferReqActive      \* gauge ovms_infer_req_active

ring == <<streams, front_idx, back_idx>>
gauges == <<currentRequests, inferReqActive>>
vars == <<streams, front_idx, back_idx, front_mut, queue_mutex, promises, future,
          streamId, target, old_back, pc, currentRequests, inferReqActive>>

Init ==
    /\ streams = [i \in Streams |-> i]
    /\ front_idx = 0
    /\ back_idx = 0
    /\ front_mut = Free
    /\ queue_mutex = Free
    /\ promises = <<>>
    /\ future = [g \in Guards |-> None]
    /\ streamId = [g \in Guards |-> None]
    /\ target = [g \in Guards |-> g]
    /\ old_back = [g \in Guards |-> 0]
    /\ pc = [g \in Guards |-> "idle"]
    /\ currentRequests = 0
    /\ inferReqActive = 0

Goto(g, label) == pc' = [pc EXCEPT ![g] = label]

(***************************************************************************)
(* Taking a stream                                                         *)
(***************************************************************************)

\* A guard is constructed; the one of a single-model request counts itself
\* in ovms_current_requests before it asks for a stream.
Construct(g) ==
    /\ pc[g] = "idle"
    /\ currentRequests' = IF g \in Requests THEN currentRequests + 1 ELSE currentRequests
    /\ Goto(g, "get")
    /\ UNCHANGED <<ring, front_mut, queue_mutex, promises, future, streamId, target,
                   old_back, inferReqActive>>

AfterGetIdleStream(g) == IF g \in Requests THEN "wait" ELSE "ctor"

\* Wrong variant: the stream is handed out and stays in the ring.
TakeIdleStream_NotConsumed(g) ==
    /\ pc[g] = "get"
    /\ front_mut = Free
    /\ streams[front_idx] # None
    /\ future' = [future EXCEPT ![g] = streams[front_idx]]
    /\ front_idx' = (front_idx + 1) % NIREQ
    /\ Goto(g, AfterGetIdleStream(g))
    /\ UNCHANGED <<streams, back_idx, front_mut, queue_mutex, promises, streamId, target,
                   old_back, gauges>>

\* getIdleStream when the front slot holds a stream: it is taken, and the
\* promise is fulfilled at once.
TakeIdleStream(g) ==
    /\ pc[g] = "get"
    /\ front_mut = Free
    /\ streams[front_idx] # None
    /\ future' = [future EXCEPT ![g] = streams[front_idx]]
    /\ streams' = [streams EXCEPT ![front_idx] = None]
    /\ front_idx' = (front_idx + 1) % NIREQ
    /\ Goto(g, AfterGetIdleStream(g))
    /\ UNCHANGED <<back_idx, front_mut, queue_mutex, promises, streamId, target,
                   old_back, gauges>>

\* getIdleStream finds the front slot consumed; it keeps front_mut and goes on
\* to lock queue_mutex.
FindNoIdleStream(g) ==
    /\ pc[g] = "get"
    /\ front_mut = Free
    /\ streams[front_idx] = None
    /\ front_mut' = g
    /\ Goto(g, "push")
    /\ UNCHANGED <<ring, queue_mutex, promises, future, streamId, target, old_back, gauges>>

\* ... and queues its promise.
PushPromise(g) ==
    /\ pc[g] = "push"
    /\ queue_mutex = Free
    /\ promises' = Append(promises, g)
    /\ front_mut' = Free
    /\ Goto(g, AfterGetIdleStream(g))
    /\ UNCHANGED <<ring, queue_mutex, future, streamId, target, old_back, gauges>>

\* The body of NodeStreamIdGuard's constructor, after getIdleStream.
CountSession(g) ==
    /\ pc[g] = "ctor"
    /\ currentRequests' = currentRequests + 1
    /\ Goto(g, "wait")
    /\ UNCHANGED <<ring, front_mut, queue_mutex, promises, future, streamId, target,
                   old_back, inferReqActive>>

(***************************************************************************)
(* Using a stream                                                          *)
(***************************************************************************)

\* The future is ready: futureStreamId.get() in ExecutingStreamIdGuard's
\* constructor or in NodeStreamIdGuard::tryGetId.  From here on the guard's
\* inference request runs, or ~NodeStreamIdGuard, which raises the gauge for a
\* stream that was never fetched, goes on to lower it.
StartInference(g) ==
    /\ pc[g] = "wait"
    /\ future[g] # None
    /\ streamId' = [streamId EXCEPT ![g] = future[g]]
    /\ future' = [future EXCEPT ![g] = None]
    /\ inferReqActive' = inferReqActive + 1
    /\ Goto(g, "hold")
    /\ UNCHANGED <<ring, front_mut, queue_mutex, promises, target, old_back, currentRequests>>

\* The inference is over and the guard is destroyed: the gauge goes down
\* before the stream is returned.
EndInference(g) ==
    /\ pc[g] = "hold"
    /\ inferReqActive' = inferReqActive - 1
    /\ Goto(g, "ret")
    /\ UNCHANGED <<ring, front_mut, queue_mutex, promises, future, streamId, target,
                   old_back, currentRequests>>

\* Wrong variant: disarming lowers a gauge that was never raised.
Disarm_LowersGauge(g) ==
    /\ pc[g] = "wait"
    /\ g \in Sessions
    /\ future[g] # None
    /\ streamId' = [streamId EXCEPT ![g] = future[g]]
    /\ future' = [future EXCEPT ![g] = None]
    /\ inferReqActive' = inferReqActive - 1
    /\ Goto(g, "ret")
    /\ UNCHANGED <<ring, front_mut, queue_mutex, promises, target, old_back, currentRequests>>

\* NodeStreamIdGuard::tryDisarm: the stream is taken from the future only to
\* be returned, and was never counted as active.
Disarm(g) ==
    /\ pc[g] = "wait"
    /\ g \in Sessions
    /\ future[g] # None
    /\ streamId' = [streamId EXCEPT ![g] = future[g]]
    /\ future' = [future EXCEPT ![g] = None]
    /\ Goto(g, "ret")
    /\ UNCHANGED <<ring, front_mut, queue_mutex, promises, target, old_back, gauges>>

(***************************************************************************)
(* Returning a stream: returnStream                                        *)
(***************************************************************************)

\* Wrong variant: the newest promise is popped.
PopPromise_Newest(g) ==
    /\ pc[g] = "ret"
    /\ queue_mutex = Free
    /\ promises # <<>>
    /\ target' = [target EXCEPT ![g] = promises[Len(promises)]]
    /\ promises' = SubSeq(promises, 1, Len(promises) - 1)
    /\ Goto(g, "deliver")
    /\ UNCHANGED <<ring, front_mut, queue_mutex, future, streamId, old_back, gauges>>

\* A promise is queued: it is popped and queue_mutex unlocked.
PopPromise(g) ==
    /\ pc[g] = "ret"
    /\ queue_mutex = Free
    /\ promises # <<>>
    /\ target' = [target EXCEPT ![g] = Head(promises)]
    /\ promises' = Tail(promises)
    /\ Goto(g, "deliver")
    /\ UNCHANGED <<ring, front_mut, queue_mutex, future, streamId, old_back, gauges>>

\* promise.set_value(streamID)
SetValue(g) ==
    /\ pc[g] = "deliver"
    /\ future' = [future EXCEPT ![target[g]] = streamId[g]]
    /\ streamId' = [streamId EXCEPT ![g] = None]
    /\ target' = [target EXCEPT ![g] = g]
    /\ Goto(g, "done")
    /\ UNCHANGED <<ring, front_mut, queue_mutex, promises, old_back, gauges>>

\* No promise is queued: the compare-and-swap moves back_idx and reserves a
\* slot, while queue_mutex stays locked.
ReserveSlot(g) ==
    /\ pc[g] = "ret"
    /\ queue_mutex = Free
    /\ promises = <<>>
    /\ queue_mutex' = g
    /\ old_back' = [old_back EXCEPT ![g] = back_idx]
    /\ back_idx' = (back_idx + 1) % NIREQ
    /\ Goto(g, "store")
    /\ UNCHANGED <<streams, front_idx, front_mut, promises, future, streamId, target, gauges>>

\* streams[old_back] = streamID, seen by a thread that holds only front_mut.
StoreStream(g) ==
    /\ pc[g] = "store"
    /\ streams' = [streams EXCEPT ![old_back[g]] = streamId[g]]
    /\ streamId' = [streamId EXCEPT ![g] = None]
    /\ queue_mutex' = Free
    /\ old_back' = [old_back EXCEPT ![g] = 0]
    /\ Goto(g, "done")
    /\ UNCHANGED <<front_idx, back_idx, front_mut, promises, future, target, gauges>>

\* The destructor ends and the guard leaves ovms_current_requests.
Destroy(g) ==
    /\ pc[g] = "done"
    /\ currentRequests' = currentRequests - 1
    /\ Goto(g, "idle")
    /\ UNCHANGED <<ring, front_mut, queue_mutex, promises, future, streamId, target,
                   old_back, inferReqActive>>

-----------------------------------------------------------------------------

\* What the thread that owns guard g does once it has constructed it.
Proceed(g) ==
    \/ TakeIdleStream(g) \/ FindNoIdleStream(g) \/ PushPromise(g)
    \/ CountSession(g)   \/ StartInference(g)   \/ EndInference(g)
    \/ Disarm(g)         \/ PopPromise(g)       \/ SetValue(g)
    \/ ReserveSlot(g)    \/ StoreStream(g)      \/ Destroy(g)

Next == \E g \in Guards : Construct(g) \/ Proceed(g)

Spec == Init /\ [][Next]_vars

(***************************************************************************)
(* A thread inside a guard keeps running, a thread that asks for a mutex   *)
(* that keeps becoming free gets it, and a running inference ends.         *)
(* Nothing makes a new request arrive.  Every step of a thread moves its   *)
(* program counter, so one condition for all of its steps says the same as *)
(* one for each.                                                           *)
(***************************************************************************)
Fairness == \A g \in Guards : SF_vars(Proceed(g))

FairSpec == Spec /\ Fairness

-----------------------------------------------------------------------------
(***************************************************************************)
(* Correctness                                                             *)
(***************************************************************************)

\* Every variable of the queue and of its guards has its type.
TypeOK ==
    /\ streams \in [Streams -> Streams \cup {None}]
    /\ front_idx \in Streams
    /\ back_idx \in Streams
    /\ front_mut \in Guards \cup {Free}
    /\ queue_mutex \in Guards \cup {Free}
    /\ promises \in Seq(Guards)
    /\ future \in [Guards -> Streams \cup {None}]
    /\ streamId \in [Guards -> Streams \cup {None}]
    /\ target \in [Guards -> Guards]
    /\ old_back \in [Guards -> Streams]
    /\ pc \in [Guards -> PCs]
    /\ currentRequests \in Int
    /\ inferReqActive \in Int

\* No stream is in two places at once: in two slots of the ring, in two
\* futures, in two guards, or in two of these (queue.hpp getIdleStream and
\* returnStream).  Two inferences never run on one ov::InferRequest.
ExclusiveStreams ==
    /\ \A i, j \in Streams : i # j /\ streams[i] # None => streams[i] # streams[j]
    /\ \A g, h \in Guards :
         g # h => /\ future[g] # None => future[g] # future[h]
                  /\ streamId[g] # None => streamId[g] # streamId[h]
    /\ \A g, h \in Guards : future[g] # None => future[g] # streamId[h]
    /\ \A i \in Streams, g \in Guards :
         streams[i] # None => streams[i] # future[g] /\ streams[i] # streamId[g]

Occupied == {i \in Streams : streams[i] # None}
\* The guards whose inference runs: they have raised inferReqActive and not
\* lowered it yet.
Running == {g \in Guards : pc[g] = "hold"}
\* The guards that are counted: that of a single-model request before it asks
\* for a stream, that of a session after it asked.
Current ==
    {g \in Guards : pc[g] # "idle" /\ (g \in Requests \/ pc[g] \notin {"get", "push", "ctor"})}

\* The gauges that are exported are the numbers of guards they stand for,
\* whichever way each guard is left, and the active inference requests are at
\* most the streams (executingstreamidguard.cpp and nodestreamidguard.cpp).
GaugesAgree ==
    /\ inferReqActive = Cardinality(Running)
    /\ currentRequests = Cardinality(Current)
    /\ inferReqActive <= NIREQ

\* The idle streams, in the order in which getIdleStream will find them.
IdleStreams ==
    [k \in 1 .. Cardinality(Occupied) |-> streams[(front_idx + k - 1) % NIREQ]]

\* The stream a guard owns: in its future, in its streamId, or popped for it
\* by a thread that has not called set_value yet.
StreamGiven(g) ==
    LET givers == {h \in Guards : pc[h] = "deliver" /\ target[h] = g}
    IN  IF givers # {} THEN streamId[CHOOSE h \in givers : TRUE]
        ELSE IF pc[g] = "deliver" THEN None
        ELSE IF future[g] # None THEN future[g]
        ELSE streamId[g]

\* The queue implements the pool: FIFO hand-out, FIFO service of the queued
\* promises, no stream in two hands (queue.hpp).
Pool == INSTANCE StreamPool WITH
            idle <- IdleStreams,
            waiters <- promises,
            given <- [g \in Guards |-> StreamGiven(g)]

ImplementsPool == Pool!Spec

Waiting(g) == pc[g] \in {"ctor", "wait"} /\ future[g] = None
AllIdle == \A i \in Streams : streams[i] # None

\* A guard that waits for a stream gets one, or else every stream ends up
\* idle in the ring with the guard's promise still queued: the lost wake-up
\* between getIdleStream and returnStream is the only way to wait for ever.
ServedOrAllIdle ==
    \A g \in Guards : Waiting(g) ~> (future[g] # None \/ AllIdle)
=============================================================================
