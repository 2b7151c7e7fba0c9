-------------------------- MODULE SequenceManager ---------------------------
(***************************************************************************)
(* The sequences of one stateful model version: the map that               *)
(* SequenceManager keeps, the requests that StatefulModelInstance::infer   *)
(* runs on it and the cleaner thread that scans it.                        *)
(*                                                                         *)
(* Three things are locked, by different rules: the mutex of the manager   *)
(* (around every use of the map), the mutex of one sequence (around one    *)
(* request of it; it is taken while the manager's is held) and a stream    *)
(* of the inference queue (taken while the sequence's is held, given back  *)
(* at the very end of infer).  The queue itself is InferRequestsQueue; here*)
(* a stream is taken when one is idle.                                     *)
(*                                                                         *)
(* The state of the model is abstracted to the number of inferences that   *)
(* led to it, and sequence ids to numbers of a small width: the counter    *)
(* from which unique ids are drawn wraps around as a uint64_t does.        *)
(***************************************************************************)
EXTENDS Integers, FiniteSets

CONSTANTS
    Requests,           \* threads that serve requests for this model
    Streams,            \* streams of its inference queue
    MaxSequenceId,      \* the largest value of a sequence id
    MaxSequenceNumber,  \* max_sequence_number of the configuration
    MaxInferences,      \* bound: inferences in one sequence
    Cleaner,            \* the cleaner thread
    None

ASSUME IdAssumption == MaxSequenceId \in Nat \ {0}
\* getUniqueSequenceId ends because the map never holds every id.
ASSUME RoomAssumption == MaxSequenceNumber \in Nat /\ MaxSequenceNumber < MaxSequenceId
ASSUME BoundAssumption == MaxInferences \in Nat \ {0}
ASSUME ThreadsAssumption == None \notin Requests \cup Streams \cup {Cleaner} /\ Cleaner \notin Requests

Ids == 1 .. MaxSequenceId
Controls == {"NO_CONTROL_INPUT", "SEQUENCE_START", "SEQUENCE_END"}
MemoryStates == 0 .. MaxInferences

PCs == {"idle", "process", "lock", "stream", "pre", "infer", "post", "remove"}

VARIABLES
    sequences,          \* the map: one record per id, with exists saying whether it is there
    sequenceIdCounter,  \* where the search for a unique id starts
    managerMutex,       \* who holds the mutex of the manager
    toScan,             \* the sequences the cleaner has not come to in this scan
    pc,                 \* where each request is
    spec,               \* its SequenceProcessingSpec
    stream,             \* the stream its guard holds
    streamState,        \* the memory state of each stream's infer request
    inferences,         \* history: successful inferences of each sequence since it was created
    used                \* history: the sequences with a valid request since the cleaner came by

vars == <<sequences, sequenceIdCounter, managerMutex, toScan, pc, spec, stream, streamState,
          inferences, used>>
history == <<inferences, used>>

Sequence == [exists : BOOLEAN, mutex : Requests \cup {None}, memoryState : MemoryStates,
             terminated : BOOLEAN, idle : BOOLEAN]
Specs == [sequenceId : 0 .. MaxSequenceId, control : Controls]

\* A Sequence as its constructor leaves it; memoryState 0: nothing saved yet.
NewSequence == [exists |-> TRUE, mutex |-> None, memoryState |-> 0,
                terminated |-> FALSE, idle |-> FALSE]
NoSequence == [NewSequence EXCEPT !.exists = FALSE]
NoSpec == [sequenceId |-> 0, control |-> "NO_CONTROL_INPUT"]

Init ==
    /\ sequences = [s \in Ids |-> NoSequence]
    /\ sequenceIdCounter = 1
    /\ managerMutex = None
    /\ toScan = {}
    /\ pc = [r \in Requests |-> "idle"]
    /\ spec = [r \in Requests |-> NoSpec]
    /\ stream = [r \in Requests |-> None]
    /\ streamState = [i \in Streams |-> 0]
    /\ inferences = [s \in Ids |-> 0]
    /\ used = {}

Goto(r, label) == pc' = [pc EXCEPT ![r] = label]

Existing == {s \in Ids : sequences[s].exists}
HasSequence(s) == s \in Existing /\ ~sequences[s].terminated

\* The request is answered, whatever the answer.
Return(r) ==
    /\ Goto(r, "idle")
    /\ spec' = [spec EXCEPT ![r] = NoSpec]

(***************************************************************************)
(* Before the inference: validation, then processRequestedSpec under the   *)
(* mutex of the manager                                                    *)
(***************************************************************************)

\* A request that validateSpecialKeys lets through: only SEQUENCE_START may
\* leave the id to the server.
Arrive(r, s, control) ==
    /\ pc[r] = "idle"
    /\ control # "SEQUENCE_START" => s # 0
    /\ spec' = [spec EXCEPT ![r] = [sequenceId |-> s, control |-> control]]
    /\ Goto(r, "process")
    /\ UNCHANGED <<sequences, sequenceIdCounter, managerMutex, toScan, stream, streamState, history>>

\* The sequence is erased from the map.
Erase(s) ==
    /\ sequences' = [sequences EXCEPT ![s] = NoSequence]
    /\ inferences' = [inferences EXCEPT ![s] = 0]
    /\ used' = used \ {s}

\* How far the counter has to be incremented, modulo its width, to reach s.
Ahead(s) == (s - sequenceIdCounter) % (MaxSequenceId + 1)

\* getUniqueSequenceId: the counter moves on to the first id, 0 excepted,
\* that no sequence has, and stays there.
UniqueSequenceId ==
    CHOOSE s \in Ids \ Existing : \A t \in Ids \ Existing : Ahead(s) <= Ahead(t)

\* The sequence s is put into the map, and the request goes on to lock it.
Emplace(r, s) ==
    /\ sequences' = [sequences EXCEPT ![s] = NewSequence]
    /\ managerMutex' = r
    /\ UNCHANGED history
    /\ spec' = [spec EXCEPT ![r].sequenceId = s]
    /\ Goto(r, "lock")

RoomForSequence == Cardinality(Existing) < MaxSequenceNumber

\* createSequence for a request that leaves the id to the server.
CreateUniqueSequence(r) ==
    /\ spec[r] = [sequenceId |-> 0, control |-> "SEQUENCE_START"]
    /\ RoomForSequence
    /\ Emplace(r, UniqueSequenceId)
    /\ sequenceIdCounter' = UniqueSequenceId

\* createSequence with an id of the client's choice.
CreateSequence(r) ==
    LET s == spec[r].sequenceId IN
    /\ spec[r].control = "SEQUENCE_START"
    /\ s # 0
    /\ RoomForSequence
    /\ s \notin Existing
    /\ Emplace(r, s)
    /\ UNCHANGED sequenceIdCounter

\* hasSequence, for a request in the middle of a sequence.
ContinueSequence(r) ==
    /\ spec[r].control = "NO_CONTROL_INPUT"
    /\ HasSequence(spec[r].sequenceId)
    /\ managerMutex' = r
    /\ Goto(r, "lock")
    /\ UNCHANGED <<sequences, sequenceIdCounter, spec, history>>

\* terminateSequence: from now on the sequence is closed to other requests.
TerminateSequence(r) ==
    LET s == spec[r].sequenceId IN
    /\ spec[r].control = "SEQUENCE_END"
    /\ HasSequence(s)
    /\ sequences' = [sequences EXCEPT ![s].terminated = TRUE]
    /\ managerMutex' = r
    /\ Goto(r, "lock")
    /\ UNCHANGED <<sequenceIdCounter, spec, history>>

\* The errors of createSequence, hasSequence and terminateSequence: the
\* limit is reached, the id is taken, or there is no such sequence.
RefuseSpec(r) ==
    LET s == spec[r].sequenceId IN
    /\ IF spec[r].control = "SEQUENCE_START"
       THEN ~RoomForSequence \/ s \in Existing
       ELSE ~HasSequence(s)
    /\ Return(r)
    /\ UNCHANGED <<sequences, sequenceIdCounter, managerMutex, history>>

ProcessRequestedSpec(r) ==
    /\ pc[r] = "process"
    /\ managerMutex = None
    /\ \/ CreateUniqueSequence(r)
       \/ CreateSequence(r)
       \/ ContinueSequence(r)
       \/ TerminateSequence(r)
       \/ RefuseSpec(r)
    /\ UNCHANGED <<toScan, stream, streamState>>

\* Wrong variant: the mutex of the manager is kept during the inference.
LockSequence_KeepsManager(r) ==
    /\ pc[r] = "lock"
    /\ sequences[spec[r].sequenceId].mutex = None
    /\ sequences' = [sequences EXCEPT ![spec[r].sequenceId].mutex = r]
    /\ Goto(r, "stream")
    /\ UNCHANGED <<sequenceIdCounter, managerMutex, toScan, spec, stream, streamState, history>>

\* The request waits for the mutex of its sequence, holding that of the
\* manager, and gives the latter back once it has the former.
LockSequence(r) ==
    /\ pc[r] = "lock"
    /\ sequences[spec[r].sequenceId].mutex = None
    /\ sequences' = [sequences EXCEPT ![spec[r].sequenceId].mutex = r]
    /\ managerMutex' = None
    /\ Goto(r, "stream")
    /\ UNCHANGED <<sequenceIdCounter, toScan, spec, stream, streamState, history>>

(***************************************************************************)
(* The inference                                                           *)
(***************************************************************************)

\* The request leaves infer before or without removing its sequence: its
\* stream goes back to the queue and its sequence is unlocked.
LeaveSequence(r) ==
    /\ stream' = [stream EXCEPT ![r] = None]
    /\ Return(r)
    /\ UNCHANGED <<sequenceIdCounter, managerMutex, toScan>>

\* The constructor of ExecutingStreamIdGuard waits for an idle stream.
AcquireStream(r, i) ==
    /\ pc[r] = "stream"
    /\ i \notin {stream[q] : q \in Requests}
    /\ stream' = [stream EXCEPT ![r] = i]
    /\ Goto(r, "pre")
    /\ UNCHANGED <<sequences, sequenceIdCounter, managerMutex, toScan, spec, streamState, history>>

\* Wrong variant: the stream keeps the state of the sequence it last served.
PreInferenceProcessing_NoReset(r) ==
    LET memoryState == sequences[spec[r].sequenceId].memoryState IN
    /\ pc[r] = "pre"
    /\ \/ /\ spec[r].control = "SEQUENCE_START"
          /\ UNCHANGED streamState
       \/ /\ spec[r].control # "SEQUENCE_START"
          /\ memoryState # 0
          /\ streamState' = [streamState EXCEPT ![stream[r]] = memoryState]
    /\ Goto(r, "infer")
    /\ UNCHANGED <<sequences, sequenceIdCounter, managerMutex, toScan, spec, stream, history>>

\* preInferenceProcessing: the first request of a sequence resets the state
\* of the stream, a later one sets it to what the sequence saved.
PreInferenceProcessing(r) ==
    LET memoryState == sequences[spec[r].sequenceId].memoryState IN
    /\ pc[r] = "pre"
    /\ \/ /\ spec[r].control = "SEQUENCE_START"
          /\ streamState' = [streamState EXCEPT ![stream[r]] = 0]
       \/ /\ spec[r].control # "SEQUENCE_START"
          /\ memoryState # 0
          /\ streamState' = [streamState EXCEPT ![stream[r]] = memoryState]
    /\ Goto(r, "infer")
    /\ UNCHANGED <<sequences, sequenceIdCounter, managerMutex, toScan, spec, stream, history>>

\* Deserialization and inference succeed: the stream's state advances.
PerformInference(r) ==
    /\ pc[r] = "infer"
    /\ streamState[stream[r]] < MaxInferences
    /\ streamState' = [streamState EXCEPT ![stream[r]] = @ + 1]
    /\ Goto(r, "post")
    /\ UNCHANGED <<sequences, sequenceIdCounter, managerMutex, toScan, spec, stream, history>>

\* An error on the way: the sequence has saved nothing to start from
\* (preInferenceProcessing), or deserialization, inference or serialization
\* fails.  The guards unwind; the sequence is left as it is.
FailInference(r) ==
    LET s == spec[r].sequenceId IN
    /\ \/ pc[r] = "pre" /\ spec[r].control # "SEQUENCE_START" /\ sequences[s].memoryState = 0
       \/ pc[r] \in {"infer", "post"}
    /\ sequences' = [sequences EXCEPT ![s].mutex = None]
    /\ LeaveSequence(r)
    /\ UNCHANGED <<streamState, history>>

\* postInferenceProcessing and the return of a request that does not end its
\* sequence: updateMemoryState saves the stream's state, the sequence is not
\* idle any more and is unlocked.
PostInferenceProcessing(r) ==
    LET s == spec[r].sequenceId IN
    /\ pc[r] = "post"
    /\ spec[r].control # "SEQUENCE_END"
    /\ sequences' = [sequences EXCEPT ![s].mutex = None,
                                      ![s].memoryState = streamState[stream[r]],
                                      ![s].idle = FALSE]
    /\ inferences' = [inferences EXCEPT ![s] = @ + 1]
    /\ used' = used \cup {s}
    /\ LeaveSequence(r)
    /\ UNCHANGED streamState

\* The same for a request that ends its sequence: the stream's state is reset
\* and the sequence unlocked; the stream stays with the request.
PostInferenceProcessingEnd(r) ==
    LET s == spec[r].sequenceId IN
    /\ pc[r] = "post"
    /\ spec[r].control = "SEQUENCE_END"
    /\ sequences' = [sequences EXCEPT ![s].mutex = None]
    /\ streamState' = [streamState EXCEPT ![stream[r]] = 0]
    /\ Goto(r, "remove")
    /\ UNCHANGED <<sequenceIdCounter, managerMutex, toScan, spec, stream, history>>

\* removeSequence, under the mutex of the manager again; an id that is not
\* there any more is an error to the client and changes nothing.  On return
\* the stream goes back to the queue.
RemoveSequence(r) ==
    /\ pc[r] = "remove"
    /\ managerMutex = None
    /\ Erase(spec[r].sequenceId)
    /\ LeaveSequence(r)
    /\ UNCHANGED streamState

(***************************************************************************)
(* The cleaner thread: removeIdleSequences                                 *)
(***************************************************************************)

BeginScan ==
    /\ managerMutex = None
    /\ managerMutex' = Cleaner
    /\ toScan' = Existing
    /\ UNCHANGED <<sequences, sequenceIdCounter, pc, spec, stream, streamState, history>>

\* Wrong variant: a sequence that is about to be removed is removed here too.
Scannable_Terminated(s) == sequences[s].mutex = None

\* Neither closed by SEQUENCE_END nor locked by a request (try_to_lock).
Scannable(s) == ~sequences[s].terminated /\ sequences[s].mutex = None

\* Wrong variant: a sequence that is not idle is not marked.
MarkIdle_Lost(s) == UNCHANGED <<sequences, inferences>> /\ used' = used \ {s}

\* The sequence counts as idle until its next valid request.
MarkIdle(s) ==
    /\ sequences' = [sequences EXCEPT ![s].idle = TRUE]
    /\ used' = used \ {s}
    /\ UNCHANGED inferences

\* One sequence of the scan, in the order of the hash map.
ScanSequence(s) ==
    /\ s \in toScan
    /\ managerMutex = Cleaner
    /\ \/ Scannable(s) /\ sequences[s].idle /\ Erase(s)
       \/ Scannable(s) /\ ~sequences[s].idle /\ MarkIdle(s)
       \/ ~Scannable(s) /\ used' = used \ {s} /\ UNCHANGED <<sequences, inferences>>
    /\ toScan' = toScan \ {s}
    /\ UNCHANGED <<sequenceIdCounter, managerMutex, pc, spec, stream, streamState>>

EndScan ==
    /\ managerMutex = Cleaner
    /\ toScan = {}
    /\ managerMutex' = None
    /\ UNCHANGED <<sequences, sequenceIdCounter, toScan, pc, spec, stream, streamState, history>>

Scan == BeginScan \/ (\E s \in Ids : ScanSequence(s)) \/ EndScan

\* What a request does once it has arrived.
Serve(r) ==
    \/ ProcessRequestedSpec(r)
    \/ LockSequence(r)
    \/ \E i \in Streams : AcquireStream(r, i)
    \/ PreInferenceProcessing(r)
    \/ PerformInference(r)
    \/ FailInference(r)
    \/ PostInferenceProcessing(r)
    \/ PostInferenceProcessingEnd(r)
    \/ RemoveSequence(r)

Next ==
    \/ \E r \in Requests, s \in 0 .. MaxSequenceId, control \in Controls : Arrive(r, s, control)
    \/ \E r \in Requests : Serve(r)
    \/ Scan

Spec == Init /\ [][Next]_vars

\* A thread goes on when it can.  It gets a mutex, or a stream through the
\* first-in first-out queue of promises, that is free again and again: the
\* cleaner sleeps for minutes between two scans.
FairSpec == Spec /\ SF_vars(Scan) /\ \A r \in Requests : SF_vars(Serve(r))

(***************************************************************************)
(* Properties                                                              *)
(***************************************************************************)

TypeOK ==
    /\ sequences \in [Ids -> Sequence]
    /\ sequenceIdCounter \in Ids
    /\ managerMutex \in Requests \cup {Cleaner, None}
    /\ toScan \subseteq Ids
    /\ pc \in [Requests -> PCs]
    /\ spec \in [Requests -> Specs]
    /\ stream \in [Requests -> Streams \cup {None}]
    /\ streamState \in [Streams -> MemoryStates]
    /\ inferences \in [Ids -> Nat]
    /\ used \subseteq Ids

Working == {"stream", "pre", "infer", "post"}

\* A request's reference to its sequence stays good: the sequence is in the
\* map while the request waits for it, works on it (alone) or is about to
\* remove it.  So infer never uses an erased Sequence, and removeSequence
\* finds the sequence that ends.
ReferencesAreGood ==
    \A r \in Requests :
        LET s == spec[r].sequenceId IN
        /\ pc[r] = "lock" => s \in Existing
        /\ pc[r] \in Working => s \in Existing /\ sequences[s].mutex = r
        /\ pc[r] = "remove" => s \in Existing /\ sequences[s].mutex = None

\* Each inference continues from the state that the last successful request
\* of the same sequence left, whatever the stream served in between and
\* whatever failed (preInferenceProcessing, postInferenceProcessing).
ContinuesItsSequence ==
    \A r \in Requests :
        pc[r] = "post" => streamState[stream[r]] = inferences[spec[r].sequenceId] + 1

\* max_sequence_number bounds the map (createSequence).
WithinMaxSequenceNumber == Cardinality(Existing) <= MaxSequenceNumber

\* The cleaner removes a sequence only if no valid request came between two
\* of its visits (removeIdleSequences).
RemovesOnlyIdle ==
    [][managerMutex = Cleaner =>
        \A s \in Existing \cap used : sequences'[s].exists]_vars

\* What holds up a request, or nothing: the mutex of the manager or of the
\* sequence, or all streams being in use.
HeldUp(r) ==
    \/ pc[r] \in {"process", "remove"} /\ managerMutex # None
    \/ pc[r] = "lock" /\ sequences[spec[r].sequenceId].mutex # None
    \/ pc[r] = "stream" /\ Streams \subseteq {stream[q] : q \in Requests}

GoesOn == managerMutex = Cleaner \/ \E r \in Requests : pc[r] # "idle" /\ ~HeldUp(r)

\* What can hold up everybody: while a request is unanswered, some request or
\* the cleaner can go on, unless every stream is with a request that waits to
\* remove its sequence.  The mutexes alone never close a circle (infer).
StuckOnlyForStreams ==
    (\E r \in Requests : pc[r] # "idle") =>
        \/ GoesOn
        \/ \A i \in Streams : \E r \in Requests : pc[r] = "remove" /\ stream[r] = i

\* What one expects of independent sequences: requests never all wait for
\* each other.
NoCircularWait == (\E r \in Requests : pc[r] # "idle") => GoesOn

Unused(s) == s \in Existing /\ \A r \in Requests : spec[r].sequenceId # s

\* A sequence that was not closed does not stay in the map for ever without
\* requests (removeIdleSequences).
AbandonedIsRemoved == \A s \in Ids : ~<>[](Unused(s) /\ ~sequences[s].terminated)
=============================================================================
