----------------------- MODULE SequenceManager_proofs -----------------------
(***************************************************************************)
(* Proofs about the sequences of a stateful model: for any number of       *)
(* requests and streams, any max_sequence_number and any width of the ids. *)
(*                                                                         *)
(* None of the properties is inductive.  What carries them is who holds    *)
(* what at which point of infer (LocksOK, StreamsOK), that a request which *)
(* ends a sequence is the last to have come through processRequestedSpec   *)
(* for it (EndingOK), and that what a sequence saved is what its history   *)
(* says (MemoryOK, WorkOK).                                                *)
(***************************************************************************)
EXTENDS SequenceManager, FiniteSetTheorems, WellFoundedInduction, TLAPS

Active == {"lock"} \cup Working \cup {"remove"}
WithStream == {"pre", "infer", "post", "remove"}

\* The mutex of the manager is with the request that waits for its sequence,
\* and the mutex of a sequence with the request that works on it.
LocksOK ==
    /\ \A r \in Requests : managerMutex = r <=> pc[r] = "lock"
    /\ \A r \in Requests : pc[r] \in Active => spec[r].sequenceId \in Existing
    /\ \A r \in Requests : pc[r] \in Working => sequences[spec[r].sequenceId].mutex = r
    /\ \A s \in Ids, r \in Requests :
        sequences[s].mutex = r => pc[r] \in Working /\ spec[r].sequenceId = s

\* A request that ends its sequence has closed it, and no other request has
\* come to the sequence since: at most one still works on it.
EndingOK ==
    \A r \in Requests :
        /\ pc[r] = "remove" => spec[r].control = "SEQUENCE_END"
        /\ pc[r] \in Active /\ spec[r].control = "SEQUENCE_END" =>
            /\ sequences[spec[r].sequenceId].terminated
            /\ \A q \in Requests \ {r} :
                pc[q] \in Active /\ spec[q].sequenceId = spec[r].sequenceId =>
                    pc[r] = "lock" /\ pc[q] \in Working /\ spec[q].control # "SEQUENCE_END"

\* A stream is with at most one request, and only during its inference.
StreamsOK ==
    /\ \A r \in Requests : pc[r] \in WithStream <=> stream[r] # None
    /\ \A r, q \in Requests : stream[r] = stream[q] /\ stream[r] # None => r = q

\* What a sequence saved is the state after all its successful requests.
MemoryOK ==
    \A s \in Ids :
        /\ sequences[s].memoryState = inferences[s]
        /\ s \notin Existing => inferences[s] = 0

\* A request works from the state of its sequence; a first request, from none.
WorkOK ==
    \A r \in Requests :
        LET s == spec[r].sequenceId IN
        /\ pc[r] \in {"lock"} \cup Working /\ spec[r].control = "SEQUENCE_START" =>
            inferences[s] = 0 /\ (pc[r] = "lock" => sequences[s].mutex = None)
        /\ pc[r] = "infer" => streamState[stream[r]] = inferences[s]
        /\ pc[r] = "post" => streamState[stream[r]] = inferences[s] + 1

\* A sequence with a valid request since the last visit is not marked idle.
UsedOK == \A s \in used : ~sequences[s].idle

IInv ==
    /\ TypeOK
    /\ LocksOK
    /\ EndingOK
    /\ StreamsOK
    /\ MemoryOK
    /\ WorkOK
    /\ UsedOK
    /\ WithinMaxSequenceNumber

-----------------------------------------------------------------------------

\* There are only finitely many sequences (Existing is a set of ids).
LEMMA ExistingFinite == IsFiniteSet(Existing) /\ Cardinality(Existing) \in Nat
<1>1. IsFiniteSet(Ids) BY IdAssumption, FS_Interval DEF Ids
<1>2. Existing \in SUBSET Ids BY DEF Existing
<1>3. IsFiniteSet(Existing) BY <1>1, <1>2, FS_Subset
<1> QED BY <1>3, FS_CardinalityType

\* A nonempty set of naturals has a least element.
LEMMA LeastNatural ==
    ASSUME NEW T \in SUBSET Nat, T # {}
    PROVE  \E x \in T : \A y \in T : x <= y
<1> DEFINE R == OpToRel(<, Nat)
<1>1. PICK x \in T : \A y \in T : <<y, x>> \notin R
    BY NatLessThanWellFounded, WFMin, Zenon
<1>2. \A y \in T : ~(y < x)
    BY <1>1 DEF OpToRel
<1> QED BY <1>2

\* getUniqueSequenceId finds an id that no sequence has.
LEMMA UniqueIdIsFree ==
    ASSUME TypeOK, RoomForSequence
    PROVE  UniqueSequenceId \in Ids /\ UniqueSequenceId \notin Existing
<1> DEFINE F == Ids \ Existing
           T == {Ahead(s) : s \in F}
<1>1. F # {}
  <2>1. SUFFICES ASSUME F = {} PROVE FALSE OBVIOUS
  <2>2. Existing = Ids BY <2>1 DEF Existing
  <2>3. Cardinality(Ids) = MaxSequenceId BY IdAssumption, FS_Interval DEF Ids
  <2> QED BY <2>2, <2>3, RoomAssumption, IdAssumption DEF RoomForSequence
<1>2. T \in SUBSET Nat
    BY IdAssumption DEF Ahead, Ids, TypeOK
<1>3. PICK x \in T : \A y \in T : x <= y
  <2>1. T # {} BY <1>1
  <2> HIDE DEF T
  <2> QED BY <1>2, <2>1, LeastNatural
<1>4. \E s \in F : \A t \in F : Ahead(s) <= Ahead(t)
    BY <1>3
<1>5. UniqueSequenceId \in F
    BY <1>4 DEF UniqueSequenceId
<1> QED BY <1>5

\* The records that the actions store have their types.
LEMMA Records == NewSequence \in Sequence /\ NoSequence \in Sequence /\ NoSpec \in Specs
<1>1. NewSequence \in Sequence
    BY BoundAssumption DEF NewSequence, Sequence, MemoryStates
<1>2. NoSequence \in Sequence
    BY <1>1 DEF NoSequence, Sequence
<1>3. NoSpec \in Specs
    BY IdAssumption DEF NoSpec, Specs, Controls
<1> QED BY <1>1, <1>2, <1>3

\* Setting a field of one Sequence keeps the type of the map.
LEMMA SetField ==
    ASSUME NEW f \in [Ids -> Sequence], NEW s, NEW m \in Requests \cup {None}
    PROVE  /\ [f EXCEPT ![s].mutex = m] \in [Ids -> Sequence]
           /\ [f EXCEPT ![s].terminated = TRUE] \in [Ids -> Sequence]
           /\ [f EXCEPT ![s].idle = TRUE] \in [Ids -> Sequence]
<1> DEFINE x == [f[s] EXCEPT !.mutex = m]
           y == [f[s] EXCEPT !.terminated = TRUE]
           z == [f[s] EXCEPT !.idle = TRUE]
<1>1. s \in Ids => f[s] \in Sequence OBVIOUS
<1>2. s \in Ids => x \in Sequence BY <1>1 DEF Sequence
<1>3. s \in Ids => y \in Sequence BY <1>1 DEF Sequence
<1>4. s \in Ids => z \in Sequence BY <1>1 DEF Sequence
<1> HIDE DEF x, y, z
<1>5. [f EXCEPT ![s] = x] \in [Ids -> Sequence] BY <1>2
<1>6. [f EXCEPT ![s] = y] \in [Ids -> Sequence] BY <1>3
<1>7. [f EXCEPT ![s] = z] \in [Ids -> Sequence] BY <1>4
<1> QED BY <1>5, <1>6, <1>7 DEF x, y, z

\* Every step keeps the types (the whole of infer and of a scan).
LEMMA TypeStep == ASSUME IInv, [Next]_vars PROVE TypeOK'
<1> USE BoundAssumption, ThreadsAssumption DEF IInv
<1>1. ASSUME NEW r \in Requests, NEW s \in 0 .. MaxSequenceId, NEW c \in Controls, Arrive(r, s, c)
      PROVE  TypeOK'
    BY <1>1 DEF Arrive, Goto, history, TypeOK, Specs, PCs
<1>2. ASSUME NEW r \in Requests, ProcessRequestedSpec(r), CreateUniqueSequence(r) PROVE TypeOK'
  <2> DEFINE u == UniqueSequenceId
  <2>1. u \in Ids /\ u \in 0 .. MaxSequenceId
    BY <1>2, UniqueIdIsFree DEF CreateUniqueSequence, Ids
  <2> HIDE DEF u
  <2>2. /\ sequences' = [sequences EXCEPT ![u] = NewSequence]
        /\ spec' = [spec EXCEPT ![r].sequenceId = u]
        /\ sequenceIdCounter' = u
    BY <1>2 DEF CreateUniqueSequence, Emplace, u
  <2>3. sequences' \in [Ids -> Sequence]
    BY <2>1, <2>2, Records DEF TypeOK
  <2>4. spec' \in [Requests -> Specs]
    BY <2>1, <2>2 DEF TypeOK, Specs
  <2> QED BY <1>2, <2>1, <2>2, <2>3, <2>4
    DEF ProcessRequestedSpec, CreateUniqueSequence, Emplace, Goto, history, TypeOK, PCs
<1>3. ASSUME NEW r \in Requests, ProcessRequestedSpec(r), CreateSequence(r) PROVE TypeOK'
  <2>1. sequences' \in [Ids -> Sequence]
    BY <1>3, Records DEF ProcessRequestedSpec, CreateSequence, Emplace, TypeOK, Specs, Ids
  <2>2. spec' \in [Requests -> Specs]
    BY <1>3 DEF ProcessRequestedSpec, CreateSequence, Emplace, TypeOK, Specs
  <2> QED BY <1>3, <2>1, <2>2 DEF ProcessRequestedSpec, CreateSequence, Emplace,
      Goto, history, TypeOK, PCs
<1>4. ASSUME NEW r \in Requests, ProcessRequestedSpec(r), ContinueSequence(r) PROVE TypeOK'
    BY <1>4 DEF ProcessRequestedSpec, ContinueSequence, Goto, history, TypeOK, PCs
<1>5. ASSUME NEW r \in Requests, ProcessRequestedSpec(r), TerminateSequence(r) PROVE TypeOK'
  <2>1. sequences' \in [Ids -> Sequence]
    BY <1>5, SetField DEF ProcessRequestedSpec, TerminateSequence, TypeOK
  <2>2. spec' \in [Requests -> Specs]
    BY <1>5 DEF ProcessRequestedSpec, TerminateSequence, TypeOK
  <2> QED BY <1>5, <2>1, <2>2 DEF ProcessRequestedSpec, TerminateSequence, Goto, history, TypeOK, PCs
<1>6. ASSUME NEW r \in Requests, ProcessRequestedSpec(r), RefuseSpec(r) PROVE TypeOK'
  <2>1. sequences' \in [Ids -> Sequence]
    BY <1>6 DEF ProcessRequestedSpec, RefuseSpec, TypeOK
  <2>2. spec' \in [Requests -> Specs]
    BY <1>6, Records DEF ProcessRequestedSpec, RefuseSpec, Return, TypeOK
  <2> QED BY <1>6, <2>1, <2>2 DEF ProcessRequestedSpec, RefuseSpec, Return, Goto,
      history, TypeOK, PCs
<1>7. ASSUME NEW r \in Requests, LockSequence(r) PROVE TypeOK'
  <2>1. sequences' \in [Ids -> Sequence]
    BY <1>7, SetField DEF LockSequence, TypeOK
  <2> QED BY <1>7, <2>1 DEF LockSequence, Goto, history, TypeOK, PCs
<1>8. ASSUME NEW r \in Requests, NEW i \in Streams, AcquireStream(r, i) PROVE TypeOK'
    BY <1>8 DEF AcquireStream, Goto, history, TypeOK, PCs
<1>9. ASSUME NEW r \in Requests, PreInferenceProcessing(r) PROVE TypeOK'
    BY <1>9 DEF PreInferenceProcessing, Goto, history, TypeOK, Sequence, PCs, MemoryStates,
        Working, Active, LocksOK, Existing
<1>10. ASSUME NEW r \in Requests, PerformInference(r) PROVE TypeOK'
    BY <1>10 DEF PerformInference, Goto, history, TypeOK, PCs, MemoryStates, WithStream, StreamsOK
<1>11. ASSUME NEW r \in Requests, FailInference(r) PROVE TypeOK'
  <2>1. sequences' \in [Ids -> Sequence]
    BY <1>11, SetField DEF FailInference, TypeOK
  <2>2. spec' \in [Requests -> Specs]
    BY <1>11, Records DEF FailInference, LeaveSequence, Return, TypeOK
  <2> QED BY <1>11, <2>1, <2>2 DEF FailInference, LeaveSequence, Return, Goto,
      history, TypeOK, PCs
<1>12. ASSUME NEW r \in Requests, PostInferenceProcessing(r) PROVE TypeOK'
  <2>1. streamState[stream[r]] \in MemoryStates
    BY <1>12 DEF PostInferenceProcessing, TypeOK, StreamsOK, WithStream
  <2>2. spec[r].sequenceId \in Ids
    BY <1>12 DEF PostInferenceProcessing, LocksOK, Active, Working, Existing
  <2>3. sequences' \in [Ids -> Sequence]
    <3> DEFINE s == spec[r].sequenceId
               m == streamState[stream[r]]
               x == [sequences[s] EXCEPT !.mutex = None, !.memoryState = m, !.idle = FALSE]
    <3>1. sequences' = [sequences EXCEPT ![s] = x]
      BY <1>12, <2>2 DEF PostInferenceProcessing, TypeOK, Sequence
    <3>2. sequences[s] \in Sequence BY <2>2 DEF TypeOK
    <3> HIDE DEF s, m
    <3>3. m \in MemoryStates BY <2>1 DEF m
    <3>4. x \in Sequence BY <3>2, <3>3 DEF Sequence
    <3> HIDE DEF x
    <3> QED BY <3>1, <3>4 DEF TypeOK
  <2>4. spec' \in [Requests -> Specs]
    BY <1>12, Records DEF PostInferenceProcessing, LeaveSequence, Return, TypeOK
  <2> QED BY <1>12, <2>2, <2>3, <2>4
    DEF PostInferenceProcessing, LeaveSequence, Return, Goto, TypeOK, PCs
<1>13. ASSUME NEW r \in Requests, PostInferenceProcessingEnd(r) PROVE TypeOK'
  <2>1. sequences' \in [Ids -> Sequence]
    BY <1>13, SetField DEF PostInferenceProcessingEnd, TypeOK
  <2>2. 0 \in MemoryStates BY DEF MemoryStates
  <2>3. streamState' \in [Streams -> MemoryStates]
    BY <1>13, <2>2 DEF PostInferenceProcessingEnd, TypeOK
  <2> QED BY <1>13, <2>1, <2>3 DEF PostInferenceProcessingEnd, Goto, history, TypeOK, PCs
<1>14. ASSUME NEW r \in Requests, RemoveSequence(r) PROVE TypeOK'
  <2>1. sequences' \in [Ids -> Sequence]
    BY <1>14, Records DEF RemoveSequence, Erase, TypeOK, LocksOK, Active, Existing
  <2>2. spec' \in [Requests -> Specs]
    BY <1>14, Records DEF RemoveSequence, LeaveSequence, Return, TypeOK
  <2> QED BY <1>14, <2>1, <2>2 DEF RemoveSequence, Erase, LeaveSequence, Return, Goto, TypeOK, PCs
<1>15. ASSUME BeginScan PROVE TypeOK'
    BY <1>15 DEF BeginScan, history, TypeOK, Existing
<1>16. ASSUME NEW s \in Ids, ScanSequence(s) PROVE TypeOK'
  <2>1. sequences' \in [Ids -> Sequence]
    <3>1. CASE Erase(s) BY <3>1, Records DEF Erase, TypeOK
    <3>2. CASE MarkIdle(s) BY <3>2, SetField DEF MarkIdle, TypeOK
    <3>3. CASE UNCHANGED <<sequences, inferences>> BY <3>3 DEF TypeOK
    <3> QED BY <1>16, <3>1, <3>2, <3>3 DEF ScanSequence
  <2> QED BY <1>16, <2>1 DEF ScanSequence, Erase, MarkIdle, TypeOK
<1>17. ASSUME EndScan PROVE TypeOK'
    BY <1>17 DEF EndScan, history, TypeOK
<1>18. ASSUME UNCHANGED vars PROVE TypeOK'
    BY <1>18 DEF vars, TypeOK
<1> QED BY <1>1, <1>2, <1>3, <1>4, <1>5, <1>6, <1>7, <1>8, <1>9, <1>10, <1>11, <1>12, <1>13, <1>14,
    <1>15, <1>16, <1>17, <1>18 DEF Next, Serve, ProcessRequestedSpec, Scan

\* Every step keeps the two kinds of mutexes where LocksOK says.  Sequences are
\* erased by the cleaner, which leaves locked and closed ones alone, and by the
\* request that ends them, after which nobody refers to them (EndingOK).
LEMMA LocksStep == ASSUME IInv, [Next]_vars PROVE LocksOK'
<1> USE ThreadsAssumption DEF IInv, TypeOK, Sequence, Specs, PCs, Working, Active, LocksOK,
    EndingOK, Existing, Ids
<1>1. ASSUME NEW r \in Requests, NEW s \in 0 .. MaxSequenceId, NEW c \in Controls, Arrive(r, s, c)
      PROVE  LocksOK'
    BY <1>1 DEF Arrive, Goto, history
<1>2. ASSUME NEW r \in Requests, ProcessRequestedSpec(r), CreateUniqueSequence(r) PROVE LocksOK'
    BY UniqueIdIsFree, <1>2 DEF ProcessRequestedSpec, CreateUniqueSequence, Emplace, NewSequence,
        Goto, history
<1>3. ASSUME NEW r \in Requests, ProcessRequestedSpec(r), CreateSequence(r) PROVE LocksOK'
    BY <1>3 DEF ProcessRequestedSpec, CreateSequence, Emplace, NewSequence, Goto, history
<1>4. ASSUME NEW r \in Requests, ProcessRequestedSpec(r), ContinueSequence(r) PROVE LocksOK'
    BY <1>4 DEF ProcessRequestedSpec, ContinueSequence, HasSequence, Goto, history
<1>5. ASSUME NEW r \in Requests, ProcessRequestedSpec(r), TerminateSequence(r) PROVE LocksOK'
    BY <1>5 DEF ProcessRequestedSpec, TerminateSequence, HasSequence, Goto, history
<1>6. ASSUME NEW r \in Requests, ProcessRequestedSpec(r), RefuseSpec(r) PROVE LocksOK'
    BY <1>6 DEF ProcessRequestedSpec, RefuseSpec, Return, NoSpec, Goto, history
<1>7. ASSUME NEW r \in Requests, LockSequence(r) PROVE LocksOK'
    BY <1>7 DEF LockSequence, Goto, history
<1>8. ASSUME NEW r \in Requests, NEW i \in Streams, AcquireStream(r, i) PROVE LocksOK'
    BY <1>8 DEF AcquireStream, Goto, history
<1>9. ASSUME NEW r \in Requests, PreInferenceProcessing(r) PROVE LocksOK'
    BY <1>9 DEF PreInferenceProcessing, Goto, history
<1>10. ASSUME NEW r \in Requests, PerformInference(r) PROVE LocksOK'
    BY <1>10 DEF PerformInference, Goto, history
<1>11. ASSUME NEW r \in Requests, FailInference(r) PROVE LocksOK'
    BY <1>11 DEF FailInference, LeaveSequence, Return, NoSpec, Goto, history
<1>12. ASSUME NEW r \in Requests, PostInferenceProcessing(r) PROVE LocksOK'
    BY <1>12 DEF PostInferenceProcessing, LeaveSequence, Return, NoSpec, Goto
<1>13. ASSUME NEW r \in Requests, PostInferenceProcessingEnd(r) PROVE LocksOK'
    BY <1>13 DEF PostInferenceProcessingEnd, Goto, history
<1>14. ASSUME NEW r \in Requests, RemoveSequence(r) PROVE LocksOK'
    BY <1>14 DEF RemoveSequence, Erase, NoSequence, NewSequence, LeaveSequence, Return, NoSpec, Goto
<1>15. ASSUME BeginScan PROVE LocksOK'
    BY <1>15 DEF BeginScan, history
<1>16. ASSUME NEW s \in Ids, ScanSequence(s) PROVE LocksOK'
  <2>1. CASE Scannable(s) /\ sequences[s].idle /\ Erase(s)
    BY <1>16, <2>1 DEF ScanSequence, Scannable, Erase, NoSequence, NewSequence
  <2>2. CASE Scannable(s) /\ ~sequences[s].idle /\ MarkIdle(s)
    BY <1>16, <2>2 DEF ScanSequence, MarkIdle
  <2>3. CASE UNCHANGED <<sequences, inferences>>
    BY <1>16, <2>3 DEF ScanSequence
  <2> QED BY <1>16, <2>1, <2>2, <2>3 DEF ScanSequence
<1>17. ASSUME EndScan PROVE LocksOK'
    BY <1>17 DEF EndScan, history
<1>18. ASSUME UNCHANGED vars PROVE LocksOK'
    BY <1>18 DEF vars, history
<1> QED BY <1>1, <1>2, <1>3, <1>4, <1>5, <1>6, <1>7, <1>8, <1>9, <1>10, <1>11, <1>12, <1>13, <1>14,
    <1>15, <1>16, <1>17, <1>18 DEF Next, Serve, ProcessRequestedSpec, Scan

\* A closed sequence stays closed, and nobody joins the request that ends it:
\* hasSequence turns everybody else away.
LEMMA EndingStep == ASSUME IInv, [Next]_vars PROVE EndingOK'
<1> USE ThreadsAssumption DEF IInv, TypeOK, Sequence, Specs, PCs, Working, Active, LocksOK,
    EndingOK, Existing, Ids
<1>1. ASSUME NEW r \in Requests, NEW s \in 0 .. MaxSequenceId, NEW c \in Controls, Arrive(r, s, c)
      PROVE  EndingOK'
    BY <1>1 DEF Arrive, Goto, history
<1>2. ASSUME NEW r \in Requests, ProcessRequestedSpec(r), CreateUniqueSequence(r) PROVE EndingOK'
    BY UniqueIdIsFree, <1>2 DEF ProcessRequestedSpec, CreateUniqueSequence, Emplace, NewSequence,
        Goto, history
<1>3. ASSUME NEW r \in Requests, ProcessRequestedSpec(r), CreateSequence(r) PROVE EndingOK'
    BY <1>3 DEF ProcessRequestedSpec, CreateSequence, Emplace, NewSequence, Goto, history
<1>4. ASSUME NEW r \in Requests, ProcessRequestedSpec(r), ContinueSequence(r) PROVE EndingOK'
    BY <1>4 DEF ProcessRequestedSpec, ContinueSequence, HasSequence, Goto, history
<1>5. ASSUME NEW r \in Requests, ProcessRequestedSpec(r), TerminateSequence(r) PROVE EndingOK'
    BY <1>5 DEF ProcessRequestedSpec, TerminateSequence, HasSequence, Goto, history
<1>6. ASSUME NEW r \in Requests, ProcessRequestedSpec(r), RefuseSpec(r) PROVE EndingOK'
    BY <1>6 DEF ProcessRequestedSpec, RefuseSpec, Return, NoSpec, Goto, history
<1>7. ASSUME NEW r \in Requests, LockSequence(r) PROVE EndingOK'
    BY <1>7 DEF LockSequence, Goto, history
<1>8. ASSUME NEW r \in Requests, NEW i \in Streams, AcquireStream(r, i) PROVE EndingOK'
    BY <1>8 DEF AcquireStream, Goto, history
<1>9. ASSUME NEW r \in Requests, PreInferenceProcessing(r) PROVE EndingOK'
    BY <1>9 DEF PreInferenceProcessing, Goto, history
<1>10. ASSUME NEW r \in Requests, PerformInference(r) PROVE EndingOK'
    BY <1>10 DEF PerformInference, Goto, history
<1>11. ASSUME NEW r \in Requests, FailInference(r) PROVE EndingOK'
    BY <1>11 DEF FailInference, LeaveSequence, Return, NoSpec, Goto, history
<1>12. ASSUME NEW r \in Requests, PostInferenceProcessing(r) PROVE EndingOK'
    BY <1>12 DEF PostInferenceProcessing, LeaveSequence, Return, NoSpec, Goto
<1>13. ASSUME NEW r \in Requests, PostInferenceProcessingEnd(r) PROVE EndingOK'
    BY <1>13 DEF PostInferenceProcessingEnd, Goto, history
<1>14. ASSUME NEW r \in Requests, RemoveSequence(r) PROVE EndingOK'
    BY <1>14 DEF RemoveSequence, Erase, NoSequence, NewSequence, LeaveSequence, Return, NoSpec, Goto
<1>15. ASSUME BeginScan PROVE EndingOK'
    BY <1>15 DEF BeginScan, history
<1>16. ASSUME NEW s \in Ids, ScanSequence(s) PROVE EndingOK'
  <2>1. CASE Scannable(s) /\ sequences[s].idle /\ Erase(s)
    BY <1>16, <2>1 DEF ScanSequence, Scannable, Erase, NoSequence, NewSequence
  <2>2. CASE Scannable(s) /\ ~sequences[s].idle /\ MarkIdle(s)
    BY <1>16, <2>2 DEF ScanSequence, MarkIdle
  <2>3. CASE UNCHANGED <<sequences, inferences>>
    BY <1>16, <2>3 DEF ScanSequence
  <2> QED BY <1>16, <2>1, <2>2, <2>3 DEF ScanSequence
<1>17. ASSUME EndScan PROVE EndingOK'
    BY <1>17 DEF EndScan, history
<1>18. ASSUME UNCHANGED vars PROVE EndingOK'
    BY <1>18 DEF vars, history
<1> QED BY <1>1, <1>2, <1>3, <1>4, <1>5, <1>6, <1>7, <1>8, <1>9, <1>10, <1>11, <1>12, <1>13, <1>14,
    <1>15, <1>16, <1>17, <1>18 DEF Next, Serve, ProcessRequestedSpec, Scan

\* Streams are taken when idle and given back once.
LEMMA StreamsStep == ASSUME IInv, [Next]_vars PROVE StreamsOK'
<1> USE ThreadsAssumption DEF IInv, TypeOK, Sequence, PCs, Working, WithStream, StreamsOK
<1>1. ASSUME NEW r \in Requests, NEW s \in 0 .. MaxSequenceId, NEW c \in Controls, Arrive(r, s, c)
      PROVE  StreamsOK'
    BY <1>1 DEF Arrive, Goto, history
<1>2. ASSUME NEW r \in Requests, ProcessRequestedSpec(r), CreateUniqueSequence(r) PROVE StreamsOK'
    BY UniqueIdIsFree, <1>2 DEF ProcessRequestedSpec, CreateUniqueSequence, Emplace, NewSequence,
        Goto, history
<1>3. ASSUME NEW r \in Requests, ProcessRequestedSpec(r), CreateSequence(r) PROVE StreamsOK'
    BY <1>3 DEF ProcessRequestedSpec, CreateSequence, Emplace, NewSequence, Goto, history
<1>4. ASSUME NEW r \in Requests, ProcessRequestedSpec(r), ContinueSequence(r) PROVE StreamsOK'
    BY <1>4 DEF ProcessRequestedSpec, ContinueSequence, HasSequence, Goto, history
<1>5. ASSUME NEW r \in Requests, ProcessRequestedSpec(r), TerminateSequence(r) PROVE StreamsOK'
    BY <1>5 DEF ProcessRequestedSpec, TerminateSequence, HasSequence, Goto, history
<1>6. ASSUME NEW r \in Requests, ProcessRequestedSpec(r), RefuseSpec(r) PROVE StreamsOK'
    BY <1>6 DEF ProcessRequestedSpec, RefuseSpec, Return, NoSpec, Goto, history
<1>7. ASSUME NEW r \in Requests, LockSequence(r) PROVE StreamsOK'
    BY <1>7 DEF LockSequence, Goto, history
<1>8. ASSUME NEW r \in Requests, NEW i \in Streams, AcquireStream(r, i) PROVE StreamsOK'
    BY <1>8 DEF AcquireStream, Goto, history
<1>9. ASSUME NEW r \in Requests, PreInferenceProcessing(r) PROVE StreamsOK'
    BY <1>9 DEF PreInferenceProcessing, Goto, history
<1>10. ASSUME NEW r \in Requests, PerformInference(r) PROVE StreamsOK'
    BY <1>10 DEF PerformInference, Goto, history
<1>11. ASSUME NEW r \in Requests, FailInference(r) PROVE StreamsOK'
    BY <1>11 DEF FailInference, LeaveSequence, Return, NoSpec, Goto, history
<1>12. ASSUME NEW r \in Requests, PostInferenceProcessing(r) PROVE StreamsOK'
    BY <1>12 DEF PostInferenceProcessing, LeaveSequence, Return, NoSpec, Goto
<1>13. ASSUME NEW r \in Requests, PostInferenceProcessingEnd(r) PROVE StreamsOK'
    BY <1>13 DEF PostInferenceProcessingEnd, Goto, history
<1>14. ASSUME NEW r \in Requests, RemoveSequence(r) PROVE StreamsOK'
    BY <1>14 DEF RemoveSequence, Erase, NoSequence, NewSequence, LeaveSequence, Return, NoSpec, Goto
<1>15. ASSUME BeginScan PROVE StreamsOK'
    BY <1>15 DEF BeginScan, history
<1>16. ASSUME NEW s \in Ids, ScanSequence(s) PROVE StreamsOK'
    BY <1>16 DEF ScanSequence, Scannable, Erase, MarkIdle, NoSequence, NewSequence
<1>17. ASSUME EndScan PROVE StreamsOK'
    BY <1>17 DEF EndScan, history
<1>18. ASSUME UNCHANGED vars PROVE StreamsOK'
    BY <1>18 DEF vars, history
<1> QED BY <1>1, <1>2, <1>3, <1>4, <1>5, <1>6, <1>7, <1>8, <1>9, <1>10, <1>11, <1>12, <1>13, <1>14,
    <1>15, <1>16, <1>17, <1>18 DEF Next, Serve, ProcessRequestedSpec, Scan

\* updateMemoryState saves what the inference left.
LEMMA MemoryStep == ASSUME IInv, [Next]_vars PROVE MemoryOK'
<1> USE ThreadsAssumption DEF IInv, TypeOK, Sequence, Specs, PCs, Working, Active, LocksOK,
    MemoryOK, WorkOK, Existing
<1>1. ASSUME NEW r \in Requests, NEW s \in 0 .. MaxSequenceId, NEW c \in Controls, Arrive(r, s, c)
      PROVE  MemoryOK'
    BY <1>1 DEF Arrive, Goto, history
<1>2. ASSUME NEW r \in Requests, ProcessRequestedSpec(r), CreateUniqueSequence(r) PROVE MemoryOK'
    BY UniqueIdIsFree, <1>2 DEF ProcessRequestedSpec, CreateUniqueSequence, Emplace, NewSequence,
        Goto, history
<1>3. ASSUME NEW r \in Requests, ProcessRequestedSpec(r), CreateSequence(r) PROVE MemoryOK'
    BY <1>3 DEF ProcessRequestedSpec, CreateSequence, Emplace, NewSequence, Goto, history
<1>4. ASSUME NEW r \in Requests, ProcessRequestedSpec(r), ContinueSequence(r) PROVE MemoryOK'
    BY <1>4 DEF ProcessRequestedSpec, ContinueSequence, HasSequence, Goto, history
<1>5. ASSUME NEW r \in Requests, ProcessRequestedSpec(r), TerminateSequence(r) PROVE MemoryOK'
    BY <1>5 DEF ProcessRequestedSpec, TerminateSequence, HasSequence, Goto, history
<1>6. ASSUME NEW r \in Requests, ProcessRequestedSpec(r), RefuseSpec(r) PROVE MemoryOK'
    BY <1>6 DEF ProcessRequestedSpec, RefuseSpec, Return, NoSpec, Goto, history
<1>7. ASSUME NEW r \in Requests, LockSequence(r) PROVE MemoryOK'
    BY <1>7 DEF LockSequence, Goto, history
<1>8. ASSUME NEW r \in Requests, NEW i \in Streams, AcquireStream(r, i) PROVE MemoryOK'
    BY <1>8 DEF AcquireStream, Goto, history
<1>9. ASSUME NEW r \in Requests, PreInferenceProcessing(r) PROVE MemoryOK'
    BY <1>9 DEF PreInferenceProcessing, Goto, history
<1>10. ASSUME NEW r \in Requests, PerformInference(r) PROVE MemoryOK'
    BY <1>10 DEF PerformInference, Goto, history
<1>11. ASSUME NEW r \in Requests, FailInference(r) PROVE MemoryOK'
    BY <1>11 DEF FailInference, LeaveSequence, Return, NoSpec, Goto, history
<1>12. ASSUME NEW r \in Requests, PostInferenceProcessing(r) PROVE MemoryOK'
    BY <1>12 DEF PostInferenceProcessing, LeaveSequence, Return, NoSpec, Goto
<1>13. ASSUME NEW r \in Requests, PostInferenceProcessingEnd(r) PROVE MemoryOK'
    BY <1>13 DEF PostInferenceProcessingEnd, Goto, history
<1>14. ASSUME NEW r \in Requests, RemoveSequence(r) PROVE MemoryOK'
    BY <1>14 DEF RemoveSequence, Erase, NoSequence, NewSequence, LeaveSequence, Return, NoSpec, Goto
<1>15. ASSUME BeginScan PROVE MemoryOK'
    BY <1>15 DEF BeginScan, history
<1>16. ASSUME NEW s \in Ids, ScanSequence(s) PROVE MemoryOK'
  <2>1. CASE Scannable(s) /\ sequences[s].idle /\ Erase(s)
    BY <1>16, <2>1 DEF ScanSequence, Scannable, Erase, NoSequence, NewSequence
  <2>2. CASE Scannable(s) /\ ~sequences[s].idle /\ MarkIdle(s)
    BY <1>16, <2>2 DEF ScanSequence, MarkIdle
  <2>3. CASE UNCHANGED <<sequences, inferences>>
    BY <1>16, <2>3 DEF ScanSequence
  <2> QED BY <1>16, <2>1, <2>2, <2>3 DEF ScanSequence
<1>17. ASSUME EndScan PROVE MemoryOK'
    BY <1>17 DEF EndScan, history
<1>18. ASSUME UNCHANGED vars PROVE MemoryOK'
    BY <1>18 DEF vars, history
<1> QED BY <1>1, <1>2, <1>3, <1>4, <1>5, <1>6, <1>7, <1>8, <1>9, <1>10, <1>11, <1>12, <1>13, <1>14,
    <1>15, <1>16, <1>17, <1>18 DEF Next, Serve, ProcessRequestedSpec, Scan

\* What a request works from is not changed by others: they hold neither its
\* stream nor its sequence.
LEMMA WorkStep == ASSUME IInv, [Next]_vars PROVE WorkOK'
<1> USE ThreadsAssumption DEF IInv, TypeOK, Sequence, Specs, PCs, Working, Active, WithStream,
    LocksOK, StreamsOK, MemoryOK, WorkOK, Existing
<1>1. ASSUME NEW r \in Requests, NEW s \in 0 .. MaxSequenceId, NEW c \in Controls, Arrive(r, s, c)
      PROVE  WorkOK'
    BY <1>1 DEF Arrive, Goto, history
<1>2. ASSUME NEW r \in Requests, ProcessRequestedSpec(r), CreateUniqueSequence(r) PROVE WorkOK'
    BY UniqueIdIsFree, <1>2 DEF ProcessRequestedSpec, CreateUniqueSequence, Emplace, NewSequence,
        Goto, history
<1>3. ASSUME NEW r \in Requests, ProcessRequestedSpec(r), CreateSequence(r) PROVE WorkOK'
  <2> DEFINE s == spec[r].sequenceId
  <2>1. s \in Ids /\ s \notin Existing
    BY <1>3 DEF CreateSequence, TypeOK, Specs, Ids
  <2>2. \A q \in Requests \ {r} : pc[q] \in Active => spec[q].sequenceId # s
    BY <2>1 DEF LocksOK
  <2>3. sequences'[s].mutex = None /\ inferences[s] = 0
    BY <1>3, <2>1 DEF CreateSequence, Emplace, NewSequence, TypeOK, MemoryOK
  <2>4. \A t \in Ids \ {s} : sequences'[t] = sequences[t]
    BY <1>3, <2>1 DEF CreateSequence, Emplace, TypeOK
  <2>5. \A q \in Requests : pc[q] \in Active => spec[q].sequenceId \in Ids
    BY DEF LocksOK, Existing
  <2>6. /\ pc' = [pc EXCEPT ![r] = "lock"]
        /\ \A q \in Requests : spec'[q].sequenceId = spec[q].sequenceId /\ spec'[q].control =
            spec[q].control
        /\ UNCHANGED <<inferences, stream, streamState>>
    BY <1>3 DEF ProcessRequestedSpec, CreateSequence, Emplace, Goto, history, TypeOK, Specs
  <2> HIDE DEF s
  <2> QED BY <2>1, <2>2, <2>3, <2>4, <2>5, <2>6 DEF WorkOK, TypeOK, Active, Working, s
<1>4. ASSUME NEW r \in Requests, ProcessRequestedSpec(r), ContinueSequence(r) PROVE WorkOK'
    BY <1>4 DEF ProcessRequestedSpec, ContinueSequence, HasSequence, Goto, history
<1>5. ASSUME NEW r \in Requests, ProcessRequestedSpec(r), TerminateSequence(r) PROVE WorkOK'
    BY <1>5 DEF ProcessRequestedSpec, TerminateSequence, HasSequence, Goto, history
<1>6. ASSUME NEW r \in Requests, ProcessRequestedSpec(r), RefuseSpec(r) PROVE WorkOK'
    BY <1>6 DEF ProcessRequestedSpec, RefuseSpec, Return, NoSpec, Goto, history
<1>7. ASSUME NEW r \in Requests, LockSequence(r) PROVE WorkOK'
    BY <1>7 DEF LockSequence, Goto, history
<1>8. ASSUME NEW r \in Requests, NEW i \in Streams, AcquireStream(r, i) PROVE WorkOK'
    BY <1>8 DEF AcquireStream, Goto, history
<1>9. ASSUME NEW r \in Requests, PreInferenceProcessing(r) PROVE WorkOK'
    BY <1>9 DEF PreInferenceProcessing, Goto, history
<1>10. ASSUME NEW r \in Requests, PerformInference(r) PROVE WorkOK'
    BY <1>10 DEF PerformInference, Goto, history
<1>11. ASSUME NEW r \in Requests, FailInference(r) PROVE WorkOK'
    BY <1>11 DEF FailInference, LeaveSequence, Return, NoSpec, Goto, history
<1>12. ASSUME NEW r \in Requests, PostInferenceProcessing(r) PROVE WorkOK'
    BY <1>12 DEF PostInferenceProcessing, LeaveSequence, Return, NoSpec, Goto
<1>13. ASSUME NEW r \in Requests, PostInferenceProcessingEnd(r) PROVE WorkOK'
    BY <1>13 DEF PostInferenceProcessingEnd, Goto, history
<1>14. ASSUME NEW r \in Requests, RemoveSequence(r) PROVE WorkOK'
    BY <1>14 DEF RemoveSequence, Erase, NoSequence, NewSequence, LeaveSequence, Return, NoSpec,
        Goto,
        EndingOK
<1>15. ASSUME BeginScan PROVE WorkOK'
    BY <1>15 DEF BeginScan, history
<1>16. ASSUME NEW s \in Ids, ScanSequence(s) PROVE WorkOK'
  <2>1. CASE Scannable(s) /\ sequences[s].idle /\ Erase(s)
    BY <1>16, <2>1 DEF ScanSequence, Scannable, Erase, NoSequence, NewSequence
  <2>2. CASE Scannable(s) /\ ~sequences[s].idle /\ MarkIdle(s)
    BY <1>16, <2>2 DEF ScanSequence, MarkIdle
  <2>3. CASE UNCHANGED <<sequences, inferences>>
    BY <1>16, <2>3 DEF ScanSequence
  <2> QED BY <1>16, <2>1, <2>2, <2>3 DEF ScanSequence
<1>17. ASSUME EndScan PROVE WorkOK'
    BY <1>17 DEF EndScan, history
<1>18. ASSUME UNCHANGED vars PROVE WorkOK'
    BY <1>18 DEF vars, history
<1> QED BY <1>1, <1>2, <1>3, <1>4, <1>5, <1>6, <1>7, <1>8, <1>9, <1>10, <1>11, <1>12, <1>13, <1>14,
    <1>15, <1>16, <1>17, <1>18 DEF Next, Serve, ProcessRequestedSpec, Scan

\* A valid request clears the mark of the cleaner.
LEMMA UsedStep == ASSUME IInv, [Next]_vars PROVE UsedOK'
<1> USE ThreadsAssumption DEF IInv, TypeOK, Sequence, Specs, PCs, Working, Active, LocksOK, UsedOK,
    Existing
<1>1. ASSUME NEW r \in Requests, NEW s \in 0 .. MaxSequenceId, NEW c \in Controls, Arrive(r, s, c)
      PROVE  UsedOK'
    BY <1>1 DEF Arrive, Goto, history
<1>2. ASSUME NEW r \in Requests, ProcessRequestedSpec(r), CreateUniqueSequence(r) PROVE UsedOK'
    BY UniqueIdIsFree, <1>2 DEF ProcessRequestedSpec, CreateUniqueSequence, Emplace, NewSequence,
        Goto, history
<1>3. ASSUME NEW r \in Requests, ProcessRequestedSpec(r), CreateSequence(r) PROVE UsedOK'
    BY <1>3 DEF ProcessRequestedSpec, CreateSequence, Emplace, NewSequence, Goto, history
<1>4. ASSUME NEW r \in Requests, ProcessRequestedSpec(r), ContinueSequence(r) PROVE UsedOK'
    BY <1>4 DEF ProcessRequestedSpec, ContinueSequence, HasSequence, Goto, history
<1>5. ASSUME NEW r \in Requests, ProcessRequestedSpec(r), TerminateSequence(r) PROVE UsedOK'
    BY <1>5 DEF ProcessRequestedSpec, TerminateSequence, HasSequence, Goto, history
<1>6. ASSUME NEW r \in Requests, ProcessRequestedSpec(r), RefuseSpec(r) PROVE UsedOK'
    BY <1>6 DEF ProcessRequestedSpec, RefuseSpec, Return, NoSpec, Goto, history
<1>7. ASSUME NEW r \in Requests, LockSequence(r) PROVE UsedOK'
    BY <1>7 DEF LockSequence, Goto, history
<1>8. ASSUME NEW r \in Requests, NEW i \in Streams, AcquireStream(r, i) PROVE UsedOK'
    BY <1>8 DEF AcquireStream, Goto, history
<1>9. ASSUME NEW r \in Requests, PreInferenceProcessing(r) PROVE UsedOK'
    BY <1>9 DEF PreInferenceProcessing, Goto, history
<1>10. ASSUME NEW r \in Requests, PerformInference(r) PROVE UsedOK'
    BY <1>10 DEF PerformInference, Goto, history
<1>11. ASSUME NEW r \in Requests, FailInference(r) PROVE UsedOK'
    BY <1>11 DEF FailInference, LeaveSequence, Return, NoSpec, Goto, history
<1>12. ASSUME NEW r \in Requests, PostInferenceProcessing(r) PROVE UsedOK'
    BY <1>12 DEF PostInferenceProcessing, LeaveSequence, Return, NoSpec, Goto
<1>13. ASSUME NEW r \in Requests, PostInferenceProcessingEnd(r) PROVE UsedOK'
    BY <1>13 DEF PostInferenceProcessingEnd, Goto, history
<1>14. ASSUME NEW r \in Requests, RemoveSequence(r) PROVE UsedOK'
    BY <1>14 DEF RemoveSequence, Erase, NoSequence, NewSequence, LeaveSequence, Return, NoSpec, Goto
<1>15. ASSUME BeginScan PROVE UsedOK'
    BY <1>15 DEF BeginScan, history
<1>16. ASSUME NEW s \in Ids, ScanSequence(s) PROVE UsedOK'
    BY <1>16 DEF ScanSequence, Scannable, Erase, MarkIdle, NoSequence, NewSequence
<1>17. ASSUME EndScan PROVE UsedOK'
    BY <1>17 DEF EndScan, history
<1>18. ASSUME UNCHANGED vars PROVE UsedOK'
    BY <1>18 DEF vars, history
<1> QED BY <1>1, <1>2, <1>3, <1>4, <1>5, <1>6, <1>7, <1>8, <1>9, <1>10, <1>11, <1>12, <1>13, <1>14,
    <1>15, <1>16, <1>17, <1>18 DEF Next, Serve, ProcessRequestedSpec, Scan

\* The map grows only when there is room in it (createSequence).
LEMMA NumberStep == ASSUME IInv, [Next]_vars PROVE WithinMaxSequenceNumber'
<1> USE DEF IInv
<1>1. ASSUME NEW r \in Requests, NEW s \in Ids, RoomForSequence, Emplace(r, s)
      PROVE  WithinMaxSequenceNumber'
  <2>1. Existing' = Existing \cup {s}
    BY <1>1 DEF Emplace, NewSequence, Existing, TypeOK, Sequence
  <2>2. Cardinality(Existing \cup {s}) \in {Cardinality(Existing), Cardinality(Existing) + 1}
    BY ExistingFinite, FS_AddElement, Zenon
  <2>3. IsFiniteSet(Existing \cup {s}) /\ Cardinality(Existing \cup {s}) \in Nat
    BY ExistingFinite, FS_AddElement, FS_CardinalityType
  <2> QED BY <1>1, <2>1, <2>2, <2>3, ExistingFinite, RoomAssumption
    DEF RoomForSequence, WithinMaxSequenceNumber
<1>2. ASSUME Existing' \subseteq Existing PROVE WithinMaxSequenceNumber'
  <2>1. Cardinality(Existing') <= Cardinality(Existing) /\ Cardinality(Existing') \in Nat
    BY <1>2, ExistingFinite, FS_Subset, FS_CardinalityType
  <2> QED BY <2>1, ExistingFinite, RoomAssumption DEF WithinMaxSequenceNumber
<1>3. ASSUME NEW r \in Requests, ProcessRequestedSpec(r) PROVE WithinMaxSequenceNumber'
  <2>1. CASE CreateUniqueSequence(r)
    BY <1>1, <2>1, UniqueIdIsFree DEF CreateUniqueSequence
  <2>2. CASE CreateSequence(r)
    <3>1. spec[r].sequenceId \in Ids BY <2>2 DEF CreateSequence, TypeOK, Specs, Ids
    <3> QED BY <1>1, <2>2, <3>1 DEF CreateSequence
  <2>3. CASE ContinueSequence(r)
    BY <1>2, <2>3 DEF ContinueSequence, Existing
  <2>4. CASE TerminateSequence(r)
    BY <1>2, <2>4 DEF TerminateSequence, Existing, TypeOK, Sequence
  <2>5. CASE RefuseSpec(r)
    BY <1>2, <2>5 DEF RefuseSpec, Existing
  <2> QED BY <1>3, <2>1, <2>2, <2>3, <2>4, <2>5 DEF ProcessRequestedSpec
<1>4. ASSUME NEW r \in Requests,
             LockSequence(r) \/ FailInference(r) \/ PostInferenceProcessing(r)
                 \/ PostInferenceProcessingEnd(r)
      PROVE  WithinMaxSequenceNumber'
    BY <1>2, <1>4 DEF LockSequence, FailInference, PostInferenceProcessing,
        PostInferenceProcessingEnd, Existing, TypeOK, Sequence
<1>5. ASSUME NEW s \in Ids, Erase(s) \/ MarkIdle(s) PROVE WithinMaxSequenceNumber'
    BY <1>2, <1>5 DEF Erase, MarkIdle, NoSequence, NewSequence, Existing, TypeOK, Sequence
<1>6. ASSUME UNCHANGED sequences PROVE WithinMaxSequenceNumber'
    BY <1>2, <1>6 DEF Existing
<1>7. ASSUME NEW r \in Requests, RemoveSequence(r) PROVE WithinMaxSequenceNumber'
    BY <1>5, <1>7 DEF RemoveSequence, LocksOK, Active, Existing
<1>8. ASSUME Scan PROVE WithinMaxSequenceNumber'
    BY <1>5, <1>6, <1>8 DEF Scan, BeginScan, ScanSequence, EndScan
<1>9. ASSUME NEW r \in Requests,
             \/ \E s \in 0 .. MaxSequenceId, control \in Controls : Arrive(r, s, control)
             \/ \E i \in Streams : AcquireStream(r, i)
             \/ PreInferenceProcessing(r)
             \/ PerformInference(r)
      PROVE  WithinMaxSequenceNumber'
    BY <1>6, <1>9 DEF Arrive, AcquireStream, PreInferenceProcessing, PerformInference
<1> QED BY <1>3, <1>4, <1>6, <1>7, <1>8, <1>9 DEF Next, Serve, vars

-----------------------------------------------------------------------------

\* The constructor of SequenceManager establishes the invariant.
LEMMA InvInit == ASSUME Init PROVE IInv
<1> USE DEF Init, NoSequence, NewSequence
<1>1. TypeOK
    BY Records, IdAssumption, BoundAssumption DEF TypeOK, PCs, Ids, MemoryStates
<1>2. Existing = {} BY DEF Existing
<1>3. LocksOK /\ EndingOK /\ StreamsOK
    BY ThreadsAssumption DEF LocksOK, EndingOK, StreamsOK, Active, Working, WithStream
<1>4. MemoryOK /\ WorkOK /\ UsedOK
    BY DEF MemoryOK, WorkOK, UsedOK, Working
<1>5. WithinMaxSequenceNumber
    BY <1>2, FS_EmptySet, RoomAssumption DEF WithinMaxSequenceNumber
<1> QED BY <1>1, <1>3, <1>4, <1>5 DEF IInv

\* Every step of a request or of the cleaner preserves the invariant.
LEMMA InvStep == IInv /\ [Next]_vars => IInv'
BY TypeStep, LocksStep, EndingStep, StreamsStep, MemoryStep, WorkStep, UsedStep, NumberStep DEF IInv

\* The invariant holds throughout.
LEMMA InvHolds == Spec => []IInv
BY InvInit, InvStep, PTL DEF Spec

\* All variables of the stateful model's sequences keep their types.
THEOREM SequencesTypeCorrect == Spec => []TypeOK
<1>1. IInv => TypeOK BY DEF IInv
<1> QED BY <1>1, InvHolds, PTL

\* StatefulModelInstance::infer never uses an erased Sequence, works on its
\* sequence alone, and finds the sequence it has to remove.
THEOREM ReferencesStayGood == Spec => []ReferencesAreGood
<1>1. ASSUME IInv PROVE ReferencesAreGood
  <2> SUFFICES ASSUME NEW r \in Requests
      PROVE  LET s == spec[r].sequenceId IN
             /\ pc[r] = "lock" => s \in Existing
             /\ pc[r] \in Working => s \in Existing /\ sequences[s].mutex = r
             /\ pc[r] = "remove" => s \in Existing /\ sequences[s].mutex = None
    BY DEF ReferencesAreGood
  <2> DEFINE s == spec[r].sequenceId
  <2>1. pc[r] \in Active => s \in Existing
    BY <1>1 DEF IInv, LocksOK
  <2>2. ASSUME pc[r] = "remove" PROVE sequences[s].mutex = None
    <3>1. s \in Ids BY <2>1, <2>2 DEF Active, Existing
    <3>2. sequences[s].mutex \in Requests \cup {None}
      BY <1>1, <3>1 DEF IInv, TypeOK, Sequence
    <3>3. ASSUME sequences[s].mutex \in Requests PROVE FALSE
      BY <1>1, <2>2, <3>1, <3>3 DEF IInv, LocksOK, EndingOK, Active, Working
    <3> QED BY <3>2, <3>3
  <2> QED BY <1>1, <2>1, <2>2 DEF IInv, LocksOK, Active, Working
<1> QED BY <1>1, InvHolds, PTL

\* preInferenceProcessing and postInferenceProcessing carry the memory state
\* from each successful request of a sequence to the next, whatever other
\* sequences do on the same streams.
THEOREM InferencesContinueTheirSequence == Spec => []ContinuesItsSequence
<1>1. IInv => ContinuesItsSequence BY DEF IInv, WorkOK, ContinuesItsSequence
<1> QED BY <1>1, InvHolds, PTL

\* createSequence keeps the number of sequences within max_sequence_number.
THEOREM SequenceNumberIsBounded == Spec => []WithinMaxSequenceNumber
<1>1. IInv => WithinMaxSequenceNumber BY DEF IInv
<1> QED BY <1>1, InvHolds, PTL

\* The mutexes of infer and of the cleaner form no circle by themselves: if
\* nobody can go on, all streams are with requests that wait for the mutex of
\* the manager to remove their sequence.
THEOREM CircularWaitNeedsStreams == Spec => []StuckOnlyForStreams
<1>1. ASSUME IInv PROVE StuckOnlyForStreams
  <2> SUFFICES ASSUME NEW r \in Requests, pc[r] # "idle", ~GoesOn,
                      NEW i \in Streams
               PROVE  \E q \in Requests : pc[q] = "remove" /\ stream[q] = i
    BY DEF StuckOnlyForStreams
  <2>1. managerMutex # Cleaner /\ \A q \in Requests : pc[q] # "idle" => HeldUp(q)
    BY DEF GoesOn
  <2>2. managerMutex \in Requests \cup {None}
    BY <1>1, <2>1 DEF IInv, TypeOK
  <2>3. \E q \in Requests : pc[q] = "stream"
    <3>1. CASE pc[r] \in {"process", "remove", "lock"}
      <4>1. PICK q \in Requests : pc[q] = "lock"
        BY <1>1, <2>1, <2>2, <3>1 DEF HeldUp, IInv, LocksOK
      <4>2. spec[q].sequenceId \in Ids
        BY <1>1, <4>1 DEF IInv, LocksOK, Active, Existing
      <4>3. sequences[spec[q].sequenceId].mutex \in Requests
        BY <1>1, <2>1, <4>1, <4>2 DEF HeldUp, IInv, TypeOK, Sequence
      <4>4. PICK p \in Requests : pc[p] \in Working
        BY <1>1, <4>2, <4>3 DEF IInv, LocksOK
      <4> QED BY <2>1, <4>4 DEF HeldUp, Working
    <3> QED BY <1>1, <2>1, <3>1 DEF HeldUp, IInv, TypeOK, PCs
  <2>4. PICK q \in Requests : stream[q] = i
    BY <2>1, <2>3 DEF HeldUp
  <2>5. pc[q] \in WithStream
    BY <1>1, <2>4, ThreadsAssumption DEF IInv, StreamsOK
  <2> QED BY <2>1, <2>4, <2>5 DEF HeldUp, WithStream
<1> QED BY <1>1, InvHolds, PTL

\* removeIdleSequences never removes a sequence that had a valid request since
\* its last visit.
THEOREM CleanerRemovesOnlyIdle == Spec => RemovesOnlyIdle
<1>1. ASSUME IInv, [Next]_vars, managerMutex = Cleaner, NEW s \in Existing \cap used
      PROVE  sequences'[s].exists
  <2> USE DEF IInv
  <2>1. s \in Ids /\ sequences[s].exists /\ ~sequences[s].idle
    BY <1>1 DEF Existing, UsedOK
  <2>2. CASE \E r \in Requests : Serve(r)
    <3>1. PICK r \in Requests : Serve(r) BY <2>2
    <3>2. managerMutex # None BY <1>1, ThreadsAssumption
    <3>3. ~ProcessRequestedSpec(r) /\ ~RemoveSequence(r)
      BY <3>2 DEF ProcessRequestedSpec, RemoveSequence
    <3>4. CASE LockSequence(r) \/ FailInference(r) \/ PostInferenceProcessing(r)
                 \/ PostInferenceProcessingEnd(r)
      <4> DEFINE t == spec[r].sequenceId
      <4>1. s # t => sequences'[s] = sequences[s]
        BY <1>1, <2>1, <3>4 DEF LockSequence, FailInference, PostInferenceProcessing,
            PostInferenceProcessingEnd, TypeOK
      <4>2. ASSUME s = t PROVE sequences'[s].exists = sequences[s].exists
        <5>0. sequences[s] \in Sequence BY <1>1, <2>1 DEF TypeOK
        <5> USE <1>1, <2>1, <4>2, <5>0 DEF TypeOK, Sequence
        <5>1. CASE LockSequence(r) BY <5>1 DEF LockSequence
        <5>2. CASE FailInference(r) BY <5>2 DEF FailInference
        <5>3. CASE PostInferenceProcessing(r) BY <5>3 DEF PostInferenceProcessing
        <5>4. CASE PostInferenceProcessingEnd(r) BY <5>4 DEF PostInferenceProcessingEnd
        <5> QED BY <3>4, <5>1, <5>2, <5>3, <5>4
      <4> QED BY <2>1, <4>1, <4>2
    <3>5. CASE UNCHANGED sequences
      BY <2>1, <3>5
    <3> QED BY <3>1, <3>3, <3>4, <3>5
      DEF Serve, AcquireStream, PreInferenceProcessing, PerformInference
  <2>3. CASE \E t \in Ids : ScanSequence(t)
    <3>1. PICK t \in Ids : ScanSequence(t) BY <2>3
    <3>2. CASE Erase(t) /\ sequences[t].idle
      BY <1>1, <2>1, <3>2 DEF Erase, TypeOK
    <3>3. CASE MarkIdle(t)
      BY <1>1, <2>1, <3>3 DEF MarkIdle, TypeOK, Sequence
    <3>4. CASE UNCHANGED sequences
      BY <2>1, <3>4
    <3> QED BY <3>1, <3>2, <3>3, <3>4 DEF ScanSequence
  <2>4. CASE UNCHANGED sequences
    BY <2>1, <2>4
  <2> QED BY <1>1, <2>2, <2>3, <2>4 DEF Next, Scan, BeginScan, EndScan, Arrive, vars
<1>2. IInv /\ [Next]_vars =>
        [managerMutex = Cleaner => \A s \in Existing \cap used : sequences'[s].exists]_vars
    BY <1>1
<1> QED BY <1>2, InvHolds, PTL DEF Spec, RemovesOnlyIdle
=============================================================================
