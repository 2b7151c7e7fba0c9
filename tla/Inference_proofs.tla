--------------------- MODULE Inference_proofs ----------------------
(***************************************************************************)
(* What inference does with its request and with a stream.                 *)
(*                                                                         *)
(* The queue of inference requests, for any number of guards and any       *)
(* NIREQ: no stream is used twice or lost, the gauges tell the truth, and  *)
(* the ring with its promises is the pool of StreamPool.                   *)
(*                                                                         *)
(* The tensors, for any request, servable, response and pair of            *)
(* descriptions: what validation accepts is what deserialization reads and *)
(* the inference takes, a response has each output with its buffer, and    *)
(* two descriptions have in common what both match.  The loops of the code *)
(* are folds in the model: a fold is first shown to go through a sequence  *)
(* of values, one for each step, and then followed by induction.           *)
(***************************************************************************)
EXTENDS InferRequestsQueue, TensorExchange, FiniteSetTheorems, FunctionTheorems,
        SequenceTheorems, WellFoundedInduction, TLAPS

\* A ring index that is advanced and wrapped around is a ring index
\* (queue.hpp: front_idx and back_idx).
LEMMA NextSlot ==
    ASSUME NEW i \in Streams
    PROVE  (i + 1) % NIREQ \in Streams
BY NIREQAssumption DEF Streams

\* Every step keeps the variables of the queue and of its guards in their
\* types (queue.hpp, executingstreamidguard.cpp, nodestreamidguard.cpp).
LEMMA TypeStep == TypeOK /\ [Next]_vars => TypeOK'
<1> SUFFICES ASSUME TypeOK, [Next]_vars PROVE TypeOK'
    OBVIOUS
<1> USE DEF TypeOK, Goto, ring, gauges
<1>1. CASE UNCHANGED vars
    BY <1>1 DEF vars
<1>2. ASSUME NEW g \in Guards, Construct(g) PROVE TypeOK'
    BY <1>2 DEF Construct, PCs
<1>3. ASSUME NEW g \in Guards, TakeIdleStream(g) PROVE TypeOK'
  <2>1. front_idx' \in Streams
    BY <1>3, NextSlot DEF TakeIdleStream
  <2> QED
    BY <1>3, <2>1 DEF TakeIdleStream, AfterGetIdleStream, PCs
<1>4. ASSUME NEW g \in Guards, FindNoIdleStream(g) PROVE TypeOK'
    BY <1>4 DEF FindNoIdleStream, PCs
<1>5. ASSUME NEW g \in Guards, PushPromise(g) PROVE TypeOK'
    BY <1>5 DEF PushPromise, AfterGetIdleStream, PCs
<1>6. ASSUME NEW g \in Guards, CountSession(g) PROVE TypeOK'
    BY <1>6 DEF CountSession, PCs
<1>7. ASSUME NEW g \in Guards, StartInference(g) PROVE TypeOK'
    BY <1>7 DEF StartInference, PCs
<1>8. ASSUME NEW g \in Guards, EndInference(g) PROVE TypeOK'
    BY <1>8 DEF EndInference, PCs
<1>9. ASSUME NEW g \in Guards, Disarm(g) PROVE TypeOK'
    BY <1>9 DEF Disarm, PCs
<1>10. ASSUME NEW g \in Guards, PopPromise(g) PROVE TypeOK'
  <2>1. Head(promises) \in Guards /\ Tail(promises) \in Seq(Guards)
    BY <1>10 DEF PopPromise
  <2> QED
    BY <1>10, <2>1 DEF PopPromise, PCs
<1>11. ASSUME NEW g \in Guards, SetValue(g) PROVE TypeOK'
    BY <1>11 DEF SetValue, PCs
<1>12. ASSUME NEW g \in Guards, ReserveSlot(g) PROVE TypeOK'
  <2>1. back_idx' \in Streams
    BY <1>12, NextSlot DEF ReserveSlot
  <2> QED
    BY <1>12, <2>1 DEF ReserveSlot, PCs
<1>13. ASSUME NEW g \in Guards, StoreStream(g) PROVE TypeOK'
  <2>1. 0 \in Streams
    BY NIREQAssumption DEF Streams
  <2> QED
    BY <1>13, <2>1 DEF StoreStream, PCs
<1>14. ASSUME NEW g \in Guards, Destroy(g) PROVE TypeOK'
    BY <1>14 DEF Destroy, PCs
<1> QED
    BY <1>1, <1>2, <1>3, <1>4, <1>5, <1>6, <1>7, <1>8, <1>9, <1>10, <1>11, <1>12, <1>13,
       <1>14 DEF Next, Proceed

\* The constructor of the queue (queue.hpp) starts well typed.
LEMMA TypeInit == Init => TypeOK
BY NIREQAssumption DEF Init, TypeOK, Streams, PCs

\* The queue and its guards are always well typed; in particular the indices
\* of the ring never leave it.
THEOREM QueueTypeCorrect == Spec => []TypeOK
BY TypeInit, TypeStep, PTL DEF Spec

(***************************************************************************)
(* ExclusiveStreams is inductive together with TypeOK: every step moves a  *)
(* stream from one place to another and empties the place it came from.    *)
(* That nothing is overwritten on the way is not needed here: it would     *)
(* lose a stream, never duplicate one.                                     *)
(***************************************************************************)

\* No step makes a stream appear in a second place (getIdleStream and
\* returnStream in queue.hpp, the two guards).
LEMMA ExclusiveStep == TypeOK /\ ExclusiveStreams /\ [Next]_vars => ExclusiveStreams'
<1> SUFFICES ASSUME TypeOK, ExclusiveStreams, [Next]_vars PROVE ExclusiveStreams'
    OBVIOUS
<1> USE DEF TypeOK, ExclusiveStreams, ring
\* Steps that leave every place as it is.
<1>1. ASSUME UNCHANGED <<streams, future, streamId>> PROVE ExclusiveStreams'
    BY <1>1
\* A stream moves from the ring to the future of the guard.
<1>2. ASSUME NEW g \in Guards, TakeIdleStream(g) PROVE ExclusiveStreams'
    BY <1>2 DEF TakeIdleStream
\* A stream moves from the future of the guard to the guard.
<1>3. ASSUME NEW g \in Guards, StartInference(g) \/ Disarm(g) PROVE ExclusiveStreams'
    BY <1>3 DEF StartInference, Disarm
\* A stream moves from one guard to the future of another.
<1>4. ASSUME NEW g \in Guards, SetValue(g) PROVE ExclusiveStreams'
    BY <1>4 DEF SetValue
\* A stream moves from a guard to the ring.
<1>5. ASSUME NEW g \in Guards, StoreStream(g) PROVE ExclusiveStreams'
    BY <1>5 DEF StoreStream
<1>6. CASE UNCHANGED vars
    BY <1>1, <1>6 DEF vars
<1>7. ASSUME NEW g \in Guards,
             \/ Construct(g) \/ FindNoIdleStream(g) \/ PushPromise(g) \/ CountSession(g)
             \/ EndInference(g) \/ PopPromise(g) \/ ReserveSlot(g) \/ Destroy(g)
      PROVE  ExclusiveStreams'
  <2>1. UNCHANGED <<streams, future, streamId>>
    BY <1>7 DEF Construct, FindNoIdleStream, PushPromise, CountSession, EndInference,
                PopPromise, ReserveSlot, Destroy
  <2> QED
    BY <1>1, <2>1
<1> QED
    BY <1>2, <1>3, <1>4, <1>5, <1>6, <1>7 DEF Next, Proceed

\* The constructor puts every stream into one slot of the ring (queue.hpp).
LEMMA ExclusiveInit == Init => ExclusiveStreams
BY DEF Init, ExclusiveStreams, Streams, None

\* No inference request is ever used by two guards, nor idle and in use,
\* whatever the number of requests, sessions and streams: two inferences never
\* run on one ov::InferRequest (queue.hpp).
THEOREM StreamsAreExclusive == Spec => []ExclusiveStreams
<1>1. Init => TypeOK /\ ExclusiveStreams
    BY TypeInit, ExclusiveInit
<1>2. TypeOK /\ ExclusiveStreams /\ [Next]_vars => (TypeOK /\ ExclusiveStreams)'
    BY TypeStep, ExclusiveStep
<1> QED
    BY <1>1, <1>2, PTL DEF Spec

(***************************************************************************)
(* What else is always so.                                                 *)
(***************************************************************************)

\* Where a guard has no stream yet, and where it has one.
WaitPCs == {"ctor", "wait"}
OwnerPCs == {"hold", "ret", "deliver", "store"}

\* The promise of a guard is in the queue, or taken out of it by another guard.
Queued(g) == \E i \in 1 .. Len(promises) : promises[i] = g
HandedTo(g) == \E h \in Guards : pc[h] = "deliver" /\ target[h] = g

\* A guard has a stream exactly while it runs or returns it; a future is filled
\* only while its guard waits for it;
GuardsOK ==
    /\ \A g \in Guards : pc[g] \in OwnerPCs <=> streamId[g] # None
    /\ \A g \in Guards : future[g] # None => pc[g] \in WaitPCs
    /\ \A g \in Guards : pc[g] = "ctor" => g \in Sessions

\* a guard that is queued, or whose promise was popped for a stream, still
\* waits without one, and there is one promise and one stream for it;
PromisesOK ==
    /\ \A g \in Guards : Queued(g) \/ HandedTo(g) => pc[g] \in WaitPCs /\ future[g] = None
    /\ \A g \in Guards : ~(Queued(g) /\ HandedTo(g))
    /\ \A i, j \in 1 .. Len(promises) : promises[i] = promises[j] => i = j
    /\ \A g, h \in Guards :
         pc[g] = "deliver" /\ pc[h] = "deliver" /\ target[g] = target[h] => g = h

\* the idle streams fill the ring from front_idx on without a gap, and
\* back_idx is the slot behind them, or the next one while a stream is stored.
Slot(k) == (front_idx + k) % NIREQ
Filled(n) == \A k \in Streams : streams[Slot(k)] # None <=> k < n
BackOK(n) ==
    /\ queue_mutex = Free => back_idx = Slot(n)
    /\ queue_mutex # Free =>
         /\ n < NIREQ
         /\ old_back[queue_mutex] = Slot(n)
         /\ back_idx = (old_back[queue_mutex] + 1) % NIREQ
RingOK ==
    /\ \A g \in Guards : pc[g] = "store" <=> queue_mutex = g
    /\ \E n \in 0 .. NIREQ : Filled(n) /\ BackOK(n)

\* The inductive invariant.
QueueInv == TypeOK /\ ExclusiveStreams /\ GuardsOK /\ PromisesOK /\ RingOK

\* The gauges count what they stand for.
ActiveOf(f) == {g \in Guards : f[g] = "hold"}
CountedOf(f) == {g \in Guards : f[g] # "idle" /\ (g \in Requests \/ f[g] \notin {"get", "push", "ctor"})}
GaugesCount ==
    /\ IsFiniteSet(ActiveOf(pc)) /\ inferReqActive = Cardinality(ActiveOf(pc))
    /\ IsFiniteSet(CountedOf(pc)) /\ currentRequests = Cardinality(CountedOf(pc))

(***************************************************************************)
(* Arithmetic of the ring.                                                 *)
(***************************************************************************)

\* A position less than two rounds ahead is found by subtracting one round.
LEMMA Wrap ==
    ASSUME NEW x \in 0 .. 2 * NIREQ - 1
    PROVE  x % NIREQ = IF x < NIREQ THEN x ELSE x - NIREQ
<1>1. CASE x < NIREQ
    BY <1>1, NIREQAssumption
<1>2. CASE x >= NIREQ
    BY <1>2, NIREQAssumption
<1> QED
    BY <1>1, <1>2, NIREQAssumption

\* The slots from front_idx on are all the slots, each of them once.
LEMMA SlotFacts ==
    ASSUME front_idx \in Streams
    PROVE  /\ \A k \in 0 .. NIREQ : Slot(k) \in Streams
           /\ \A k \in 0 .. NIREQ :
                Slot(k) = IF front_idx + k < NIREQ THEN front_idx + k ELSE front_idx + k - NIREQ
           /\ \A j, k \in Streams : Slot(j) = Slot(k) => j = k
           /\ \A i \in Streams : \E k \in Streams : Slot(k) = i
           /\ Slot(0) = front_idx
<1>1. ASSUME NEW k \in 0 .. NIREQ
      PROVE  Slot(k) = IF front_idx + k < NIREQ THEN front_idx + k ELSE front_idx + k - NIREQ
  <2> DEFINE x == front_idx + k
  <2>1. x \in 0 .. 2 * NIREQ - 1
    BY NIREQAssumption DEF Streams
  <2>2. x % NIREQ = IF x < NIREQ THEN x ELSE x - NIREQ
    <3> HIDE DEF x
    <3> QED
      BY <2>1, Wrap
  <2> QED
    BY <2>1, <2>2, NIREQAssumption DEF Slot, Streams
<1>2. ASSUME NEW i \in Streams PROVE \E k \in Streams : Slot(k) = i
  <2>1. CASE i >= front_idx
    <3>1. i - front_idx \in Streams /\ i - front_idx \in 0 .. NIREQ
      BY <2>1, NIREQAssumption DEF Streams
    <3>2. Slot(i - front_idx) = i
      BY <1>1, <3>1, NIREQAssumption DEF Streams
    <3> QED
      BY <3>1, <3>2
  <2>2. CASE i < front_idx
    <3>1. i - front_idx + NIREQ \in Streams /\ i - front_idx + NIREQ \in 0 .. NIREQ
      BY <2>2, NIREQAssumption DEF Streams
    <3>2. Slot(i - front_idx + NIREQ) = i
      BY <1>1, <3>1, <2>2, NIREQAssumption DEF Streams
    <3> QED
      BY <3>1, <3>2
  <2> QED
    BY <2>1, <2>2, NIREQAssumption DEF Streams
<1> HIDE DEF Slot
<1> QED
    BY <1>1, <1>2, NIREQAssumption DEF Streams

\* Moving front_idx by one shifts the numbering of the slots by one.
LEMMA SlotShift ==
    ASSUME front_idx \in Streams, front_idx' = (front_idx + 1) % NIREQ
    PROVE  \A k \in Streams : Slot(k)' = Slot(k + 1)
<1> TAKE k \in Streams
<1>1. front_idx' = IF front_idx + 1 < NIREQ THEN front_idx + 1 ELSE front_idx + 1 - NIREQ
  <2> DEFINE x == front_idx + 1
  <2>1. x \in 0 .. 2 * NIREQ - 1
    BY NIREQAssumption DEF Streams
  <2>2. x % NIREQ = IF x < NIREQ THEN x ELSE x - NIREQ
    <3> HIDE DEF x
    <3> QED
      BY <2>1, Wrap
  <2> QED
    BY <2>1, <2>2, NIREQAssumption DEF Streams
<1>2. front_idx' \in Streams
    BY <1>1, NIREQAssumption DEF Streams
<1>3. Slot(k)' = IF front_idx' + k < NIREQ THEN front_idx' + k ELSE front_idx' + k - NIREQ
  <2> DEFINE x == front_idx' + k
  <2>1. x \in 0 .. 2 * NIREQ - 1
    BY <1>2, NIREQAssumption DEF Streams
  <2>2. x % NIREQ = IF x < NIREQ THEN x ELSE x - NIREQ
    <3> HIDE DEF x
    <3> QED
      BY <2>1, Wrap
  <2> QED
    BY <2>1, <2>2, NIREQAssumption DEF Slot, Streams
<1>4. Slot(k + 1) = IF front_idx + (k + 1) < NIREQ THEN front_idx + (k + 1)
                                                ELSE front_idx + (k + 1) - NIREQ
  <2> DEFINE x == front_idx + (k + 1)
  <2>1. x \in 0 .. 2 * NIREQ - 1
    BY NIREQAssumption DEF Streams
  <2>2. x % NIREQ = IF x < NIREQ THEN x ELSE x - NIREQ
    <3> HIDE DEF x
    <3> QED
      BY <2>1, Wrap
  <2> QED
    BY <2>1, <2>2, NIREQAssumption DEF Slot, Streams
<1> QED
    BY <1>1, <1>3, <1>4, NIREQAssumption DEF Streams

(***************************************************************************)
(* QueueInv is inductive, part by part.                                    *)
(***************************************************************************)

\* A guard owns its stream from tryGetId or tryDisarm until returnStream has
\* passed it on, and its future is read once (the two guards, queue.hpp).
LEMMA GuardsStep == TypeOK /\ GuardsOK /\ PromisesOK /\ [Next]_vars => GuardsOK'
<1> SUFFICES ASSUME TypeOK, GuardsOK, PromisesOK, [Next]_vars PROVE GuardsOK'
    OBVIOUS
<1> USE DEF TypeOK, GuardsOK, Goto, ring, gauges, OwnerPCs, WaitPCs
<1>1. CASE UNCHANGED vars
    BY <1>1 DEF vars
<1>2. ASSUME NEW g \in Guards,
             \/ Construct(g) \/ FindNoIdleStream(g) \/ PushPromise(g) \/ CountSession(g)
             \/ EndInference(g) \/ PopPromise(g) \/ ReserveSlot(g) \/ Destroy(g)
      PROVE  GuardsOK'
    BY <1>2 DEF Construct, FindNoIdleStream, PushPromise, CountSession, EndInference,
                PopPromise, ReserveSlot, Destroy, AfterGetIdleStream, Guards
<1>3. ASSUME NEW g \in Guards, TakeIdleStream(g) PROVE GuardsOK'
    BY <1>3 DEF TakeIdleStream, AfterGetIdleStream, Guards
<1>4. ASSUME NEW g \in Guards, StartInference(g) \/ Disarm(g) PROVE GuardsOK'
    BY <1>4 DEF StartInference, Disarm
<1>5. ASSUME NEW g \in Guards, SetValue(g) PROVE GuardsOK'
  <2>1. pc[target[g]] \in WaitPCs
    BY <1>5 DEF SetValue, PromisesOK, HandedTo
  <2> QED
    BY <1>5, <2>1 DEF SetValue
<1>6. ASSUME NEW g \in Guards, StoreStream(g) PROVE GuardsOK'
    BY <1>6 DEF StoreStream
<1> QED
    BY <1>1, <1>2, <1>3, <1>4, <1>5, <1>6 DEF Next, Proceed

\* A promise is queued by a guard that waits, popped once, and fulfilled once
\* (queue.hpp getIdleStream and returnStream).
LEMMA PromisesStep == TypeOK /\ GuardsOK /\ PromisesOK /\ [Next]_vars => PromisesOK'
<1> SUFFICES ASSUME TypeOK, GuardsOK, PromisesOK, [Next]_vars PROVE PromisesOK'
    OBVIOUS
<1> USE DEF TypeOK, GuardsOK, PromisesOK, Goto, ring, gauges, OwnerPCs, WaitPCs
\* Steps that neither queue nor pop nor fulfil a promise, of a guard that is
\* not waited for.
<1>1. ASSUME NEW g \in Guards, ~Queued(g), ~HandedTo(g),
             \A h \in Guards : h # g => pc'[h] = pc[h] /\ future'[h] = future[h],
             pc[g] # "deliver", pc'[g] # "deliver",
             UNCHANGED <<promises, target>>
      PROVE  PromisesOK'
    BY <1>1 DEF Queued, HandedTo
<1>2. CASE UNCHANGED vars
    BY <1>2 DEF vars, Queued, HandedTo
<1>3. ASSUME NEW g \in Guards,
             \/ Construct(g) \/ TakeIdleStream(g) \/ FindNoIdleStream(g) \/ EndInference(g)
             \/ ReserveSlot(g) \/ StoreStream(g) \/ Destroy(g) \/ StartInference(g) \/ Disarm(g)
      PROVE  PromisesOK'
  <2>1. ~Queued(g) /\ ~HandedTo(g)
    BY <1>3 DEF Construct, TakeIdleStream, FindNoIdleStream, EndInference, ReserveSlot,
                StoreStream, Destroy, StartInference, Disarm
  <2>2. /\ \A h \in Guards : h # g => pc'[h] = pc[h] /\ future'[h] = future[h]
        /\ pc[g] # "deliver" /\ pc'[g] # "deliver"
        /\ UNCHANGED <<promises, target>>
    BY <1>3 DEF Construct, TakeIdleStream, FindNoIdleStream, EndInference, ReserveSlot,
                StoreStream, Destroy, StartInference, Disarm, AfterGetIdleStream
  <2> QED
    BY <1>1, <2>1, <2>2
<1>4. ASSUME NEW g \in Guards, CountSession(g) PROVE PromisesOK'
    BY <1>4 DEF CountSession, Queued, HandedTo
<1>5. ASSUME NEW g \in Guards, PushPromise(g) PROVE PromisesOK'
  <2>1. ~Queued(g) /\ ~HandedTo(g) /\ future[g] = None
    BY <1>5 DEF PushPromise
  <2>2. /\ Len(promises) \in Nat /\ Len(promises') = Len(promises) + 1
        /\ \A i \in 1 .. Len(promises) : promises'[i] = promises[i]
        /\ promises'[Len(promises) + 1] = g
    BY <1>5 DEF PushPromise
  <2>3. \A h \in Guards : Queued(h)' <=> Queued(h) \/ h = g
    <3>1. \A i \in 1 .. Len(promises') : i \in 1 .. Len(promises) \/ i = Len(promises) + 1
      BY <2>2
    <3>2. Len(promises) + 1 \in 1 .. Len(promises') /\ \A i \in 1 .. Len(promises) : i \in 1 .. Len(promises')
      BY <2>2
    <3> QED
      BY <2>2, <3>1, <3>2 DEF Queued
  <2>4. \A h \in Guards : HandedTo(h)' <=> HandedTo(h)
    BY <1>5 DEF PushPromise, HandedTo, AfterGetIdleStream
  <2>5. \A i, j \in 1 .. Len(promises') : promises'[i] = promises'[j] => i = j
    BY <2>1, <2>2 DEF Queued
  <2> QED
    BY <1>5, <2>1, <2>3, <2>4, <2>5 DEF PushPromise, AfterGetIdleStream
<1>6. ASSUME NEW g \in Guards, PopPromise(g) PROVE PromisesOK'
  <2>1. /\ promises # <<>> /\ Len(promises') = Len(promises) - 1
        /\ \A i \in 1 .. Len(promises') : promises'[i] = promises[i + 1]
        /\ Head(promises) = promises[1] /\ Head(promises) \in Guards
    BY <1>6 DEF PopPromise
  <2> DEFINE first == Head(promises)
  <2>2. Queued(first) /\ ~HandedTo(first) /\ first # g
    BY <1>6, <2>1 DEF PopPromise, Queued
  <2>3. \A h \in Guards : Queued(h)' <=> Queued(h) /\ h # first
    <3>1. ASSUME NEW h \in Guards, Queued(h)' PROVE Queued(h) /\ h # first
      BY <2>1, <3>1 DEF Queued
    <3>2. ASSUME NEW h \in Guards, Queued(h), h # first PROVE Queued(h)'
      <4>1. PICK i \in 1 .. Len(promises) : promises[i] = h
        BY <3>2 DEF Queued
      <4>2. i - 1 \in 1 .. Len(promises')
        BY <2>1, <3>2, <4>1
      <4>3. promises'[i - 1] = promises[(i - 1) + 1] /\ (i - 1) + 1 = i
        BY <2>1, <4>1, <4>2
      <4> QED
        BY <4>1, <4>2, <4>3 DEF Queued
    <3> QED
      BY <3>1, <3>2
  <2>4. \A h \in Guards : HandedTo(h)' <=> HandedTo(h) \/ h = first
    BY <1>6, <2>1 DEF PopPromise, HandedTo
  <2>5. \A i, j \in 1 .. Len(promises') : promises'[i] = promises'[j] => i = j
    BY <2>1
  <2>6. ~HandedTo(first) =>
          \A h, k \in Guards : pc'[h] = "deliver" /\ pc'[k] = "deliver" /\ target'[h] = target'[k] => h = k
    BY <1>6, <2>1 DEF PopPromise, HandedTo
  <2>7. \A h \in Guards : Queued(h)' \/ HandedTo(h)' => pc'[h] \in WaitPCs /\ future'[h] = None
    BY <1>6, <2>2, <2>3, <2>4 DEF PopPromise
  <2> QED
    BY <2>2, <2>3, <2>4, <2>5, <2>6, <2>7
<1>7. ASSUME NEW g \in Guards, SetValue(g) PROVE PromisesOK'
  <2>1. HandedTo(target[g]) /\ target[g] \in Guards /\ target[g] # g
    BY <1>7 DEF SetValue, HandedTo
  <2>2. \A h \in Guards : Queued(h)' <=> Queued(h)
    BY <1>7 DEF SetValue, Queued
  <2>3. \A h \in Guards : HandedTo(h)' <=> HandedTo(h) /\ h # target[g]
    BY <1>7 DEF SetValue, HandedTo
  <2>4. ~Queued(g) /\ ~HandedTo(g) /\ ~Queued(target[g])
    BY <1>7, <2>1 DEF SetValue
  <2>5. \A h \in Guards : Queued(h)' \/ HandedTo(h)' => pc'[h] \in WaitPCs /\ future'[h] = None
    BY <1>7, <2>2, <2>3, <2>4 DEF SetValue
  <2>6. \A h, k \in Guards : pc'[h] = "deliver" /\ pc'[k] = "deliver" /\ target'[h] = target'[k] => h = k
    BY <1>7 DEF SetValue
  <2> QED
    BY <1>7, <2>2, <2>3, <2>5, <2>6 DEF SetValue
<1> QED
    BY <1>2, <1>3, <1>4, <1>5, <1>6, <1>7 DEF Next, Proceed

\* Two streams are in two slots and two slots hold two streams: when all the
\* slots are filled, no stream is anywhere else.
LEMMA FullRing ==
    ASSUME TypeOK, ExclusiveStreams, NEW g \in Guards, streamId[g] # None, Filled(NIREQ)
    PROVE  FALSE
<1> USE DEF TypeOK
<1>1. \A i \in Streams : streams[i] # None
    BY SlotFacts, NIREQAssumption DEF Filled, Streams
<1>2. streams \in Injection(Streams, Streams)
    BY <1>1 DEF ExclusiveStreams, Injection, IsInjective
<1>3. IsFiniteSet(Streams)
    BY FS_Interval, NIREQAssumption DEF Streams
<1>4. streams \in Surjection(Streams, Streams)
    BY <1>2, <1>3, FS_Injection
<1>5. PICK i \in Streams : streams[i] = streamId[g]
    BY <1>4 DEF Surjection
<1> QED
    BY <1>5 DEF ExclusiveStreams

\* getIdleStream takes the first of n streams: n - 1 are left.
LEMMA TakeFills ==
    ASSUME TypeOK, NEW g \in Guards, TakeIdleStream(g), NEW n \in 0 .. NIREQ, Filled(n)
    PROVE  /\ n > 0 /\ n - 1 \in 0 .. NIREQ /\ n - 1 \in Streams
           /\ Filled(n - 1)'
           /\ \A k \in Streams : k + 1 < NIREQ => streams'[Slot(k)'] = streams[Slot(k + 1)]
<1> USE DEF TypeOK
<1>1. /\ \A k \in Streams : Slot(k)' = Slot(k + 1)
      /\ \A k \in 0 .. NIREQ : Slot(k) \in Streams
      /\ \A j, k \in Streams : Slot(j) = Slot(k) => j = k
      /\ Slot(0) = front_idx /\ Slot(NIREQ) = front_idx
    BY SlotFacts, SlotShift, NIREQAssumption DEF TakeIdleStream, Streams
<1>2. n > 0 /\ n - 1 \in 0 .. NIREQ /\ n - 1 \in Streams
    BY <1>1, NIREQAssumption DEF TakeIdleStream, Filled, Streams
<1>3. ASSUME NEW k \in Streams, k + 1 < NIREQ PROVE streams'[Slot(k)'] = streams[Slot(k + 1)]
  <2>1. k + 1 \in Streams /\ 0 \in Streams /\ k + 1 # 0 /\ k + 1 \in 0 .. NIREQ
    BY <1>3, NIREQAssumption DEF Streams
  <2>2. Slot(k + 1) # front_idx /\ Slot(k + 1) \in Streams
    BY <1>1, <2>1
  <2> QED
    BY <1>1, <2>2 DEF TakeIdleStream
<1>4. ASSUME NEW k \in Streams PROVE streams'[Slot(k)'] # None <=> k < n - 1
  <2>1. CASE k + 1 < NIREQ
    <3>1. streams[Slot(k + 1)] # None <=> k + 1 < n
      BY <2>1, NIREQAssumption DEF Filled, Streams
    <3> QED
      BY <1>3, <2>1, <3>1 DEF Streams
  <2>2. CASE k + 1 = NIREQ
    <3>1. streams'[Slot(k)'] = None
      BY <1>1, <2>2 DEF TakeIdleStream
    <3> QED
      BY <2>2, <3>1, NIREQAssumption DEF Streams
  <2>3. k + 1 < NIREQ \/ k + 1 = NIREQ
    BY NIREQAssumption DEF Streams
  <2> QED
    BY <2>1, <2>2, <2>3
<1> QED
    BY <1>2, <1>3, <1>4 DEF Filled

\* returnStream stores a stream behind the n that are there.
LEMMA StoreFills ==
    ASSUME TypeOK, NEW g \in Guards, StoreStream(g), streamId[g] # None,
           NEW n \in Streams, Filled(n), old_back[g] = Slot(n)
    PROVE  /\ Filled(n + 1)'
           /\ \A k \in Streams : streams'[Slot(k)'] = IF k = n THEN streamId[g] ELSE streams[Slot(k)]
<1> USE DEF TypeOK
<1>1. /\ \A j, k \in Streams : Slot(j) = Slot(k) => j = k
      /\ \A k \in Streams : Slot(k) \in Streams /\ Slot(k)' = Slot(k)
  <2>1. \A k \in Streams : Slot(k)' = Slot(k)
    BY DEF StoreStream, Slot
  <2>2. \A k \in Streams : k \in 0 .. NIREQ
    BY NIREQAssumption DEF Streams
  <2> QED
    BY <2>1, <2>2, SlotFacts
<1>2. ASSUME NEW k \in Streams
      PROVE  streams'[Slot(k)'] = IF k = n THEN streamId[g] ELSE streams[Slot(k)]
    BY <1>1 DEF StoreStream
<1>3. ASSUME NEW k \in Streams PROVE streams'[Slot(k)'] # None <=> k < n + 1
  <2>1. CASE k = n
    BY <1>2, <2>1 DEF Streams
  <2>2. CASE k # n
    <3>1. streams'[Slot(k)'] # None <=> k < n
      BY <1>2, <2>2 DEF Filled
    <3>2. k < n <=> k < n + 1
      BY <2>2, NIREQAssumption DEF Streams
    <3> QED
      BY <3>1, <3>2
  <2> QED
    BY <2>1, <2>2
<1> QED
    BY <1>2, <1>3 DEF Filled

\* The ring is filled from front_idx to back_idx: getIdleStream empties its
\* first slot and returnStream fills the slot behind its last one.
LEMMA RingStep ==
    TypeOK /\ ExclusiveStreams /\ GuardsOK /\ RingOK /\ [Next]_vars => RingOK'
<1> SUFFICES ASSUME TypeOK, ExclusiveStreams, GuardsOK, RingOK, [Next]_vars PROVE RingOK'
    OBVIOUS
<1> USE DEF TypeOK, Goto, ring, gauges
<1>0. PICK n \in 0 .. NIREQ : Filled(n) /\ BackOK(n)
    BY DEF RingOK
\* Steps that leave the ring and the mutex alone.
<1>1. ASSUME UNCHANGED <<ring, queue_mutex, old_back>>,
             \A g \in Guards : pc'[g] = "store" <=> pc[g] = "store"
      PROVE  RingOK'
    BY <1>0, <1>1 DEF RingOK, Filled, BackOK, Slot
<1>2. CASE UNCHANGED vars
    BY <1>1, <1>2 DEF vars
<1>3. ASSUME NEW g \in Guards,
             \/ Construct(g) \/ FindNoIdleStream(g) \/ PushPromise(g) \/ CountSession(g)
             \/ StartInference(g) \/ EndInference(g) \/ Disarm(g) \/ PopPromise(g)
             \/ SetValue(g) \/ Destroy(g)
      PROVE  RingOK'
  <2>1. /\ UNCHANGED <<ring, queue_mutex, old_back>>
        /\ \A h \in Guards : pc'[h] = "store" <=> pc[h] = "store"
    BY <1>3 DEF Construct, FindNoIdleStream, PushPromise, CountSession, StartInference,
                EndInference, Disarm, PopPromise, SetValue, Destroy, AfterGetIdleStream
  <2> QED
    BY <1>1, <2>1
<1>4. ASSUME NEW g \in Guards, TakeIdleStream(g) PROVE RingOK'
  <2>2. n > 0 /\ n - 1 \in 0 .. NIREQ /\ n - 1 \in Streams
    BY <1>0, <1>4, TakeFills
  <2>3. Filled(n - 1)'
    BY <1>0, <1>4, TakeFills
  <2>4. BackOK(n - 1)'
    <3>1. Slot(n - 1)' = Slot(n)
      <4>1. Slot(n - 1)' = Slot((n - 1) + 1) /\ (n - 1) + 1 = n
        BY <1>4, <2>2, SlotShift DEF TakeIdleStream
      <4> QED
        BY <4>1
    <3> QED
      BY <1>0, <1>4, <2>2, <3>1, NIREQAssumption DEF TakeIdleStream, BackOK
  <2>5. \A h \in Guards : pc'[h] = "store" <=> queue_mutex' = h
    BY <1>4 DEF TakeIdleStream, RingOK, AfterGetIdleStream
  <2> QED
    BY <2>2, <2>3, <2>4, <2>5 DEF RingOK
<1>5. ASSUME NEW g \in Guards, ReserveSlot(g) PROVE RingOK'
  <2>1. n < NIREQ
    BY <1>0, <1>5, FullRing, NIREQAssumption DEF ReserveSlot, GuardsOK, OwnerPCs
  <2>2. Filled(n)' /\ UNCHANGED <<streams, front_idx>>
    BY <1>0, <1>5 DEF ReserveSlot, Filled, Slot
  <2>3. BackOK(n)'
    BY <1>0, <1>5, <2>1, FreeAssumption DEF ReserveSlot, BackOK, Slot
  <2>4. \A h \in Guards : pc'[h] = "store" <=> queue_mutex' = h
    BY <1>5, FreeAssumption DEF ReserveSlot, RingOK
  <2> QED
    BY <2>2, <2>3, <2>4 DEF RingOK
<1>6. ASSUME NEW g \in Guards, StoreStream(g) PROVE RingOK'
  <2>1. queue_mutex = g /\ queue_mutex # Free /\ streamId[g] # None /\ streamId[g] \in Streams
    BY <1>6, FreeAssumption DEF StoreStream, RingOK, GuardsOK, OwnerPCs
  <2>2. /\ n < NIREQ /\ n + 1 \in 0 .. NIREQ /\ n \in Streams
        /\ old_back[g] = Slot(n) /\ back_idx = (Slot(n) + 1) % NIREQ
    BY <1>0, <2>1, NIREQAssumption DEF BackOK, Streams
  <2>3. /\ \A k \in 0 .. NIREQ : Slot(k) \in Streams
        /\ \A k \in 0 .. NIREQ :
             Slot(k) = IF front_idx + k < NIREQ THEN front_idx + k ELSE front_idx + k - NIREQ
    BY SlotFacts
  <2>4. Filled(n + 1)'
    BY <1>0, <1>6, <2>1, <2>2, StoreFills
  <2>5. BackOK(n + 1)'
    <3> DEFINE x == Slot(n) + 1
    <3>0. Slot(n) \in Streams
      BY <2>3
    <3>1. back_idx = IF x < NIREQ THEN x ELSE x - NIREQ
      <4>1. x \in 0 .. 2 * NIREQ - 1
        BY <3>0, NIREQAssumption DEF Streams
      <4>2. back_idx = x % NIREQ
        BY <2>2
      <4> HIDE DEF x
      <4> QED
        BY <4>1, <4>2, Wrap
    <3>2. back_idx = Slot(n + 1)
      <4>1. Slot(n) = IF front_idx + n < NIREQ THEN front_idx + n ELSE front_idx + n - NIREQ
        BY <2>3
      <4>2. Slot(n + 1) = IF front_idx + (n + 1) < NIREQ THEN front_idx + (n + 1)
                                                    ELSE front_idx + (n + 1) - NIREQ
        BY <2>2, <2>3
      <4>3. front_idx \in Int /\ n \in Int /\ NIREQ \in Int /\ front_idx < NIREQ /\ n < NIREQ
        BY <2>2, NIREQAssumption DEF Streams
      <4>4. CASE front_idx + n < NIREQ
        BY <3>1, <4>1, <4>2, <4>3, <4>4
      <4>5. CASE front_idx + n >= NIREQ
        BY <3>1, <4>1, <4>2, <4>3, <4>5
      <4> QED
        BY <4>3, <4>4, <4>5
    <3>3. back_idx' = Slot(n + 1)'
      BY <1>6, <3>2 DEF StoreStream, Slot
    <3> QED
      BY <1>6, <3>3 DEF StoreStream, BackOK
  <2>6. \A h \in Guards : pc'[h] = "store" <=> queue_mutex' = h
    BY <1>6, FreeAssumption DEF StoreStream, RingOK
  <2> QED
    BY <2>2, <2>4, <2>5, <2>6 DEF RingOK
<1> QED
    BY <1>2, <1>3, <1>4, <1>5, <1>6 DEF Next, Proceed

\* The constructor of the queue (queue.hpp) starts with a full ring and no
\* guard.
LEMMA QueueInvInit == Init => QueueInv
<1> SUFFICES ASSUME Init PROVE QueueInv
    OBVIOUS
<1>1. TypeOK /\ ExclusiveStreams
    BY TypeInit, ExclusiveInit
<1>2. GuardsOK /\ PromisesOK
    BY DEF Init, GuardsOK, PromisesOK, Queued, HandedTo, OwnerPCs
<1>3. Filled(NIREQ)
    BY <1>1, SlotFacts, NIREQAssumption DEF Init, Filled, Streams, None, TypeOK
<1>4. BackOK(NIREQ)
    BY <1>1, SlotFacts, NIREQAssumption DEF Init, BackOK, TypeOK, Streams
<1>5. RingOK
    BY <1>3, <1>4, NIREQAssumption, FreeAssumption DEF RingOK, Init
<1> QED
    BY <1>1, <1>2, <1>5 DEF QueueInv

\* Every step of a guard keeps the queue, its promises and its ring as they should be.
LEMMA QueueInvStep == QueueInv /\ [Next]_vars => QueueInv'
BY TypeStep, ExclusiveStep, GuardsStep, PromisesStep, RingStep DEF QueueInv

\* Streams never get lost in the ring nor promises in their queue: the ring is
\* filled without a gap between its two indices, whoever moves them, and every
\* promise belongs to one guard that waits (queue.hpp).
THEOREM QueueInvariant == Spec => []QueueInv
BY QueueInvInit, QueueInvStep, PTL DEF Spec

(***************************************************************************)
(* The gauges.                                                             *)
(***************************************************************************)

\* Each gauge goes up when a guard enters the set it counts and down when the
\* guard leaves (executingstreamidguard.cpp, nodestreamidguard.cpp).
LEMMA GaugesStep == TypeOK /\ GuardsOK /\ GaugesCount /\ [Next]_vars => GaugesCount'
<1> SUFFICES ASSUME TypeOK, GuardsOK, GaugesCount, [Next]_vars PROVE GaugesCount'
    OBVIOUS
<1> DEFINE Active == ActiveOf(pc)
           Counted == CountedOf(pc)
<1> USE DEF TypeOK, Goto, ring, gauges, Guards
<1>1. CASE UNCHANGED vars
    BY <1>1 DEF vars, GaugesCount
<1>2. ASSUME NEW g \in Guards,
             \/ TakeIdleStream(g) \/ FindNoIdleStream(g) \/ PushPromise(g) \/ Disarm(g)
             \/ PopPromise(g) \/ SetValue(g) \/ ReserveSlot(g) \/ StoreStream(g)
      PROVE  GaugesCount'
  <2>1. ActiveOf(pc') = Active /\ CountedOf(pc') = Counted
    BY <1>2, GuardsAssumption DEF TakeIdleStream, FindNoIdleStream, PushPromise, Disarm, PopPromise,
                SetValue, ReserveSlot, StoreStream, AfterGetIdleStream, ActiveOf, CountedOf
  <2>2. UNCHANGED gauges
    BY <1>2 DEF TakeIdleStream, FindNoIdleStream, PushPromise, Disarm, PopPromise,
                SetValue, ReserveSlot, StoreStream
  <2> QED
    BY <2>1, <2>2 DEF GaugesCount
<1>3. ASSUME NEW g \in Guards, Construct(g) PROVE GaugesCount'
  <2>1. CASE g \in Requests
    <3>1. /\ ActiveOf(pc') = Active /\ CountedOf(pc') = Counted \cup {g} /\ g \notin Counted
          /\ inferReqActive' = inferReqActive /\ currentRequests' = currentRequests + 1
      BY <1>3, <2>1 DEF Construct, ActiveOf, CountedOf
    <3> QED
      BY <3>1, FS_AddElement DEF GaugesCount
  <2>2. CASE g \notin Requests
    <3>1. /\ ActiveOf(pc') = Active /\ CountedOf(pc') = Counted
          /\ inferReqActive' = inferReqActive /\ currentRequests' = currentRequests
      BY <1>3, <2>2 DEF Construct, ActiveOf, CountedOf
    <3> QED
      BY <3>1 DEF GaugesCount
  <2> QED
    BY <2>1, <2>2
<1>4. ASSUME NEW g \in Guards, CountSession(g) PROVE GaugesCount'
  <2>1. /\ ActiveOf(pc') = Active /\ CountedOf(pc') = Counted \cup {g} /\ g \notin Counted
        /\ inferReqActive' = inferReqActive /\ currentRequests' = currentRequests + 1
    BY <1>4, GuardsAssumption DEF CountSession, ActiveOf, CountedOf, GuardsOK
  <2> QED
    BY <2>1, FS_AddElement DEF GaugesCount
<1>5. ASSUME NEW g \in Guards, StartInference(g) PROVE GaugesCount'
  <2>1. /\ ActiveOf(pc') = Active \cup {g} /\ g \notin Active /\ CountedOf(pc') = Counted
        /\ inferReqActive' = inferReqActive + 1 /\ currentRequests' = currentRequests
    BY <1>5 DEF StartInference, ActiveOf, CountedOf
  <2> QED
    BY <2>1, FS_AddElement DEF GaugesCount
<1>6. ASSUME NEW g \in Guards, EndInference(g) PROVE GaugesCount'
  <2>1. /\ ActiveOf(pc') = Active \ {g} /\ g \in Active /\ CountedOf(pc') = Counted
        /\ inferReqActive' = inferReqActive - 1 /\ currentRequests' = currentRequests
    BY <1>6 DEF EndInference, ActiveOf, CountedOf
  <2> QED
    BY <2>1, FS_RemoveElement DEF GaugesCount
<1>7. ASSUME NEW g \in Guards, Destroy(g) PROVE GaugesCount'
  <2>1. /\ ActiveOf(pc') = Active /\ CountedOf(pc') = Counted \ {g} /\ g \in Counted
        /\ inferReqActive' = inferReqActive /\ currentRequests' = currentRequests - 1
    BY <1>7 DEF Destroy, ActiveOf, CountedOf
  <2> QED
    BY <2>1, FS_RemoveElement DEF GaugesCount
<1> QED
    BY <1>1, <1>2, <1>3, <1>4, <1>5, <1>6, <1>7 DEF Next, Proceed

\* The gauges start at zero without a guard.
LEMMA GaugesInit == Init => GaugesCount
<1> SUFFICES ASSUME Init PROVE GaugesCount
    OBVIOUS
<1>1. ActiveOf(pc) = {} /\ CountedOf(pc) = {}
    BY DEF Init, ActiveOf, CountedOf
<1> QED
    BY <1>1, FS_EmptySet DEF Init, GaugesCount

\* Every running inference has a stream of its own, and is a current request.
LEMMA GaugesBound == QueueInv /\ GaugesCount => GaugesAgree
<1> SUFFICES ASSUME QueueInv, GaugesCount PROVE GaugesAgree
    OBVIOUS
<1> DEFINE Active == ActiveOf(pc)
           Counted == CountedOf(pc)
           f == [g \in Active |-> streamId[g]]
<1>1. IsFiniteSet(Streams) /\ Cardinality(Streams) = NIREQ
  <2>1. IsFiniteSet(0 .. NIREQ - 1)
        /\ Cardinality(0 .. NIREQ - 1) = IF 0 > NIREQ - 1 THEN 0 ELSE NIREQ - 1 - 0 + 1
    BY FS_Interval, NIREQAssumption
  <2> QED
    BY <2>1, NIREQAssumption DEF Streams
<1>2. f \in Injection(Active, Streams)
  <2>1. \A g \in Active : g \in Guards /\ streamId[g] \in Streams /\ streamId[g] # None
    BY DEF QueueInv, TypeOK, GuardsOK, OwnerPCs, ActiveOf
  <2>2. \A g, h \in Active : streamId[g] = streamId[h] => g = h
    BY <2>1 DEF QueueInv, ExclusiveStreams
  <2> QED
    BY <2>1, <2>2 DEF Injection, IsInjective
<1>3. Cardinality(Active) <= NIREQ
  <2> HIDE DEF f, Active
  <2> QED
    BY <1>1, <1>2, FS_Injection
<1>4. Active \in SUBSET Counted
    BY DEF ActiveOf, CountedOf
<1>5. Cardinality(Active) <= Cardinality(Counted)
    BY <1>4, FS_Subset DEF GaugesCount
<1>6. Cardinality(Active) \in Nat
    BY FS_CardinalityType DEF GaugesCount
<1>7. Running = Active /\ Current = Counted
    BY DEF Running, Current, ActiveOf, CountedOf
<1> QED
    BY <1>3, <1>5, <1>6, <1>7 DEF GaugesAgree, GaugesCount

\* The exported gauges are true whatever the requests and sessions do, and
\* however many of them there are: ovms_infer_req_active is the number of
\* guards whose inference runs, at most the number of streams, and
\* ovms_current_requests the number of guards that are counted
\* (executingstreamidguard.cpp, nodestreamidguard.cpp).
THEOREM GaugesTellTheTruth == Spec => []GaugesAgree
<1>1. Init => QueueInv /\ GaugesCount
    BY QueueInvInit, GaugesInit
<1>2. QueueInv /\ GaugesCount /\ [Next]_vars => (QueueInv /\ GaugesCount)'
    BY QueueInvStep, GaugesStep DEF QueueInv
<1> QED
    BY <1>1, <1>2, GaugesBound, PTL DEF Spec

(***************************************************************************)
(* The refinement of StreamPool.                                           *)
(***************************************************************************)

\* What is left of a sequence when its head is taken.
LEMMA HeadTail ==
    ASSUME NEW S, NEW s \in Seq(S), NEW n \in Nat, n >= 1, Len(s) = n
    PROVE  /\ s # <<>> /\ Head(s) = s[1]
           /\ Tail(s) = [k \in 1 .. n - 1 |-> s[k + 1]]
<1>1. s # <<>> /\ Head(s) = s[1]
    OBVIOUS
<1>2. Tail(s) \in Seq(S) /\ Len(Tail(s)) = n - 1 /\ \A k \in 1 .. n - 1 : Tail(s)[k] = s[k + 1]
    BY <1>1
<1>3. Tail(s) = [k \in 1 .. n - 1 |-> Tail(s)[k]]
    BY <1>2, LenProperties
<1> QED
    BY <1>1, <1>2, <1>3

\* ... and what a sequence is when an element is put behind it.
LEMMA AppendIs ==
    ASSUME NEW S, NEW s \in Seq(S), NEW e \in S, NEW n \in Nat, Len(s) = n
    PROVE  Append(s, e) = [k \in 1 .. n + 1 |-> IF k = n + 1 THEN e ELSE s[k]]
<1>1. Append(s, e) \in Seq(S) /\ Len(Append(s, e)) = n + 1
    OBVIOUS
<1>2. \A k \in 1 .. n + 1 : Append(s, e)[k] = IF k = n + 1 THEN e ELSE s[k]
    OBVIOUS
<1>3. Append(s, e) = [k \in 1 .. n + 1 |-> Append(s, e)[k]]
    BY <1>1, LenProperties
<1> QED
    BY <1>2, <1>3

\* The mapping counts the filled slots, which are the ones from front_idx on.
LEMMA OccupiedCount ==
    ASSUME TypeOK, NEW n \in 0 .. NIREQ, Filled(n)
    PROVE  /\ Cardinality(Occupied) = n
           /\ IdleStreams = [k \in 1 .. n |-> streams[Slot(k - 1)]]
<1> DEFINE f == [k \in 1 .. n |-> Slot(k - 1)]
<1>1. /\ \A k \in 0 .. NIREQ : Slot(k) \in Streams
      /\ \A j, k \in Streams : Slot(j) = Slot(k) => j = k
      /\ \A i \in Streams : \E k \in Streams : Slot(k) = i
    BY SlotFacts DEF TypeOK
<1>2. \A k \in 1 .. n : k - 1 \in Streams /\ k - 1 \in 0 .. NIREQ /\ k - 1 < n
    BY NIREQAssumption DEF Streams
<1>3. f \in [1 .. n -> Occupied]
    BY <1>1, <1>2 DEF Occupied, Filled
<1>4. \A j, k \in 1 .. n : f[j] = f[k] => j = k
    BY <1>1, <1>2
<1>5. \A i \in Occupied : \E k \in 1 .. n : f[k] = i
  <2> TAKE i \in Occupied
  <2>1. PICK k \in Streams : Slot(k) = i
    BY <1>1 DEF Occupied
  <2>2. k < n
    BY <2>1 DEF Filled, Occupied
  <2>3. k + 1 \in 1 .. n /\ (k + 1) - 1 = k
    BY <2>2 DEF Streams
  <2> QED
    BY <2>1, <2>3
<1>6. f \in Bijection(1 .. n, Occupied)
  <2> HIDE DEF f
  <2> QED
    BY <1>3, <1>4, <1>5 DEF Bijection, Injection, Surjection, IsInjective
<1>7. Cardinality(Occupied) = n
  <2> HIDE DEF f
  <2>1. ExistsBijection(1 .. n, Occupied)
    BY <1>6 DEF ExistsBijection
  <2> QED
    BY <2>1, FS_CountingElements
<1>8. \A k \in 1 .. n : (front_idx + k - 1) % NIREQ = Slot(k - 1)
    BY NIREQAssumption DEF Slot, TypeOK, Streams
<1> QED
    BY <1>7, <1>8 DEF IdleStreams

\* The sequence of idle streams is that of the filled slots, from front_idx on.
IdleIs ==
    \A n \in 0 .. NIREQ : Filled(n) => IdleStreams = [k \in 1 .. n |-> streams[Slot(k - 1)]]

\* So it is in every state of the queue.
LEMMA IdleFacts == QueueInv => IdleIs
BY OccupiedCount DEF IdleIs, QueueInv

\* The stream that the mapping gives to a guard, case by case.
GivenIs ==
    \A g \in Guards :
        /\ \A h \in Guards : pc[h] = "deliver" /\ target[h] = g => StreamGiven(g) = streamId[h]
        /\ ~HandedTo(g) => StreamGiven(g) = IF pc[g] = "deliver" THEN None
                                            ELSE IF future[g] # None THEN future[g] ELSE streamId[g]

\* The mapping gives every guard the stream it holds or that is on its way to it.
LEMMA GivenFacts == QueueInv => GivenIs
<1> SUFFICES ASSUME QueueInv, NEW g \in Guards
             PROVE  /\ \A h \in Guards : pc[h] = "deliver" /\ target[h] = g => StreamGiven(g) = streamId[h]
                    /\ ~HandedTo(g) => StreamGiven(g) = IF pc[g] = "deliver" THEN None
                                            ELSE IF future[g] # None THEN future[g] ELSE streamId[g]
    BY DEF GivenIs
<1> DEFINE givers == {h \in Guards : pc[h] = "deliver" /\ target[h] = g}
<1>1. ASSUME NEW h \in Guards, pc[h] = "deliver", target[h] = g PROVE StreamGiven(g) = streamId[h]
  <2>1. \A k \in givers : k = h
    BY <1>1 DEF QueueInv, PromisesOK
  <2>2. (CHOOSE k \in givers : TRUE) \in givers
    BY <1>1
  <2>3. (CHOOSE k \in givers : TRUE) = h
    BY <2>1, <2>2
  <2>4. givers # {}
    BY <1>1
  <2> QED
    BY <2>3, <2>4 DEF StreamGiven
<1>2. ASSUME ~HandedTo(g)
      PROVE  StreamGiven(g) = IF pc[g] = "deliver" THEN None
                              ELSE IF future[g] # None THEN future[g] ELSE streamId[g]
  <2>1. givers = {}
    BY <1>2 DEF HandedTo
  <2> QED
    BY <2>1 DEF StreamGiven
<1> QED
    BY <1>1, <1>2

\* A step that moves no stream between the ring, the guards and the queue of
\* promises is no step of the pool.
LEMMA QuietStep ==
    ASSUME UNCHANGED <<streams, front_idx, promises>>,
           \A g \in Guards : StreamGiven(g)' = StreamGiven(g)
    PROVE  UNCHANGED Pool!vars
<1>1. IdleStreams' = IdleStreams
    BY DEF IdleStreams, Occupied
<1>2. [g \in Guards |-> StreamGiven(g)]' = [g \in Guards |-> StreamGiven(g)]
    OBVIOUS
<1> QED
    BY <1>1, <1>2 DEF Pool!vars

\* Every step of a guard in the queue is a step of the pool or none
\* (getIdleStream: Get or Wait; returnStream: HandOver or PutBack).
LEMMA PoolStep == QueueInv /\ QueueInv' /\ [Next]_vars => [Pool!Next]_(Pool!vars)
<1> SUFFICES ASSUME QueueInv, QueueInv', [Next]_vars PROVE [Pool!Next]_(Pool!vars)
    OBVIOUS
<1>0. GivenIs /\ GivenIs' /\ IdleIs /\ IdleIs'
  <2>1. GivenIs /\ IdleIs
    BY GivenFacts, IdleFacts
  <2>2. GivenIs' /\ IdleIs'
    BY GivenFacts, IdleFacts, PTL
  <2> QED
    BY <2>1, <2>2
<1>1. TypeOK /\ GuardsOK /\ PromisesOK
    BY DEF QueueInv
<1> USE DEF TypeOK, Goto, ring, gauges
<1>2. CASE UNCHANGED vars
  <2>1. \A h \in Guards : StreamGiven(h)' = StreamGiven(h)
    BY <1>2 DEF vars, StreamGiven
  <2> QED
    BY <1>2, <2>1, QuietStep DEF vars
<1>3. ASSUME NEW g \in Guards,
             \/ Construct(g) \/ FindNoIdleStream(g) \/ CountSession(g) \/ EndInference(g)
             \/ ReserveSlot(g) \/ Destroy(g)
      PROVE  UNCHANGED Pool!vars
  <2>1. /\ UNCHANGED <<streams, front_idx, promises, future, streamId, target>>
        /\ \A h \in Guards : pc'[h] = "deliver" <=> pc[h] = "deliver"
    BY <1>1, <1>3 DEF Construct, FindNoIdleStream, CountSession, EndInference, ReserveSlot, Destroy
  <2>2. ASSUME NEW h \in Guards PROVE StreamGiven(h)' = StreamGiven(h)
    <3>1. CASE HandedTo(h)
      BY <1>0, <2>1, <3>1 DEF GivenIs, HandedTo
    <3>2. CASE ~HandedTo(h)
      BY <1>0, <2>1, <3>2 DEF GivenIs, HandedTo
    <3> QED
      BY <3>1, <3>2
  <2> QED
    BY <2>1, <2>2, QuietStep
<1>4. ASSUME NEW g \in Guards, StartInference(g) \/ Disarm(g) PROVE UNCHANGED Pool!vars
  <2>1. /\ UNCHANGED <<streams, front_idx, promises, target>>
        /\ \A h \in Guards : pc'[h] = "deliver" <=> pc[h] = "deliver"
        /\ \A h \in Guards : h # g => future'[h] = future[h] /\ streamId'[h] = streamId[h]
        /\ future[g] # None /\ future'[g] = None /\ streamId'[g] = future[g]
        /\ pc[g] # "deliver" /\ ~HandedTo(g)
    BY <1>1, <1>4 DEF StartInference, Disarm, PromisesOK
  <2>2. ASSUME NEW h \in Guards PROVE StreamGiven(h)' = StreamGiven(h)
    <3>1. CASE HandedTo(h)
      BY <1>0, <2>1, <3>1 DEF GivenIs, HandedTo
    <3>2. CASE ~HandedTo(h)
      BY <1>0, <2>1, <3>2 DEF GivenIs, HandedTo
    <3> QED
      BY <3>1, <3>2
  <2> QED
    BY <2>1, <2>2, QuietStep
<1>5. ASSUME NEW g \in Guards, SetValue(g) PROVE UNCHANGED Pool!vars
  <2> DEFINE t == target[g]
  <2>1. /\ t \in Guards /\ t # g /\ HandedTo(t) /\ ~HandedTo(g) /\ pc[t] \in WaitPCs
        /\ UNCHANGED <<streams, front_idx, promises>>
        /\ pc[g] = "deliver" /\ pc'[g] = "done" /\ streamId'[g] = None /\ future'[t] = streamId[g]
        /\ future[g] = None /\ streamId[g] # None
        /\ \A h \in Guards : h # g => pc'[h] = pc[h] /\ streamId'[h] = streamId[h] /\ target'[h] = target[h]
        /\ \A h \in Guards : h # t => future'[h] = future[h]
    BY <1>1, <1>5 DEF SetValue, PromisesOK, GuardsOK, HandedTo, WaitPCs, OwnerPCs
  <2>2. \A h \in Guards : HandedTo(h)' <=> HandedTo(h) /\ h # t
    BY <1>1, <2>1 DEF HandedTo, PromisesOK
  <2>3. ASSUME NEW h \in Guards PROVE StreamGiven(h)' = StreamGiven(h)
    <3>1. CASE HandedTo(h) /\ h # t
      BY <1>0, <2>1, <3>1 DEF GivenIs, HandedTo
    <3>2. CASE h = t
      BY <1>0, <2>1, <2>2, <3>2 DEF GivenIs, WaitPCs
    <3>3. CASE h = g
      BY <1>0, <2>1, <2>2, <3>3 DEF GivenIs
    <3>4. CASE ~HandedTo(h) /\ h # t /\ h # g
      BY <1>0, <2>1, <2>2, <3>4 DEF GivenIs
    <3> QED
      BY <2>1, <3>1, <3>2, <3>3, <3>4
  <2> QED
    BY <2>1, <2>3, QuietStep
<1>6. ASSUME NEW g \in Guards, TakeIdleStream(g) PROVE Pool!Get(g)
  <2>1. PICK n \in 0 .. NIREQ : Filled(n)
    BY DEF QueueInv, RingOK
  <2>2. Slot(0) = front_idx /\ \A k \in 0 .. NIREQ : Slot(k) \in Streams
    BY <1>1, SlotFacts
  <2>3. /\ n > 0 /\ n - 1 \in 0 .. NIREQ /\ Filled(n - 1)'
        /\ \A k \in Streams : k + 1 < NIREQ => streams'[Slot(k)'] = streams[Slot(k + 1)]
    BY <1>1, <1>6, <2>1, TakeFills
  <2>7. IdleStreams = [k \in 1 .. n |-> streams[Slot(k - 1)]]
    BY <1>0, <2>1 DEF IdleIs
  <2>8. IdleStreams' = [k \in 1 .. n - 1 |-> streams'[Slot(k - 1)']]
    BY <1>0, <2>3 DEF IdleIs
  <2>9. IdleStreams # <<>> /\ Head(IdleStreams) = streams[front_idx] /\ IdleStreams' = Tail(IdleStreams)
    <3>1. \A k \in 1 .. n - 1 : k - 1 \in Streams /\ (k - 1) + 1 < NIREQ /\ (k - 1) + 1 = (k + 1) - 1
      BY NIREQAssumption DEF Streams
    <3>2. \A k \in 1 .. n - 1 : streams'[Slot(k - 1)'] = streams[Slot((k + 1) - 1)]
      BY <2>3, <3>1
    <3>3. IdleStreams' = [k \in 1 .. n - 1 |-> streams[Slot((k + 1) - 1)]]
      BY <2>8, <3>2
    <3>4. IdleStreams \in Seq(Streams \cup {None}) /\ Len(IdleStreams) = n
      <4>1. \A k \in 1 .. n : k - 1 \in 0 .. NIREQ
        BY NIREQAssumption
      <4>2. \A k \in 1 .. n : streams[Slot(k - 1)] \in Streams \cup {None}
        BY <1>1, <2>2, <4>1
      <4> QED
        BY <2>7, <4>2
    <3>5. n \in Nat /\ n >= 1 /\ 1 \in 1 .. n /\ 1 - 1 = 0
      BY <2>3, NIREQAssumption
    <3>6. /\ IdleStreams # <<>> /\ Head(IdleStreams) = IdleStreams[1]
          /\ Tail(IdleStreams) = [k \in 1 .. n - 1 |-> IdleStreams[k + 1]]
      BY <3>4, <3>5, HeadTail
    <3>7. \A k \in 1 .. n - 1 : IdleStreams[k + 1] = streams[Slot((k + 1) - 1)]
      BY <2>7
    <3>8. IdleStreams[1] = streams[front_idx]
      BY <2>2, <2>7, <3>5
    <3> QED
      BY <3>3, <3>6, <3>7, <3>8
  <2>10. /\ ~HandedTo(g) /\ ~Queued(g) /\ future[g] = None /\ streamId[g] = None
         /\ future'[g] = streams[front_idx] /\ pc'[g] # "deliver" /\ future'[g] # None
         /\ UNCHANGED <<streamId, target, promises>>
         /\ \A h \in Guards : pc'[h] = "deliver" <=> pc[h] = "deliver"
         /\ \A h \in Guards : h # g => future'[h] = future[h]
    BY <1>1, <1>6 DEF TakeIdleStream, PromisesOK, GuardsOK, WaitPCs, OwnerPCs, AfterGetIdleStream
  <2>11. StreamGiven(g) = None /\ StreamGiven(g)' = streams[front_idx]
    BY <1>0, <2>10 DEF GivenIs, HandedTo
  <2>12. ASSUME NEW h \in Guards, h # g PROVE StreamGiven(h)' = StreamGiven(h)
    <3>1. CASE HandedTo(h)
      BY <1>0, <2>10, <3>1 DEF GivenIs, HandedTo
    <3>2. CASE ~HandedTo(h)
      BY <1>0, <2>10, <2>12, <3>2 DEF GivenIs, HandedTo
    <3> QED
      BY <3>1, <3>2
  <2>13. [h \in Guards |-> StreamGiven(h)]' = [[h \in Guards |-> StreamGiven(h)] EXCEPT ![g] = Head(IdleStreams)]
    BY <2>9, <2>11, <2>12
  <2> QED
    BY <2>9, <2>10, <2>11, <2>13 DEF Pool!Get, Queued, None
<1>7. ASSUME NEW g \in Guards, PushPromise(g) PROVE Pool!Wait(g)
  <2>1. /\ UNCHANGED <<streams, front_idx, future, streamId, target>>
        /\ \A h \in Guards : pc'[h] = "deliver" <=> pc[h] = "deliver"
        /\ promises' = Append(promises, g)
        /\ ~HandedTo(g) /\ ~Queued(g) /\ future[g] = None /\ streamId[g] = None
    BY <1>1, <1>7 DEF PushPromise, AfterGetIdleStream, PromisesOK, GuardsOK, WaitPCs, OwnerPCs
  <2>2. ASSUME NEW h \in Guards PROVE StreamGiven(h)' = StreamGiven(h)
    <3>1. CASE HandedTo(h)
      BY <1>0, <2>1, <3>1 DEF GivenIs, HandedTo
    <3>2. CASE ~HandedTo(h)
      BY <1>0, <2>1, <3>2 DEF GivenIs, HandedTo
    <3> QED
      BY <3>1, <3>2
  <2>3. StreamGiven(g) = None
    BY <1>0, <2>1 DEF GivenIs
  <2>4. IdleStreams' = IdleStreams
    BY <2>1 DEF IdleStreams, Occupied
  <2>5. [h \in Guards |-> StreamGiven(h)]' = [h \in Guards |-> StreamGiven(h)]
    BY <2>2
  <2> QED
    BY <2>1, <2>3, <2>4, <2>5 DEF Pool!Wait, Queued, None
<1>8. ASSUME NEW g \in Guards, PopPromise(g) PROVE Pool!HandOver(g)
  <2>0. PICK t \in Guards : t = Head(promises)
    BY <1>1, <1>8 DEF PopPromise
  <2>1. /\ promises # <<>> /\ promises' = Tail(promises) /\ t = promises[1] /\ Queued(t)
        /\ UNCHANGED <<streams, front_idx, future, streamId>>
        /\ pc[g] = "ret" /\ pc'[g] = "deliver" /\ target'[g] = t
        /\ \A h \in Guards : h # g => pc'[h] = pc[h] /\ target'[h] = target[h]
    BY <1>1, <1>8, <2>0 DEF PopPromise, Queued
  <2>2. /\ t # g /\ ~HandedTo(t) /\ ~HandedTo(g) /\ future[g] = None
        /\ streamId[g] # None /\ pc[t] \in WaitPCs
    BY <1>1, <2>1 DEF PromisesOK, GuardsOK, WaitPCs, OwnerPCs
  <2>3. \A h \in Guards : HandedTo(h)' <=> HandedTo(h) \/ h = t
    BY <2>1 DEF HandedTo
  <2>4. StreamGiven(g) = streamId[g] /\ StreamGiven(g)' = None /\ StreamGiven(t)' = streamId[g]
    <3>1. StreamGiven(g) = streamId[g]
      BY <1>0, <2>1, <2>2 DEF GivenIs
    <3>2. ~HandedTo(g)'
      BY <2>2, <2>3
    <3>3. StreamGiven(g)' = None
      BY <1>0, <2>1, <3>2 DEF GivenIs
    <3>4. StreamGiven(t)' = streamId'[g]
      BY <1>0, <2>1 DEF GivenIs
    <3> QED
      BY <2>1, <3>1, <3>3, <3>4
  <2>5. ASSUME NEW h \in Guards, h # g, h # t PROVE StreamGiven(h)' = StreamGiven(h)
    <3>1. CASE HandedTo(h)
      BY <1>0, <2>1, <3>1 DEF GivenIs, HandedTo
    <3>2. CASE ~HandedTo(h)
      BY <1>0, <2>1, <2>3, <2>5, <3>2 DEF GivenIs
    <3> QED
      BY <3>1, <3>2
  <2>6. IdleStreams' = IdleStreams
    BY <2>1 DEF IdleStreams, Occupied
  <2>7. [h \in Guards |-> StreamGiven(h)]' =
          [[h \in Guards |-> StreamGiven(h)] EXCEPT ![t] = StreamGiven(g), ![g] = -1]
    BY <2>1, <2>2, <2>4, <2>5 DEF None
  <2> QED
    BY <2>0, <2>1, <2>2, <2>4, <2>6, <2>7 DEF Pool!HandOver, None
<1>9. ASSUME NEW g \in Guards, StoreStream(g) PROVE Pool!PutBack(g)
  <2>1. PICK n \in 0 .. NIREQ : Filled(n) /\ BackOK(n)
    BY DEF QueueInv, RingOK
  <2>2. /\ n \in Streams /\ n + 1 \in 0 .. NIREQ /\ old_back[g] = Slot(n)
        /\ streamId[g] # None /\ streamId[g] \in Streams
    <3>1. queue_mutex = g /\ queue_mutex # Free /\ streamId[g] # None /\ streamId[g] \in Streams
      BY <1>1, <1>9, FreeAssumption DEF StoreStream, QueueInv, RingOK, GuardsOK, OwnerPCs
    <3> QED
      BY <2>1, <3>1, NIREQAssumption DEF BackOK, Streams
  <2>3. /\ Filled(n + 1)'
        /\ \A k \in Streams : streams'[Slot(k)'] = IF k = n THEN streamId[g] ELSE streams[Slot(k)]
    BY <1>1, <1>9, <2>1, <2>2, StoreFills
  <2>4. IdleStreams = [k \in 1 .. n |-> streams[Slot(k - 1)]]
    BY <1>0, <2>1 DEF IdleIs
  <2>5. IdleStreams' = [k \in 1 .. n + 1 |-> streams'[Slot(k - 1)']]
    BY <1>0, <2>2, <2>3 DEF IdleIs
  <2>6. IdleStreams' = Append(IdleStreams, streamId[g])
    <3>1. \A k \in 1 .. n + 1 : k - 1 \in Streams /\ (k - 1 = n <=> k = n + 1)
      BY <2>2, NIREQAssumption DEF Streams
    <3>2. \A k \in 1 .. n + 1 : streams'[Slot(k - 1)'] = IF k = n + 1 THEN streamId[g] ELSE streams[Slot(k - 1)]
      BY <2>3, <3>1
    <3>3. IdleStreams \in Seq(Streams \cup {None}) /\ Len(IdleStreams) = n /\ n \in Nat
      <4>1. \A k \in 1 .. n : k - 1 \in 0 .. NIREQ
        BY NIREQAssumption
      <4>2. \A k \in 0 .. NIREQ : Slot(k) \in Streams
        BY <1>1, SlotFacts
      <4>3. \A k \in 1 .. n : streams[Slot(k - 1)] \in Streams \cup {None}
        BY <1>1, <4>1, <4>2
      <4>4. n \in Nat
        BY NIREQAssumption
      <4> QED
        BY <2>4, <4>3, <4>4
    <3>4. Append(IdleStreams, streamId[g]) =
            [k \in 1 .. n + 1 |-> IF k = n + 1 THEN streamId[g] ELSE IdleStreams[k]]
      BY <2>2, <3>3, AppendIs
    <3>5. \A k \in 1 .. n + 1 : k # n + 1 => IdleStreams[k] = streams[Slot(k - 1)]
      <4>1. \A k \in 1 .. n + 1 : k # n + 1 => k \in 1 .. n
        BY <3>3
      <4> QED
        BY <2>4, <4>1
    <3> QED
      BY <2>5, <3>2, <3>4, <3>5
  <2>7. /\ ~HandedTo(g) /\ future[g] = None /\ pc[g] = "store" /\ pc'[g] = "done" /\ streamId'[g] = None
        /\ UNCHANGED <<future, target, promises>>
        /\ \A h \in Guards : pc'[h] = "deliver" <=> pc[h] = "deliver"
        /\ \A h \in Guards : h # g => streamId'[h] = streamId[h]
    BY <1>1, <1>9 DEF StoreStream, PromisesOK, GuardsOK, WaitPCs
  <2>8. StreamGiven(g) = streamId[g] /\ StreamGiven(g)' = None
    BY <1>0, <2>7 DEF GivenIs, HandedTo
  <2>9. ASSUME NEW h \in Guards, h # g PROVE StreamGiven(h)' = StreamGiven(h)
    <3>1. CASE HandedTo(h)
      <4>1. PICK k \in Guards : pc[k] = "deliver" /\ target[k] = h
        BY <3>1 DEF HandedTo
      <4> QED
        BY <1>0, <2>7, <4>1 DEF GivenIs
    <3>2. CASE ~HandedTo(h)
      BY <1>0, <2>7, <2>9, <3>2 DEF GivenIs, HandedTo
    <3> QED
      BY <3>1, <3>2
  <2>10. [h \in Guards |-> StreamGiven(h)]' = [[h \in Guards |-> StreamGiven(h)] EXCEPT ![g] = -1]
    BY <2>8, <2>9 DEF None
  <2> QED
    BY <2>2, <2>6, <2>7, <2>8, <2>10 DEF Pool!PutBack, None
<1> QED
    BY <1>2, <1>3, <1>4, <1>5, <1>6, <1>7, <1>8, <1>9 DEF Next, Proceed, Pool!Next

\* The queue starts as a pool in which all streams are idle, in their order.
LEMMA PoolInit == Init => Pool!Init
<1> SUFFICES ASSUME Init PROVE Pool!Init
    OBVIOUS
<1>1. QueueInv /\ GivenIs /\ IdleIs
    BY QueueInvInit, GivenFacts, IdleFacts
<1>2. [g \in Guards |-> StreamGiven(g)] = [g \in Guards |-> -1]
    BY <1>1 DEF Init, GivenIs, HandedTo, None
<1>3. Filled(NIREQ)
    BY <1>1, SlotFacts, NIREQAssumption DEF Init, Filled, Streams, None, QueueInv, TypeOK
<1>4. IdleStreams = [k \in 1 .. NIREQ |-> streams[Slot(k - 1)]]
    BY <1>1, <1>3, NIREQAssumption DEF IdleIs
<1>5. ASSUME NEW k \in 1 .. NIREQ PROVE streams[Slot(k - 1)] = k - 1
  <2>1. k - 1 \in Streams /\ k - 1 \in 0 .. NIREQ
    BY NIREQAssumption DEF Streams
  <2>2. Slot(k - 1) = k - 1
    BY <1>1, <2>1, SlotFacts, NIREQAssumption DEF Init, QueueInv, TypeOK, Streams
  <2> QED
    BY <2>1, <2>2 DEF Init
<1> QED
    BY <1>2, <1>4, <1>5 DEF Pool!Init, Init

\* Queue<T> keeps its promise for any number of guards and streams: idle
\* streams are handed out in the order in which they came back, guards that
\* wait are served in the order in which they started to, and a stream is in
\* one hand only (queue.hpp, the two guards).
THEOREM QueueImplementsPool == Spec => ImplementsPool
<1>1. QueueInv /\ QueueInv' /\ [Next]_vars => [Pool!Next]_(Pool!vars)
    BY PoolStep
<1> QED
    BY <1>1, PoolInit, QueueInvariant, PTL DEF Spec, ImplementsPool, Pool!Spec

-----------------------------------------------------------------------------
\* Induction and folds

\* What holds of zero, and of each number after one of which it holds, holds of
\* all numbers (with the least number of which it does not).
LEMMA Induction ==
    ASSUME NEW T, 0 \in T, \A k \in Nat : k \in T => k + 1 \in T
    PROVE  \A k \in Nat : k \in T
<1> SUFFICES ASSUME NEW k \in Nat, k \notin T PROVE FALSE
  OBVIOUS
<1> DEFINE Rest == {i \in Nat : i \notin T}
           R == OpToRel(<, Nat)
<1>1. PICK x \in Rest : \A y \in Rest : <<y, x>> \notin R
  <2>1. Rest \in SUBSET Nat /\ Rest # {}
    OBVIOUS
  <2> HIDE DEF Rest
  <2> QED
    BY <2>1, NatLessThanWellFounded, WFMin, Zenon
<1>2. \A y \in Rest : ~(y < x)
  BY <1>1 DEF OpToRel
<1>3. x \in Nat /\ x \notin T
  BY <1>1
<1>4. x # 0
  BY <1>3
<1>5. x - 1 \in Nat /\ (x - 1) + 1 = x
  BY <1>3, <1>4
<1>6. x - 1 \in T
  BY <1>2, <1>5
<1> QED
  BY <1>3, <1>5, <1>6

\* The greatest number of an interval that starts with one.
LEMMA MaxIs ==
    ASSUME NEW k \in Nat, NEW s, s \subseteq 1 .. k + 1, k + 1 \in s
    PROVE  Max(s) = k + 1
<1>1. k + 1 \in s /\ \A y \in s : k + 1 >= y
  OBVIOUS
<1>2. \A x \in s : (\A y \in s : x >= y) => x = k + 1
  OBVIOUS
<1> QED
  BY <1>1, <1>2 DEF Max

\* What is left of an interval without its greatest number is in it.
LEMMA MaxWithin ==
    ASSUME NEW n \in Nat, NEW s \in SUBSET (1 .. n), s # {}
    PROVE  Max(s) \in s /\ Max(s) \in 1 .. n /\ s \ {Max(s)} \in SUBSET (1 .. n)
<1>1. \E x \in s : \A y \in s : x >= y
  <2> DEFINE T == {k \in Nat : \A t \in SUBSET (1 .. k) : t # {} => \E x \in t : \A y \in t : x >= y}
  <2>1. 0 \in T
    <3>1. 1 .. 0 = {}
      OBVIOUS
    <3> QED
      BY <3>1
  <2>2. ASSUME NEW k \in Nat, k \in T PROVE k + 1 \in T
    <3>1. ASSUME NEW t \in SUBSET (1 .. k + 1), t # {} PROVE \E x \in t : \A y \in t : x >= y
      <4>1. CASE k + 1 \in t
        BY <4>1
      <4>2. CASE k + 1 \notin t
        <5>1. t \in SUBSET (1 .. k)
          BY <4>2
        <5> QED
          BY <5>1, <3>1, <2>2
      <4> QED
        BY <4>1, <4>2
    <3> QED
      BY <3>1
  <2>3. n \in T
    <3> HIDE DEF T
    <3> QED
      BY <2>1, <2>2, Induction
  <2> QED
    BY <2>3
<1>2. Max(s) \in s
  BY <1>1 DEF Max
<1> DEFINE m == Max(s)
<1> HIDE DEF m
<1>3. m \in 1 .. n /\ s \ {m} \in SUBSET (1 .. n)
  BY <1>2 DEF m
<1> QED
  BY <1>2, <1>3 DEF m

\* How FoldLeft goes through a sequence of length n, S being what it does with
\* an element and with what it has so far.
Fold(n, base, S, g) ==
    g = [s \in SUBSET (1 .. n) |-> IF s = {} THEN base ELSE S[<<Max(s), g[s \ {Max(s)}]>>]]

\* A fold over 1 .. n exists as a function on the sets of its indices.
LEMMA FoldExists ==
    ASSUME NEW n \in Nat, NEW V, NEW base \in V, NEW S \in [(1 .. n) \X V -> V]
    PROVE  \E g : Fold(n, base, S, g) /\ g \in [SUBSET (1 .. n) -> V]
<1> DEFINE Stage(k, g) ==
             /\ g \in [SUBSET (1 .. k) -> V]
             /\ g = [s \in SUBSET (1 .. k) |-> IF s = {} THEN base ELSE S[<<Max(s), g[s \ {Max(s)}]>>]]
           T == {k \in Nat : k <= n => \E g : Stage(k, g)}
<1>1. 0 \in T
  <2>1. Stage(0, [s \in SUBSET (1 .. 0) |-> base])
    OBVIOUS
  <2> QED
    BY <2>1
<1>2. ASSUME NEW k \in Nat, k \in T PROVE k + 1 \in T
  <2> SUFFICES ASSUME k + 1 <= n PROVE \E h : Stage(k + 1, h)
    <3> HIDE DEF Stage
    <3> QED
      OBVIOUS
  <2>1. PICK g : Stage(k, g)
    <3> HIDE DEF Stage
    <3> QED
      BY <1>2
  <2> DEFINE D == 1 .. k + 1
             h == [s \in SUBSET D |->
                     IF k + 1 \in s THEN S[<<k + 1, g[s \ {k + 1}]>>] ELSE g[s]]
  <2>2. ASSUME NEW s \in SUBSET D, k + 1 \in s
        PROVE  h[s] \in V /\ h[s] = S[<<Max(s), h[s \ {Max(s)}]>>]
    <3>1. Max(s) = k + 1
      BY <2>2, MaxIs
    <3>2. s \ {k + 1} \in SUBSET (1 .. k) /\ k + 1 \notin s \ {k + 1} /\ s \ {k + 1} \in SUBSET D
      OBVIOUS
    <3>3. h[s \ {k + 1}] = g[s \ {k + 1}] /\ g[s \ {k + 1}] \in V
      BY <2>1, <3>2
    <3>4. h[s] = S[<<k + 1, g[s \ {k + 1}]>>]
      BY <2>2
    <3> QED
      BY <3>1, <3>3, <3>4
  <2>3. ASSUME NEW s \in SUBSET D, k + 1 \notin s
        PROVE  h[s] \in V /\ h[s] = IF s = {} THEN base ELSE S[<<Max(s), h[s \ {Max(s)}]>>]
    <3>1. s \in SUBSET (1 .. k) /\ h[s] = g[s]
      BY <2>3
    <3>2. CASE s = {}
      BY <2>1, <3>1, <3>2
    <3>3. CASE s # {}
      <4>1. s \ {Max(s)} \in SUBSET (1 .. k) /\ s \ {Max(s)} \in SUBSET D /\ k + 1 \notin s \ {Max(s)}
        <5>1. \A x : s \ {x} \subseteq s
          OBVIOUS
        <5> DEFINE m == Max(s)
        <5> HIDE DEF m
        <5>2. s \ {m} \subseteq s
          BY <5>1
        <5>3. s \ {m} \in SUBSET (1 .. k) /\ s \ {m} \in SUBSET D /\ k + 1 \notin s \ {m}
          BY <5>2, <3>1, <2>3
        <5> QED
          BY <5>3 DEF m
      <4>2. h[s \ {Max(s)}] = g[s \ {Max(s)}]
        BY <4>1
      <4> QED
        BY <2>1, <3>1, <3>3, <4>2
    <3> QED
      BY <3>2, <3>3
  <2>4. h \in [SUBSET D -> V]
    BY <2>2, <2>3
  <2>5. h = [s \in SUBSET D |-> IF s = {} THEN base ELSE S[<<Max(s), h[s \ {Max(s)}]>>]]
    <3>1. \A s \in SUBSET D : h[s] = IF s = {} THEN base ELSE S[<<Max(s), h[s \ {Max(s)}]>>]
      BY <2>2, <2>3
    <3>2. DOMAIN h = SUBSET D /\ h = [s \in SUBSET D |-> h[s]]
      OBVIOUS
    <3> HIDE DEF h, D
    <3> QED
      BY <3>1, <3>2
  <2> QED
    BY <2>4, <2>5
<1>3. n \in T
  <2> HIDE DEF T
  <2> QED
    BY <1>1, <1>2, Induction
<1>4. PICK g : Stage(n, g)
  <2> HIDE DEF Stage
  <2> QED
    BY <1>3
<1> QED
  BY <1>4 DEF Fold

\* The beginnings of an interval, which a fold goes through from the left.
LEMMA Beginnings ==
    ASSUME NEW k \in Nat
    PROVE  1 .. k + 1 # {} /\ Max(1 .. k + 1) = k + 1 /\ (1 .. k + 1) \ {k + 1} = 1 .. k
<1>1. 1 .. k + 1 # {} /\ k + 1 \in 1 .. k + 1
  OBVIOUS
<1>2. Max(1 .. k + 1) = k + 1
  BY <1>1, MaxIs
<1>3. (1 .. k + 1) \ {k + 1} = 1 .. k
  OBVIOUS
<1> QED
  BY <1>1, <1>2, <1>3

\* It goes through the beginnings, and whatever goes on as it does ends as it does.
FoldsTo(n, V, base, S, g, h) ==
    /\ Fold(n, base, S, g) /\ g \in [SUBSET (1 .. n) -> V]
    /\ \A s \in SUBSET (1 .. n) : s # {} => Max(s) \in 1 .. n /\ s \ {Max(s)} \in SUBSET (1 .. n)
    /\ h \in [0 .. n -> V] /\ h[0] = base
    /\ \A k \in 0 .. n - 1 : h[k + 1] = S[<<k + 1, h[k]>>] /\ k + 1 \in 1 .. n /\ h[k] \in V
    /\ \A c : /\ c[{}] = base
              /\ \A s \in SUBSET (1 .. n) : s # {} /\ c[s \ {Max(s)}] = g[s \ {Max(s)}] => c[s] = g[s]
              => c[1 .. n] = h[n]

\* It goes through the values that h names, one index after another.
LEMMA FoldIs ==
    ASSUME NEW n \in Nat, NEW V, NEW base \in V, NEW S \in [(1 .. n) \X V -> V]
    PROVE  \E g, h : FoldsTo(n, V, base, S, g, h)
<1>1. PICK g : Fold(n, base, S, g) /\ g \in [SUBSET (1 .. n) -> V]
  BY FoldExists
<1> DEFINE h == [k \in 0 .. n |-> g[1 .. k]]
<1>2. h \in [0 .. n -> V] /\ h[0] = base
  <2>1. g[{}] = base
    BY <1>1 DEF Fold
  <2>2. 1 .. 0 = {} /\ \A k \in 0 .. n : 1 .. k \in SUBSET (1 .. n)
    OBVIOUS
  <2>3. \A k \in 0 .. n : g[1 .. k] \in V
    BY <1>1, <2>2
  <2> QED
    BY <2>1, <2>2, <2>3
<1>3. ASSUME NEW k \in 0 .. n - 1 PROVE h[k + 1] = S[<<k + 1, h[k]>>]
  <2> DEFINE s == 1 .. k + 1
  <2>1. k \in Nat /\ s \in SUBSET (1 .. n)
    OBVIOUS
  <2>2. s # {} /\ Max(s) = k + 1 /\ s \ {k + 1} = 1 .. k
    BY <2>1, Beginnings
  <2>3. g[s] = IF s = {} THEN base ELSE S[<<Max(s), g[s \ {Max(s)}]>>]
    <3> HIDE DEF s
    <3> QED
      BY <1>1, <2>1 DEF Fold
  <2>4. g[s] = S[<<k + 1, g[s \ {k + 1}]>>]
    <3> HIDE DEF s
    <3> QED
      BY <2>2, <2>3
  <2>5. g[s] = S[<<k + 1, g[1 .. k]>>]
    <3> HIDE DEF s
    <3> QED
      BY <2>2, <2>4
  <2>6. k \in 0 .. n /\ k + 1 \in 0 .. n
    OBVIOUS
  <2>7. h[k] = g[1 .. k] /\ h[k + 1] = g[s]
    BY <2>6
  <2> HIDE DEF h, s
  <2> QED
    BY <2>5, <2>7
<1>4. ASSUME NEW c, c[{}] = base, \A s \in SUBSET (1 .. n) : s # {} /\ c[s \ {Max(s)}] = g[s \ {Max(s)}] => c[s] = g[s]
      PROVE  c[1 .. n] = h[n]
  <2> DEFINE T == {k \in Nat : k <= n => c[1 .. k] = g[1 .. k]}
  <2>1. 0 \in T
    BY <1>1, <1>4 DEF Fold
  <2>2. ASSUME NEW k \in Nat, k \in T PROVE k + 1 \in T
    <3>1. SUFFICES ASSUME k + 1 <= n PROVE c[1 .. k + 1] = g[1 .. k + 1]
      OBVIOUS
    <3> DEFINE s == 1 .. k + 1
    <3>2. s \in SUBSET (1 .. n) /\ c[1 .. k] = g[1 .. k]
      BY <2>2, <3>1
    <3>3. s # {} /\ Max(s) = k + 1 /\ s \ {k + 1} = 1 .. k
      BY Beginnings
    <3>4. c[s \ {Max(s)}] = g[s \ {Max(s)}]
      <4> HIDE DEF s
      <4> QED
        BY <3>2, <3>3
    <3> HIDE DEF s
    <3>5. c[s] = g[s]
      BY <1>4, <3>2, <3>3, <3>4
    <3> QED
      BY <3>5 DEF s
  <2>3. n \in T
    <3> HIDE DEF T
    <3> QED
      BY <2>1, <2>2, Induction
  <2> QED
    BY <2>3
<1>5. \A s \in SUBSET (1 .. n) : s # {} => Max(s) \in 1 .. n /\ s \ {Max(s)} \in SUBSET (1 .. n)
  BY MaxWithin
<1> HIDE DEF h
<1>6. \A k \in 0 .. n - 1 : k + 1 \in 1 .. n /\ h[k] \in V
  BY <1>2
<1>7. FoldsTo(n, V, base, S, g, h)
  BY <1>1, <1>2, <1>3, <1>4, <1>5, <1>6, Zenon DEF FoldsTo
<1> QED
  BY <1>7

-----------------------------------------------------------------------------
\* Sums and products

\* The product of a shape, dimension by dimension (getElementsCount,
\* binaryutils.cpp).
VolumeSteps(shape, n, h) ==
    /\ h \in [0 .. n -> Int] /\ h[0] = 1
    /\ \A k \in 0 .. n - 1 : h[k + 1] = h[k] * shape[k + 1]
    /\ Volume(shape) = h[n]

\* Volume multiplies one dimension after another (the loop that computes the
\* expected number of values in validateTensorContentSize).
LEMMA VolumeIs ==
    ASSUME NEW shape, NEW n \in Nat, DOMAIN shape = 1 .. n, \A i \in 1 .. n : shape[i] \in Int
    PROVE  \E h : VolumeSteps(shape, n, h)
<1> DEFINE P(g) == g = [s \in SUBSET DOMAIN shape |-> IF s = {} THEN 1 ELSE g[s \ {Max(s)}] * shape[Max(s)]]
           S == [p \in (1 .. n) \X Int |-> p[2] * shape[p[1]]]
           c == CHOOSE g : P(g)
<1>1. PICK g, h : FoldsTo(n, Int, 1, S, g, h)
  <2>1. S \in [(1 .. n) \X Int -> Int] /\ 1 \in Int
    OBVIOUS
  <2> HIDE DEF S
  <2> QED
    BY <2>1, FoldIs, Zenon
<1>2. P(g)
  BY <1>1 DEF FoldsTo, Fold
<1>3. P(c)
  BY <1>2
<1>4. Volume(shape) = c[1 .. n]
  BY DEF Volume, FoldLeft, MapThenFoldSet
<1> HIDE DEF c
<1>5. c[1 .. n] = h[n]
  <2>1. c[{}] = 1 /\ \A s \in SUBSET (1 .. n) : s # {} /\ c[s \ {Max(s)}] = g[s \ {Max(s)}] => c[s] = g[s]
    BY <1>2, <1>3
  <2> HIDE DEF P, S
  <2> QED
    BY <1>1, <2>1 DEF FoldsTo
<1>6. \A k \in 0 .. n - 1 : h[k + 1] = h[k] * shape[k + 1]
  BY <1>1 DEF FoldsTo
<1>7. h \in [0 .. n -> Int] /\ h[0] = 1
  BY <1>1 DEF FoldsTo
<1> QED
  BY <1>4, <1>5, <1>6, <1>7 DEF VolumeSteps

\* The least number of a set of them.
LEMMA MinWithin ==
    ASSUME NEW s, s \subseteq Nat, s # {}
    PROVE  Min(s) \in s /\ \A x \in s : Min(s) <= x
<1> DEFINE R == OpToRel(<, Nat)
<1>1. PICK x \in s : \A y \in s : <<y, x>> \notin R
  BY NatLessThanWellFounded, WFMin, Zenon
<1>2. \A y \in s : ~(y < x)
  BY <1>1 DEF OpToRel
<1>3. \E z \in s : \A y \in s : z <= y
  BY <1>2
<1> QED
  BY <1>3 DEF Min

\* The first error is one of the statuses, and none only when all are OK (the
\* early returns of RequestValidator::validate).
LEMMA FirstErrorIs ==
    ASSUME NEW s, DOMAIN s \subseteq Nat
    PROVE  /\ FirstError(s) = "OK" <=> \A i \in DOMAIN s : s[i] = "OK"
           /\ FirstError(s) # "OK" => \E i \in DOMAIN s : FirstError(s) = s[i]
<1> DEFINE bad == {i \in DOMAIN s : s[i] # "OK"}
<1>1. CASE bad = {}
  BY <1>1 DEF FirstError
<1>2. CASE bad # {}
  <2>1. bad \subseteq Nat
    OBVIOUS
  <2>2. Min(bad) \in bad
    <3> HIDE DEF bad
    <3> QED
      BY <1>2, <2>1, MinWithin
  <2>3. FirstError(s) = s[Min(bad)]
    BY <1>2 DEF FirstError
  <2> QED
    BY <2>2, <2>3
<1> QED
  BY <1>1, <1>2

\* The last status that asks for a change is one of them, if there is one (the
\* status finalStatus of RequestValidator::validate).
LEMMA LastChangeIs ==
    ASSUME NEW n \in Nat, NEW s, DOMAIN s = 1 .. n
    PROVE  /\ LastChange(s) = "OK" <=> \A i \in DOMAIN s : s[i] \notin Changes
           /\ LastChange(s) # "OK" => LastChange(s) \in Changes /\ \E i \in DOMAIN s : LastChange(s) = s[i]
<1> DEFINE changes == {i \in DOMAIN s : s[i] \in Changes}
<1>1. CASE changes = {}
  BY <1>1 DEF LastChange
<1>2. CASE changes # {}
  <2>1. changes \in SUBSET (1 .. n)
    OBVIOUS
  <2>2. Max(changes) \in changes
    <3> HIDE DEF changes
    <3> QED
      BY <1>2, <2>1, MaxWithin
  <2>3. LastChange(s) = s[Max(changes)]
    BY <1>2 DEF LastChange
  <2>4. s[Max(changes)] \in Changes /\ Max(changes) \in DOMAIN s
    BY <2>2
  <2>5. "OK" \notin Changes
    BY DEF Changes
  <2> HIDE DEF changes
  <2> QED
    BY <2>3, <2>4, <2>5
<1> QED
  BY <1>1, <1>2

\* validate says a change is required, or nothing, only when all checks of all
\* inputs found nothing else.
LEMMA ValidateIs ==
    ASSUME servable \in Seq(InfoRecord), NEW request, NEW status, status = validate(request), status \in Changes \cup {"OK"}
    PROVE  /\ validateNumberOfInputs(request) = "OK"
           /\ \A i \in DOMAIN servable : \A k \in DOMAIN validateInput(request, servable[i]) :
                 /\ validateInput(request, servable[i])[k] \in Changes \cup {"OK"}
                 /\ status = "OK" => validateInput(request, servable[i])[k] = "OK"
           /\ status # "OK" => \E i \in DOMAIN servable : \E k \in DOMAIN validateInput(request, servable[i]) :
                 status = validateInput(request, servable[i])[k]
<1> DEFINE m == Len(servable)
           checks == [i \in DOMAIN servable |-> validateInput(request, servable[i])]
           inputs == [i \in DOMAIN servable |-> FirstError(Errors(checks[i]))]
           all == <<validateNumberOfInputs(request), validateRequestCoherency(request)>> \o inputs
           last == [i \in DOMAIN servable |-> LastChange(checks[i])]
<1>1. m \in Nat /\ DOMAIN servable = 1 .. m
  OBVIOUS
<1>2. \A i \in DOMAIN servable : DOMAIN checks[i] = 1 .. 1 \/ DOMAIN checks[i] = 1 .. 3
  <2> SUFFICES ASSUME NEW i \in DOMAIN servable
               PROVE  DOMAIN validateInput(request, servable[i]) = 1 .. 1 \/ DOMAIN validateInput(request, servable[i]) = 1 .. 3
    OBVIOUS
  <2> QED
    BY DEF validateInput
<1>3. DOMAIN all = 1 .. m + 2 /\ all[1] = validateNumberOfInputs(request)
      /\ \A i \in DOMAIN servable : all[i + 2] = inputs[i]
  BY <1>1
<1>4. status = IF FirstError(all) # "OK" THEN FirstError(all) ELSE LastChange(last)
  BY DEF validate
<1>5. FirstError(all) = "OK"
  <2>1. SUFFICES ASSUME FirstError(all) # "OK" PROVE FALSE
    OBVIOUS
  <2>2. FirstError(all) \in Changes
    BY <1>4, <2>1
  <2>3. PICK i \in DOMAIN all : FirstError(all) = all[i]
    <3>1. DOMAIN all \subseteq Nat
      BY <1>1, <1>3
    <3> HIDE DEF all
    <3> QED
      BY <2>1, <3>1, FirstErrorIs
  <2>4. CASE i \in {1, 2}
    BY <2>2, <2>3, <2>4 DEF validateNumberOfInputs, validateRequestCoherency, Changes
  <2>5. CASE i \notin {1, 2}
    <3>1. i - 2 \in DOMAIN servable /\ all[i] = inputs[i - 2]
      BY <1>1, <1>3, <2>5
    <3>2. PICK j \in DOMAIN servable : FirstError(all) = FirstError(Errors(checks[j]))
      BY <2>3, <3>1
    <3> DEFINE e == Errors(checks[j])
    <3>3. DOMAIN e \subseteq Nat
      BY <1>2 DEF Errors
    <3>4. FirstError(e) # "OK"
      BY <2>1, <3>2
    <3>5. PICK k \in DOMAIN e : FirstError(e) = e[k]
      <4> HIDE DEF e
      <4> QED
        BY <3>3, <3>4, FirstErrorIs
    <3>6. e[k] \notin Changes
      BY DEF Errors, Changes
    <3> HIDE DEF e
    <3> QED
      BY <2>2, <3>2, <3>5, <3>6 DEF e
  <2> QED
    BY <2>4, <2>5
<1>6. \A i \in DOMAIN all : all[i] = "OK"
  <2>1. DOMAIN all \subseteq Nat
    BY <1>1, <1>3
  <2> HIDE DEF all
  <2> QED
    BY <1>5, <2>1, FirstErrorIs
<1>7. validateNumberOfInputs(request) = "OK"
  <2>1. 1 \in DOMAIN all
    BY <1>1, <1>3
  <2> HIDE DEF all
  <2> QED
    BY <1>3, <1>6, <2>1
<1>8. ASSUME NEW i \in DOMAIN servable PROVE \A k \in DOMAIN checks[i] : checks[i][k] \in Changes \cup {"OK"}
  <2>1. i + 2 \in DOMAIN all /\ all[i + 2] = inputs[i]
    BY <1>1, <1>3
  <2> DEFINE e == Errors(checks[i])
  <2>2. FirstError(e) = "OK"
    BY <1>6, <2>1
  <2>3. DOMAIN e \subseteq Nat /\ DOMAIN e = DOMAIN checks[i]
    BY <1>2 DEF Errors
  <2>4. \A k \in DOMAIN e : e[k] = "OK"
    <3> HIDE DEF e
    <3> QED
      BY <2>2, <2>3, FirstErrorIs
  <2> QED
    BY <2>3, <2>4 DEF Errors
<1>9. status = LastChange(last)
  BY <1>4, <1>5
<1>10. DOMAIN last = 1 .. m
  BY <1>1
<1>11. ASSUME status = "OK", NEW i \in DOMAIN servable, NEW k \in DOMAIN checks[i] PROVE checks[i][k] \notin Changes
  <2>1. \A j \in DOMAIN last : last[j] \notin Changes
    <3> HIDE DEF last
    <3> QED
      BY <1>1, <1>9, <1>10, <1>11, LastChangeIs
  <2>2. LastChange(checks[i]) \notin Changes
    BY <2>1
  <2> DEFINE c == checks[i]
  <2>3. DOMAIN c = 1 .. 1 \/ DOMAIN c = 1 .. 3
    BY <1>2
  <2> HIDE DEF checks
  <2>4. \A j \in DOMAIN c : c[j] \notin Changes
    <3>1. LastChange(c) \notin Changes
      BY <2>2
    <3> HIDE DEF c
    <3> QED
      BY <2>3, <3>1, LastChangeIs
  <2> QED
    BY <2>4
<1>12. ASSUME status # "OK" PROVE \E i \in DOMAIN servable : \E k \in DOMAIN checks[i] : status = checks[i][k]
  <2>1. PICK i \in DOMAIN servable : status = LastChange(checks[i])
    <3>1. \E j \in DOMAIN last : LastChange(last) = last[j]
      <4> HIDE DEF last
      <4> QED
        BY <1>1, <1>9, <1>10, <1>12, LastChangeIs
    <3> QED
      BY <1>9, <3>1
  <2> DEFINE c == checks[i]
  <2>2. DOMAIN c = 1 .. 1 \/ DOMAIN c = 1 .. 3
    BY <1>2
  <2>3. LastChange(c) # "OK" /\ status = LastChange(c)
    BY <1>12, <2>1
  <2>4. \E k \in DOMAIN c : LastChange(c) = c[k]
    <3> HIDE DEF c
    <3> QED
      BY <2>2, <2>3, LastChangeIs
  <2> QED
    BY <2>3, <2>4
<1> HIDE DEF all, last, inputs
<1> QED
  BY <1>7, <1>8, <1>11, <1>12

Asked(name) == case.request.inputs[Min(Positions(case.request, name))]

\* What the checks of an input have seen when they refuse nothing.
CheckedBinary(info) ==
    LET input == Asked(info.name)
    IN  /\ Len(input.shape) = 1 /\ input.images # <<>>
        /\ validateInput(case.request, info) = <<checkBatchSizeMismatch(info.shape[getBatchIndex(info.layout)], input.shape[1], info)>>
CheckedValues(info) ==
    LET input == Asked(info.name)
        batch == getBatchIndex(info.layout)
    IN  /\ Len(input.shape) = Len(info.shape)
        /\ validateTensorContentSize(case.request, input, Min(Positions(case.request, info.name)), info) = "OK"
        /\ validateInput(case.request, info) =
             <<checkBatchSizeMismatch(info.shape[batch], input.shape[batch], info), checkShapeMismatch(input, info, batch), "OK">>
Checked(info) ==
    /\ Positions(case.request, info.name) # {}
    /\ \A d \in DOMAIN Asked(info.name).shape : Asked(info.name).shape[d] > 0
    /\ getBatchIndex(info.layout) \in DOMAIN info.shape
    /\ IF checkIfBinaryInputUsed(Asked(info.name)) THEN CheckedBinary(info) ELSE CheckedValues(info)

\* The input that is found by name is in the request and has that name
\* (validateAndGetInput).
LEMMA PositionIs ==
    ASSUME case.request.inputs \in Seq(InputRecord), NEW name, Positions(case.request, name) # {}
    PROVE  Min(Positions(case.request, name)) \in Positions(case.request, name)
           /\ Min(Positions(case.request, name)) \in DOMAIN case.request.inputs
           /\ Asked(name) \in InputRecord /\ Asked(name).name = name
<1> DEFINE s == Positions(case.request, name)
<1>1. s \subseteq Nat /\ s # {}
  BY DEF Positions
<1>2. Min(s) \in s
  <2> HIDE DEF s
  <2> QED
    BY <1>1, MinWithin
<1>3. Min(s) \in DOMAIN case.request.inputs /\ case.request.inputs[Min(s)].name = name
  BY <1>2 DEF Positions
<1> QED
  BY <1>2, <1>3 DEF Asked

\* The position of the batch dimension is a number (Layout::retrieveBatchIndex).
LEMMA getBatchIndexIs ==
    ASSUME NEW layout \in Seq(Letters)
    PROVE  getBatchIndex(layout) \in Nat
<1> DEFINE batch == {i \in DOMAIN layout : layout[i] = "N"}
<1>1. batch # {} => Min(batch) \in Nat
  <2>1. batch \subseteq Nat
    OBVIOUS
  <2> HIDE DEF batch
  <2> QED
    BY <2>1, MinWithin
<1> QED
  BY <1>1 DEF getBatchIndex

\* An input that no check has refused has passed every one of them
\* (RequestValidator::validate, the checks of one input).
LEMMA InputIsChecked ==
    ASSUME IsRequest(case), NEW info \in InfoRecord,
           \A k \in DOMAIN validateInput(case.request, info) : validateInput(case.request, info)[k] \in Changes \cup {"OK"}
    PROVE  Checked(info)
<1> DEFINE checks == validateInput(case.request, info)
           input == Asked(info.name)
           position == Min(Positions(case.request, info.name))
           batch == getBatchIndex(info.layout)
<1>1. \A status : status \in Changes \cup {"OK"} => status \notin
        {"INVALID_MISSING_INPUT", "INVALID_SHAPE", "INTERNAL_ERROR", "INVALID_NO_OF_SHAPE_DIMENSIONS", "INVALID_PRECISION",
         "INVALID_BATCH_SIZE", "INVALID_CONTENT_SIZE", "INVALID_VALUE_COUNT"}
  BY DEF Changes
<1>2. \A s : checks = <<s>> => s \in Changes \cup {"OK"}
  <2>1. SUFFICES ASSUME NEW s, checks = <<s>> PROVE s \in Changes \cup {"OK"}
    OBVIOUS
  <2>2. 1 \in DOMAIN checks /\ checks[1] = s
    BY <2>1
  <2> QED
    BY <2>2
<1>3. \A s, t, u : checks = <<s, t, u>> => u \in Changes \cup {"OK"}
  <2>1. SUFFICES ASSUME NEW s, NEW t, NEW u, checks = <<s, t, u>> PROVE u \in Changes \cup {"OK"}
    OBVIOUS
  <2>2. 3 \in DOMAIN checks /\ checks[3] = u
    BY <2>1
  <2> QED
    BY <2>2
<1>4. case.request.inputs \in Seq(InputRecord)
  BY DEF IsRequest
<1>5. Positions(case.request, info.name) # {}
  <2>1. SUFFICES ASSUME Positions(case.request, info.name) = {} PROVE FALSE
    OBVIOUS
  <2>2. checks = <<"INVALID_MISSING_INPUT">>
    BY <2>1 DEF validateInput
  <2> QED
    BY <1>1, <1>2, <2>2
<1>6. input \in InputRecord /\ position \in DOMAIN case.request.inputs
  BY <1>4, <1>5, PositionIs
<1>7. checks =
        IF checkIfShapeValuesNegative(input) # "OK" THEN <<"INVALID_SHAPE">>
        ELSE IF batch = 0 \/ batch > Len(info.shape) THEN <<"INTERNAL_ERROR">>
        ELSE IF checkIfBinaryInputUsed(input)
        THEN <<IF Len(input.shape) # 1 THEN "INVALID_NO_OF_SHAPE_DIMENSIONS"
               ELSE checkBinaryBatchSizeMismatch(input, info, batch)>>
        ELSE IF input.datatype # DataType(case.api, info.precision) THEN <<"INVALID_PRECISION">>
        ELSE IF input.shape = <<>> \/ Len(input.shape) # Len(info.shape)
        THEN <<"INVALID_NO_OF_SHAPE_DIMENSIONS">>
        ELSE <<checkBatchSizeMismatch(info.shape[batch], input.shape[batch], info),
               checkShapeMismatch(input, info, batch),
               validateTensorContentSize(case.request, input, position, info)>>
  BY <1>5 DEF validateInput, validateAndGetInput, Asked
<1> HIDE DEF checks, input, position, batch
<1>8. checkIfShapeValuesNegative(input) = "OK"
  BY <1>1, <1>2, <1>7
<1>9. ~(batch = 0 \/ batch > Len(info.shape))
  BY <1>1, <1>2, <1>7, <1>8
<1>10. \A d \in DOMAIN input.shape : input.shape[d] > 0
  BY <1>6, <1>8 DEF checkIfShapeValuesNegative, InputRecord
<1>11. batch \in DOMAIN info.shape
  <2>1. batch \in Nat /\ info.shape \in Seq([min : Int, max : Int])
    BY getBatchIndexIs DEF InfoRecord, batch
  <2> QED
    BY <1>9, <2>1
<1>12. CASE checkIfBinaryInputUsed(input)
  <2>1. checks = <<IF Len(input.shape) # 1 THEN "INVALID_NO_OF_SHAPE_DIMENSIONS" ELSE checkBinaryBatchSizeMismatch(input, info, batch)>>
    BY <1>7, <1>8, <1>9, <1>12
  <2>2. Len(input.shape) = 1 /\ checks = <<checkBinaryBatchSizeMismatch(input, info, batch)>>
    BY <1>1, <1>2, <2>1
  <2>3. checkBinaryBatchSizeMismatch(input, info, batch) # "INVALID_BATCH_SIZE"
    BY <1>1, <1>2, <2>2
  <2>4. ~(input.size <= 0 \/ input.box \notin {"string_val", "bytes_contents"})
        /\ checkBinaryBatchSizeMismatch(input, info, batch) = checkBatchSizeMismatch(info.shape[batch], input.shape[1], info)
    BY <2>3 DEF checkBinaryBatchSizeMismatch
  <2>5. input.size = Len(input.images)
    <3>1. IsInput(input)
      BY <1>6 DEF IsRequest, input, Asked, position
    <3> QED
      BY <2>4, <3>1 DEF IsInput
  <2>6. input.images # <<>>
    BY <2>4, <2>5
  <2> QED
    BY <1>5, <1>10, <1>11, <1>12, <2>2, <2>4, <2>6 DEF Checked, CheckedBinary, input, batch, checks
<1>13. CASE ~checkIfBinaryInputUsed(input)
  <2>1. input.datatype = DataType(case.api, info.precision)
    BY <1>1, <1>2, <1>7, <1>8, <1>9, <1>13
  <2>2. ~(input.shape = <<>> \/ Len(input.shape) # Len(info.shape))
    BY <1>1, <1>2, <1>7, <1>8, <1>9, <1>13, <2>1
  <2>3. checks = <<checkBatchSizeMismatch(info.shape[batch], input.shape[batch], info),
               checkShapeMismatch(input, info, batch),
               validateTensorContentSize(case.request, input, position, info)>>
    BY <1>7, <1>8, <1>9, <1>13, <2>1, <2>2
  <2>4. validateTensorContentSize(case.request, input, position, info) \in Changes \cup {"OK"}
    BY <1>3, <2>3
  <2>5. validateTensorContentSize(case.request, input, position, info) = "OK"
    BY <1>1, <2>4 DEF validateTensorContentSize
  <2> QED
    BY <1>5, <1>10, <1>11, <1>13, <2>2, <2>3, <2>5 DEF Checked, CheckedValues, input, batch, checks, position
<1> QED
  BY <1>12, <1>13

\* What deserialization relies on, whatever the shape the servable was
\* reloaded for.
Measured(info) ==
    /\ Positions(case.request, info.name) # {}
    /\ IF checkIfBinaryInputUsed(Asked(info.name)) THEN Asked(info.name).images # <<>>
       ELSE validateTensorContentSize(case.request, Asked(info.name), Min(Positions(case.request, info.name)), info) = "OK"

\* A checked input has the content its own shape asks for
\* (validateTensorContentSize, convertBinaryRequestTensorToOVTensor).
LEMMA CheckedIsMeasured ==
    ASSUME NEW info, Checked(info)
    PROVE  Measured(info)
BY DEF Checked, Measured, CheckedBinary, CheckedValues

\* The values of an input are read as they were measured.
LEMMA ValuesAreRead ==
    ASSUME NEW info, Measured(info), ~checkIfBinaryInputUsed(Asked(info.name))
    PROVE  /\ \/ deserializeInput(case.request, info).tensor.read = deserializeInput(case.request, info).tensor.there
              \/ Unbuffered(info.name)
           /\ deserializeInput(case.request, info).status = "OV_INTERNAL_DESERIALIZATION_ERROR" =>
                ~Matches(info.shape, Asked(info.name).shape, 0)
<1> DEFINE position == Min(Positions(case.request, info.name))
           input == Asked(info.name)
           tensor == deserializeTensorProto(case.request, position, info)
           made == [status |-> "OK", tensor |-> tensor]
           count == Volume(input.shape)
           width == Width[info.precision]
           box == ValField(case.api, info.precision)
<1>1. deserializeInput(case.request, info) =
        IF tensor = NoTensor THEN [made EXCEPT !.status = "OV_UNSUPPORTED_DESERIALIZATION_PRECISION"]
        ELSE [made EXCEPT !.status = give(info, tensor)]
  BY DEF deserializeInput, Asked
<1>2. tensor =
        IF case.request.raw # <<>>
        THEN Tensor(input.shape, count * width, IF position \in DOMAIN case.request.raw THEN case.request.raw[position] ELSE 0)
        ELSE IF case.api = "TFS" /\ info.precision \in {"U32", "U64", "BOOL"} THEN NoTensor
        ELSE IF box = "none" THEN NoTensor
        ELSE IF box = "tensor_content" THEN Tensor(input.shape, count * width, SizeOf(input, box))
        ELSE Tensor(input.shape, SizeOf(input, box), count)
  BY DEF deserializeTensorProto, Asked
<1>3. "OK" =
        IF case.request.raw # <<>>
        THEN IF count * width = RawSize(case.request, position) THEN "OK" ELSE "INVALID_CONTENT_SIZE"
        ELSE IF box = "tensor_content"
        THEN IF count * width = SizeOf(input, box) THEN "OK" ELSE "INVALID_CONTENT_SIZE"
        ELSE IF count = SizeOf(input, box) THEN "OK" ELSE "INVALID_VALUE_COUNT"
  BY DEF Measured, validateTensorContentSize
<1> HIDE DEF tensor, count, width, box
<1>4. tensor.read = tensor.there \/ Unbuffered(info.name)
  <2>1. CASE Unbuffered(info.name)
    BY <2>1
  <2>2. CASE case.request.raw # <<>> /\ position \in DOMAIN case.request.raw
    BY <1>2, <1>3, <2>2 DEF Tensor, RawSize
  <2>3. CASE case.request.raw = <<>>
    BY <1>2, <1>3, <2>3 DEF Tensor, NoTensor
  <2> QED
    BY <2>1, <2>2, <2>3 DEF Unbuffered
<1>5. tensor # NoTensor => tensor.shape = input.shape
  BY <1>2 DEF Tensor
<1> QED
  BY <1>1, <1>4, <1>5 DEF give

-----------------------------------------------------------------------------
\* Images

\* What ConvertImage adds to the images, in the state it does not refuse.
Converted(info, image, first) ==
    LET rows == Target(Height(info), first.rows)
        cols == Target(WidthOf(info), first.cols)
    IN  IF <<image.rows, image.cols>> = <<rows, cols>> THEN image ELSE Resized(image, rows, cols)

ImageStatus == {"OK", "UNSUPPORTED_LAYOUT", "INVALID_SHAPE", "INVALID_BATCH_SIZE", "STRING_VAL_EMPTY", "IMAGE_PARSING_FAILED",
                "BINARY_IMAGES_RESOLUTION_MISMATCH", "INVALID_NO_OF_CHANNELS", "INVALID_PRECISION"}
Conversion == [status : ImageStatus, images : Seq([bytes : STRING, rows : Int, cols : Int, channels : Nat])]

\* The size an image is resized to is one that its dimension takes
\* (updateTargetResolution).
LEMMA TargetIs ==
    ASSUME NEW dim \in [min : Int, max : Int], IsDim(dim), NEW size \in Nat
    PROVE  Target(dim, size) \in Int /\ match(dim, Target(dim, size))
BY DEF Target, isAny, isDynamic, match, IsDim, AnyDim, Range2

\* One more image is converted: it passed the check of its channels and has the
\* target size (the loop of convertTensorToMatsMatchingTensorInfo).
LEMMA ConvertImageIs ==
    ASSUME NEW info \in InfoRecord, NEW state \in Conversion, NEW image \in ImageRecord, NEW first \in ImageRecord,
           Height(info) \in [min : Int, max : Int], IsDim(Height(info)),
           WidthOf(info) \in [min : Int, max : Int], IsDim(WidthOf(info))
    PROVE  /\ ConvertImage(state, info, image, first) \in Conversion
           /\ ConvertImage(state, info, image, first).status = "OK" =>
                /\ state.status = "OK" /\ validateNumberOfChannels(info, image, state.images)
                /\ ConvertImage(state, info, image, first).images = Append(state.images, Converted(info, image, first))
<1> DEFINE rows == Target(Height(info), first.rows)
           cols == Target(WidthOf(info), first.cols)
           result == ConvertImage(state, info, image, first)
<1>1. rows \in Int /\ cols \in Int
  BY TargetIs DEF ImageRecord
<1>2. Converted(info, image, first) \in [bytes : STRING, rows : Int, cols : Int, channels : Nat]
  BY <1>1 DEF Converted, Resized, ImageRecord
<1>3. result = state \/ (\E s \in {"IMAGE_PARSING_FAILED", "BINARY_IMAGES_RESOLUTION_MISMATCH", "INVALID_NO_OF_CHANNELS",
                                   "INVALID_PRECISION", "INVALID_SHAPE"} : result = [state EXCEPT !.status = s])
      \/ result = [state EXCEPT !.images = Append(@, Converted(info, image, first))]
  BY DEF ConvertImage, Converted
<1>4. result.status = "OK" => state.status = "OK" /\ validateNumberOfChannels(info, image, state.images)
                              /\ result = [state EXCEPT !.images = Append(@, Converted(info, image, first))]
  BY DEF ConvertImage, Converted, Conversion
<1>5. /\ result \in Conversion
      /\ result.status = "OK" => result.images = Append(state.images, Converted(info, image, first))
  <2> HIDE DEF result
  <2>1. \A s \in ImageStatus : [state EXCEPT !.status = s] \in Conversion /\ [state EXCEPT !.status = s].status = s
    BY DEF Conversion
  <2> DEFINE m == Converted(info, image, first)
             all == Append(state.images, m)
  <2>2. all \in Seq([bytes : STRING, rows : Int, cols : Int, channels : Nat])
    <3> HIDE DEF m
    <3> QED
      BY <1>2 DEF Conversion, m
  <2> HIDE DEF all
  <2>3. LET more == [state EXCEPT !.images = all] IN more \in Conversion /\ more.status = state.status /\ more.images = all
    BY <2>2 DEF Conversion
  <2>4. result = [state EXCEPT !.images = Append(@, m)] => result = [state EXCEPT !.images = all]
    BY DEF all
  <2> HIDE DEF m
  <2>5. result \in Conversion
    <3>1. CASE result = state
      BY <3>1
    <3>2. CASE \E s \in {"IMAGE_PARSING_FAILED", "BINARY_IMAGES_RESOLUTION_MISMATCH", "INVALID_NO_OF_CHANNELS",
                         "INVALID_PRECISION", "INVALID_SHAPE"} : result = [state EXCEPT !.status = s]
      <4>1. PICK s \in {"IMAGE_PARSING_FAILED", "BINARY_IMAGES_RESOLUTION_MISMATCH", "INVALID_NO_OF_CHANNELS",
                        "INVALID_PRECISION", "INVALID_SHAPE"} : result = [state EXCEPT !.status = s]
        BY <3>2
      <4>2. s \in ImageStatus
        BY <4>1 DEF ImageStatus
      <4> QED
        BY <2>1, <4>1, <4>2
    <3>3. CASE result = [state EXCEPT !.images = all]
      BY <2>3, <3>3
    <3> QED
      BY <1>3, <2>4, <3>1, <3>2, <3>3 DEF m
  <2>7. result.status = "OK" => result.images = all
    BY <1>4, <2>3, <2>4 DEF m
  <2> QED
    BY <2>5, <2>7 DEF all, m
<1> QED
  BY <1>4, <1>5

\* The images, one after another.
ConvertSteps(start, info, images, n, V, h) ==
    /\ h \in [0 .. n -> V] /\ h[0] = start
    /\ \A k \in 0 .. n - 1 : h[k + 1] = ConvertImage(h[k], info, images[k + 1], images[1])
    /\ ConvertImages(start, info, images) = h[n]

\* The images are converted one after another
\* (convertTensorToMatsMatchingTensorInfo).
LEMMA ConvertImagesIs ==
    ASSUME NEW info, NEW images, NEW n \in Nat, DOMAIN images = 1 .. n, NEW V, NEW start \in V,
           \A state \in V, i \in 1 .. n : ConvertImage(state, info, images[i], images[1]) \in V
    PROVE  \E h : ConvertSteps(start, info, images, n, V, h)
<1> DEFINE P(g) == g = [s \in SUBSET (DOMAIN images) |->
                          IF s = {} THEN start ELSE ConvertImage(g[s \ {Max(s)}], info, images[Max(s)], images[1])]
           S == [p \in (1 .. n) \X V |-> ConvertImage(p[2], info, images[p[1]], images[1])]
           c == CHOOSE g : P(g)
<1>1. PICK g, h : FoldsTo(n, V, start, S, g, h)
  <2>1. S \in [(1 .. n) \X V -> V]
    OBVIOUS
  <2> HIDE DEF S
  <2> QED
    BY <2>1, FoldIs, Zenon
<1>2. P(g)
  BY <1>1 DEF FoldsTo, Fold
<1>3. P(c)
  BY <1>2
<1>4. ConvertImages(start, info, images) = c[1 .. n]
  BY DEF ConvertImages, FoldLeft, MapThenFoldSet
<1> HIDE DEF c
<1>5. c[1 .. n] = h[n]
  <2>1. c[{}] = start /\ \A s \in SUBSET (1 .. n) : s # {} /\ c[s \ {Max(s)}] = g[s \ {Max(s)}] => c[s] = g[s]
    BY <1>2, <1>3
  <2> HIDE DEF P, S
  <2> QED
    BY <1>1, <2>1 DEF FoldsTo
<1>6. \A k \in 0 .. n - 1 : h[k + 1] = ConvertImage(h[k], info, images[k + 1], images[1])
  BY <1>1 DEF FoldsTo
<1>7. h \in [0 .. n -> V] /\ h[0] = start
  BY <1>1 DEF FoldsTo
<1> QED
  BY <1>4, <1>5, <1>6, <1>7 DEF ConvertSteps

\* The positions of two layouts, one after another.
MeetSteps(lhs, rhs, n, V, h) ==
    /\ h \in [0 .. n -> V] /\ h[0] = lhs
    /\ \A k \in 0 .. n - 1 : h[k + 1] = MeetAt(h[k], rhs, k + 1)
    /\ MeetAll(lhs, rhs, n) = h[n]

\* Two layouts are compared position by position (Layout::createIntersection).
LEMMA MeetAllIs ==
    ASSUME NEW rhs, NEW n \in Nat, NEW V, NEW lhs \in V, \A l \in V, i \in 1 .. n : MeetAt(l, rhs, i) \in V
    PROVE  \E h : MeetSteps(lhs, rhs, n, V, h)
<1> DEFINE P(g) == g = [s \in SUBSET (DOMAIN [i \in 1 .. n |-> i]) |->
                          IF s = {} THEN lhs ELSE MeetAt(g[s \ {Max(s)}], rhs, [i \in 1 .. n |-> i][Max(s)])]
           S == [p \in (1 .. n) \X V |-> MeetAt(p[2], rhs, p[1])]
           c == CHOOSE g : P(g)
<1>1. PICK g, h : FoldsTo(n, V, lhs, S, g, h)
  <2>1. S \in [(1 .. n) \X V -> V]
    OBVIOUS
  <2> HIDE DEF S
  <2> QED
    BY <2>1, FoldIs, Zenon
<1>2. P(g)
  BY <1>1 DEF FoldsTo, Fold
<1>3. P(c)
  BY <1>2
<1>4. MeetAll(lhs, rhs, n) = c[1 .. n]
  BY DEF MeetAll, FoldLeft, MapThenFoldSet
<1> HIDE DEF c
<1>5. c[1 .. n] = h[n]
  <2> DEFINE Step(s, x) == IF s = {} THEN lhs ELSE MeetAt(x, rhs, [i \in 1 .. n |-> i][Max(s)])
  <2>1. \A s \in SUBSET (1 .. n) : c[s] = Step(s, c[s \ {Max(s)}])
    BY <1>3
  <2>2. \A s \in SUBSET (1 .. n) : g[s] = Step(s, g[s \ {Max(s)}])
    BY <1>2
  <2>3. \A x : Step({}, x) = lhs
    OBVIOUS
  <2> HIDE DEF P, S, Step
  <2>4. c[{}] = lhs /\ \A s \in SUBSET (1 .. n) : s # {} /\ c[s \ {Max(s)}] = g[s \ {Max(s)}] => c[s] = g[s]
    BY <2>1, <2>2, <2>3
  <2> QED
    BY <1>1, <2>4 DEF FoldsTo
<1>6. \A k \in 0 .. n - 1 : h[k + 1] = MeetAt(h[k], rhs, k + 1)
  BY <1>1 DEF FoldsTo
<1>7. h \in [0 .. n -> V] /\ h[0] = lhs
  BY <1>1 DEF FoldsTo
<1> QED
  BY <1>4, <1>5, <1>6, <1>7 DEF MeetSteps

\* A layout has each letter but "?" once.
Single(layout) == \A i, j \in DOMAIN layout : layout[i] = layout[j] /\ layout[i] # "?" => i = j

\* Spelled out, a layout has its letters where they were before the "...", and
\* each of them once.
LEMMA ExpandIs ==
    ASSUME NEW layout, IsLayout(layout), NEW n \in Nat, Expand(layout, n) # Nothing
    PROVE  \E l \in Seq(Letters) :
             /\ Expand(layout, n) = <<l>> /\ Single(l)
             /\ \A i \in DOMAIN layout : (\A j \in DOMAIN layout : layout[j] = Etc => i < j) => i \in DOMAIN l /\ l[i] = layout[i]
<1>1. layout \in Seq(Letters) /\ DOMAIN layout = 1 .. Len(layout) /\ Single(layout)
  BY DEF IsLayout, Single
<1>2. CASE ~containsEtc(layout)
  BY <1>1, <1>2 DEF Expand, Some
<1>3. CASE containsEtc(layout)
  <2> DEFINE at == CHOOSE i \in DOMAIN layout : layout[i] = Etc
             m == n - KnownDimensions(layout)
             head == SubSeq(layout, 1, at - 1)
             fill == [i \in 1 .. m |-> "?"]
             tail == SubSeq(layout, at + 1, Len(layout))
  <2>1. at \in 1 .. Len(layout) /\ layout[at] = Etc
    BY <1>1, <1>3 DEF containsEtc, ToSet
  <2>2. ~(KnownDimensions(layout) > n)
    BY <1>3 DEF Expand
  <2>3. m \in Nat
    <3>1. KnownDimensions(layout) \in Nat
      <4>1. IsFiniteSet({i \in DOMAIN layout : layout[i] # Etc})
        <5>1. IsFiniteSet(1 .. Len(layout))
          BY <1>1, FS_Interval
        <5> QED
          BY <1>1, <5>1, FS_Subset
      <4> QED
        BY <4>1, FS_CardinalityType DEF KnownDimensions
    <3> QED
      BY <2>2, <3>1
  <2>4. Expand(layout, n) = <<(head \o fill) \o tail>>
    BY <1>3, <2>2 DEF Expand, Some
  <2> HIDE DEF at, m
  <2>5. fill \in Seq(Letters) /\ Len(fill) = m /\ \A i \in 1 .. m : fill[i] = "?"
    BY <2>3 DEF Letters
  <2>6. head \in Seq(Letters) /\ Len(head) = at - 1 /\ \A i \in 1 .. at - 1 : head[i] = layout[i]
    BY <1>1, <2>1
  <2>7. tail \in Seq(Letters) /\ Len(tail) = Len(layout) - at /\ \A i \in 1 .. Len(layout) - at : tail[i] = layout[at + i]
    <3>1. at + 1 \in Int /\ Len(layout) \in Int /\ \A i \in at + 1 .. Len(layout) : layout[i] \in Letters
      BY <1>1, <2>1
    <3>2. /\ tail \in Seq(Letters)
          /\ Len(tail) = IF at + 1 <= Len(layout) THEN Len(layout) - (at + 1) + 1 ELSE 0
          /\ \A i \in 1 .. Len(layout) - (at + 1) + 1 : tail[i] = layout[(at + 1) + i - 1]
      BY <3>1, SubSeqProperties
    <3> HIDE DEF tail
    <3>3. at \in Int /\ at <= Len(layout) /\ Len(layout) \in Int
      BY <1>1, <2>1
    <3> DEFINE q == Len(layout)
    <3> HIDE DEF q
    <3>4. Len(tail) = q - at
      BY <3>2, <3>3 DEF q
    <3>5. ASSUME NEW i \in 1 .. q - at PROVE tail[i] = layout[at + i]
      <4>1. i \in 1 .. q - (at + 1) + 1 /\ (at + 1) + i - 1 = at + i
        BY <3>3, <3>5 DEF q
      <4> QED
        BY <3>2, <4>1 DEF q
    <3> QED
      BY <3>2, <3>4, <3>5 DEF q
  <2> HIDE DEF head, fill, tail
  <2> DEFINE l == (head \o fill) \o tail
  <2>8. /\ l \in Seq(Letters) /\ Len(l) = (at - 1) + m + (Len(layout) - at)
        /\ \A i \in 1 .. Len(l) : l[i] = IF i <= (at - 1) + m THEN (IF i <= at - 1 THEN head[i] ELSE fill[i - (at - 1)])
                                         ELSE tail[i - ((at - 1) + m)]
    <3> DEFINE f == head \o fill
    <3>1. f \in Seq(Letters) /\ Len(f) = (at - 1) + m
          /\ \A i \in 1 .. (at - 1) + m : f[i] = IF i <= at - 1 THEN head[i] ELSE fill[i - (at - 1)]
      <4>1. f \in Seq(Letters) /\ Len(f) = Len(head) + Len(fill)
            /\ \A i \in 1 .. Len(head) + Len(fill) : f[i] = IF i <= Len(head) THEN head[i] ELSE fill[i - Len(head)]
        BY <2>5, <2>6, ConcatProperties
      <4> HIDE DEF f
      <4> QED
        BY <2>5, <2>6, <4>1
    <3> HIDE DEF f
    <3>2. f \o tail \in Seq(Letters) /\ Len(f \o tail) = Len(f) + Len(tail)
          /\ \A i \in 1 .. Len(f) + Len(tail) : (f \o tail)[i] = IF i <= Len(f) THEN f[i] ELSE tail[i - Len(f)]
      BY <2>7, <3>1, ConcatProperties
    <3>3. l = f \o tail
      BY DEF f
    <3> HIDE DEF l
    <3> QED
      BY <1>1, <2>1, <2>3, <2>7, <3>1, <3>2, <3>3
  <2> HIDE DEF l
  <2>9. \A i \in 1 .. Len(l) :
          l[i] = IF i < at THEN layout[i] ELSE IF i < at + m THEN "?" ELSE layout[i - m + 1]
    <3> SUFFICES ASSUME NEW i \in 1 .. Len(l)
                 PROVE  l[i] = IF i < at THEN layout[i] ELSE IF i < at + m THEN "?" ELSE layout[i - m + 1]
      OBVIOUS
    <3>1. CASE i < at
      BY <2>1, <2>3, <2>5, <2>6, <2>7, <2>8, <3>1
    <3>2. CASE i >= at /\ i < at + m
      BY <2>1, <2>3, <2>5, <2>6, <2>7, <2>8, <3>2
    <3>3. CASE i >= at + m
      <4>1. l[i] = tail[i - ((at - 1) + m)]
        BY <1>1, <2>1, <2>3, <2>8, <3>3
      <4>2. i - ((at - 1) + m) \in 1 .. Len(layout) - at /\ at + (i - ((at - 1) + m)) = i - m + 1
        BY <1>1, <2>1, <2>3, <2>8, <3>3
      <4>3. tail[i - ((at - 1) + m)] = layout[at + (i - ((at - 1) + m))]
        BY <2>7, <4>2
      <4> QED
        BY <2>1, <2>3, <3>3, <4>1, <4>2, <4>3
    <3> QED
      BY <2>1, <2>3, <2>8, <3>1, <3>2, <3>3
  <2>10. Single(l)
    <3> SUFFICES ASSUME NEW i \in 1 .. Len(l), NEW j \in 1 .. Len(l), l[i] = l[j], l[i] # "?" PROVE i = j
      BY <2>8 DEF Single
    <3> DEFINE p(x) == IF x < at THEN x ELSE x - m + 1
    <3>1. ~(at <= i /\ i < at + m) /\ ~(at <= j /\ j < at + m)
      BY <1>1, <2>1, <2>3, <2>8, <2>9
    <3>2. p(i) \in DOMAIN layout /\ p(j) \in DOMAIN layout /\ layout[p(i)] = l[i] /\ layout[p(j)] = l[j]
      BY <1>1, <2>1, <2>3, <2>8, <2>9, <3>1
    <3>3. p(i) = p(j)
      BY <1>1, <3>2 DEF Single
    <3> QED
      BY <1>1, <2>1, <2>3, <2>8, <3>1, <3>3
  <2>11. ASSUME NEW i \in DOMAIN layout, \A j \in DOMAIN layout : layout[j] = Etc => i < j
         PROVE  i \in DOMAIN l /\ l[i] = layout[i]
    <3>1. i < at
      BY <1>1, <2>1, <2>11
    <3>2. i \in 1 .. Len(l) /\ DOMAIN l = 1 .. Len(l)
      BY <1>1, <2>1, <2>3, <2>8, <3>1
    <3> QED
      BY <1>1, <2>1, <2>9, <3>1, <3>2
  <2> QED
    BY <2>4, <2>8, <2>10, <2>11 DEF l
<1> QED
  BY <1>2, <1>3

\* What MeetAt makes of two layouts of a length is nothing or such a layout, and
\* nothing stays nothing.
LEMMA MeetAtIs ==
    ASSUME NEW n \in Nat, NEW rhs \in [1 .. n -> Letters], NEW i \in 1 .. n,
           NEW l, l = Nothing \/ \E x \in [1 .. n -> Letters] : l = <<x>>
    PROVE  /\ (MeetAt(l, rhs, i) = Nothing \/ \E x \in [1 .. n -> Letters] : MeetAt(l, rhs, i) = <<x>>)
           /\ l = Nothing => MeetAt(l, rhs, i) = Nothing
<1>1. CASE l = Nothing
  BY <1>1 DEF MeetAt
<1>2. CASE \E x \in [1 .. n -> Letters] : l = <<x>>
  <2>1. PICK x \in [1 .. n -> Letters] : l = <<x>>
    BY <1>2
  <2>2. l[1] = x /\ l # Nothing
    BY <2>1 DEF Nothing
  <2>3. [x EXCEPT ![i] = rhs[i]] \in [1 .. n -> Letters]
    OBVIOUS
  <2>4. MeetAt(l, rhs, i) \in {l, <<[x EXCEPT ![i] = rhs[i]]>>, Nothing}
    BY <2>2 DEF MeetAt, Some
  <2> QED
    BY <2>1, <2>2, <2>3, <2>4
<1> QED
  BY <1>1, <1>2

\* A description that images can be read for has its batch first, if it has one.
LEMMA BatchIsFirst ==
    ASSUME NEW info, IsLayout(info.layout), Len(info.shape) \in Nat, validateLayout(info), getBatchIndex(info.layout) # 0
    PROVE  getBatchIndex(info.layout) = 1
<1> DEFINE layout == info.layout
           other == <<"N", Etc, "H", "W", "C">>
           n == Len(info.shape)
           batch == {i \in DOMAIN layout : layout[i] = "N"}
           p == Min(batch)
<1>1. CASE layout = <<Etc>>
  BY <1>1 DEF getBatchIndex
<1>2. CASE layout # <<Etc>>
  <2>1. batch # {} /\ getBatchIndex(layout) = p /\ \A i \in batch : \A j \in DOMAIN layout : layout[j] = Etc => i <= j
    <3>1. layout \in Seq(Letters)
      BY DEF IsLayout
    <3>2. \A i, j \in DOMAIN layout : ~(i > j) => i <= j
      BY <3>1
    <3> QED
      BY <1>2, <3>2 DEF getBatchIndex
  <2>2. p \in batch /\ p \in Nat /\ p >= 1
    <3>1. batch \subseteq Nat /\ \A i \in batch : i >= 1
      BY DEF IsLayout
    <3>2. Min(batch) \in batch
      <4> HIDE DEF batch
      <4> QED
        BY <2>1, <3>1, MinWithin
    <3> QED
      BY <3>1, <3>2
  <2>3. \A j \in DOMAIN layout : layout[j] = Etc => p < j
    <3>1. "N" # Etc
      BY DEF Etc
    <3>2. \A j \in DOMAIN layout : j \in Nat
      BY DEF IsLayout
    <3> HIDE DEF p
    <3> QED
      BY <2>1, <2>2, <3>1, <3>2
  <2>4. LayoutIntersection(layout, other, n) # Nothing
    BY DEF validateLayout
  <2>5. Expand(layout, n) # Nothing /\ Expand(other, n) # Nothing
    BY <2>4 DEF LayoutIntersection
  <2>6. IsLayout(other)
    BY DEF IsLayout, Letters, Etc
  <2>7. PICK l \in Seq(Letters) : /\ Expand(layout, n) = <<l>> /\ Single(l)
          /\ \A i \in DOMAIN layout : (\A j \in DOMAIN layout : layout[j] = Etc => i < j) => i \in DOMAIN l /\ l[i] = layout[i]
    BY <2>5, ExpandIs
  <2>8. PICK r \in Seq(Letters) : /\ Expand(other, n) = <<r>>
          /\ \A i \in DOMAIN other : (\A j \in DOMAIN other : other[j] = Etc => i < j) => i \in DOMAIN r /\ r[i] = other[i]
    <3> HIDE DEF other
    <3> QED
      BY <2>5, <2>6, ExpandIs
  <2>9. Len(l) = n /\ Len(r) = n /\ MeetAll(<<l>>, r, n) # Nothing
    BY <2>4, <2>7, <2>8 DEF LayoutIntersection, Nothing
  <2>10. n >= 1 /\ r[1] = "N"
    BY <2>8, <2>9 DEF Etc
  <2>11. l[p] = "N" /\ p \in DOMAIN l
    BY <2>2, <2>3, <2>7
  <2>12. l \in [1 .. n -> Letters] /\ r \in [1 .. n -> Letters] /\ n \in Nat
    BY <2>7, <2>8, <2>9
  <2>13. SUFFICES ASSUME p # 1 PROVE FALSE
    BY <2>1
  <2>14. MeetAt(<<l>>, r, 1) = Nothing
    <3>1. l[1] # "N"
      <4>1. 1 \in DOMAIN l
        BY <2>10, <2>12
      <4> QED
        BY <2>7, <2>11, <2>13, <4>1 DEF Single
    <3>2. "N" \in ToSet(l)
      BY <2>11 DEF ToSet
    <3> QED
      BY <2>10, <3>1, <3>2 DEF MeetAt, Nothing
  <2> DEFINE V == {Nothing} \cup {<<x>> : x \in [1 .. n -> Letters]}
  <2>15. PICK h : MeetSteps(<<l>>, r, n, V, h)
    <3>1. <<l>> \in V
      BY <2>12
    <3>2. \A x \in V, i \in 1 .. n : MeetAt(x, r, i) \in V
      BY <2>12, MeetAtIs
    <3>3. n \in Nat
      BY <2>12
    <3> HIDE DEF V, n
    <3> QED
      BY <3>1, <3>2, <3>3, MeetAllIs, Zenon
  <2>16. h[1] = Nothing
    <3>1. 0 \in 0 .. n - 1 /\ 0 + 1 = 1
      BY <2>10, <2>12
    <3>2. h[0 + 1] = MeetAt(h[0], r, 0 + 1)
      BY <2>15, <3>1 DEF MeetSteps
    <3> QED
      BY <2>14, <2>15, <3>1, <3>2 DEF MeetSteps
  <2> DEFINE T == {k \in Nat : k + 1 <= n => h[k + 1] = Nothing}
  <2>17. 0 \in T
    BY <2>16
  <2>18. ASSUME NEW k \in Nat, k \in T PROVE k + 1 \in T
    <3>1. SUFFICES ASSUME (k + 1) + 1 <= n PROVE h[(k + 1) + 1] = Nothing
      OBVIOUS
    <3>2. h[k + 1] = Nothing /\ k + 1 \in 0 .. n - 1
      BY <2>12, <2>18, <3>1
    <3>3. h[(k + 1) + 1] = MeetAt(h[k + 1], r, (k + 1) + 1)
      BY <2>15, <3>2 DEF MeetSteps
    <3> QED
      BY <3>2, <3>3 DEF MeetAt
  <2>19. \A k \in Nat : k \in T
    <3> HIDE DEF T
    <3> QED
      BY <2>17, <2>18, Induction
  <2>20. n - 1 \in T /\ (n - 1) + 1 = n
    <3>1. n - 1 \in Nat /\ (n - 1) + 1 = n
      BY <2>10, <2>12
    <3> HIDE DEF T
    <3> QED
      BY <2>19, <3>1
  <2>21. h[n] = Nothing
    BY <2>12, <2>20
  <2> QED
    BY <2>9, <2>15, <2>21 DEF MeetSteps
<1> QED
  BY <1>1, <1>2

\* The sum of equal numbers.
LEMMA TotalIs ==
    ASSUME NEW terms, NEW n \in Nat, DOMAIN terms = 1 .. n, NEW v \in Int, \A i \in 1 .. n : terms[i] = v
    PROVE  Total(terms) = n * v
<1> DEFINE V == Int
<1> DEFINE P(g) == g = [s \in SUBSET (DOMAIN terms) |-> IF s = {} THEN 0 ELSE (g[s \ {Max(s)}] + terms[Max(s)])]
           S == [p \in (1 .. n) \X V |-> (p[2] + terms[p[1]])]
           c == CHOOSE g : P(g)
<1>1. PICK g, h : FoldsTo(n, V, 0, S, g, h)
  <2>1. S \in [(1 .. n) \X V -> V] /\ 0 \in V
    OBVIOUS
  <2> HIDE DEF S
  <2> QED
    BY <2>1, FoldIs, Zenon
<1>2. P(g)
  BY <1>1 DEF FoldsTo, Fold
<1>3. P(c)
  BY <1>2
<1>4. Total(terms) = c[1 .. n]
  BY DEF Total, FoldLeft, MapThenFoldSet
<1> HIDE DEF c
<1>5. c[1 .. n] = h[n]
  <2>1. c[{}] = 0 /\ \A s \in SUBSET (1 .. n) : s # {} /\ c[s \ {Max(s)}] = g[s \ {Max(s)}] => c[s] = g[s]
    BY <1>2, <1>3
  <2> HIDE DEF P, S
  <2> QED
    BY <1>1, <2>1 DEF FoldsTo
<1>6. \A k \in 0 .. n - 1 : h[k + 1] = (h[k] + terms[k + 1])
  BY <1>1 DEF FoldsTo
<1>7. h \in [0 .. n -> V] /\ h[0] = 0
  BY <1>1 DEF FoldsTo
<1>8. \A k \in Nat : k \in {k_1 \in Nat : k_1 <= n => h[k_1] = k_1 * v}
  <2> DEFINE T == {k \in Nat : k <= n => h[k] = k * v}
  <2>1. 0 \in T
    BY <1>7
  <2>2. ASSUME NEW k \in Nat, k \in T PROVE k + 1 \in T
    <3>1. SUFFICES ASSUME k + 1 <= n PROVE h[k + 1] = (k + 1) * v
      OBVIOUS
    <3>2. h[k] = k * v /\ h[k + 1] = h[k] + terms[k + 1] /\ terms[k + 1] = v
      BY <1>6, <2>2, <3>1
    <3>3. (k + 1) * v = k * v + v
      OBVIOUS
    <3> QED
      BY <3>2, <3>3
  <2> HIDE DEF T
  <2>3. \A k \in Nat : k \in T
    BY <2>1, <2>2, Induction
  <2> QED
    BY <2>3 DEF T
<1> QED
  BY <1>4, <1>5, <1>8

\* The volume of a tensor of images, with and without the dimension that a
\* demultiplexer divides (getShapeFromImages).
LEMMA VolumeOfFour ==
    ASSUME NEW a \in Int, NEW b \in Int, NEW c \in Int, NEW d \in Int
    PROVE  Volume(<<a, b, c, d>>) = a * (b * c * d) /\ Volume(<<a, 1, b, c, d>>) = a * (b * c * d)
<1>1. Volume(<<a, b, c, d>>) = a * (b * c * d)
  <2> DEFINE s == <<a, b, c, d>>
  <2>1. DOMAIN s = 1 .. 4 /\ s[1] = a /\ s[2] = b /\ s[3] = c /\ s[4] = d /\ \A i \in 1 .. 4 : s[i] \in Int
    OBVIOUS
  <2> HIDE DEF s
  <2>2. PICK h : VolumeSteps(s, 4, h)
    BY <2>1, VolumeIs
  <2>3. h[0 + 1] = h[0] * s[0 + 1] /\ h[1 + 1] = h[1] * s[1 + 1] /\ h[2 + 1] = h[2] * s[2 + 1] /\ h[3 + 1] = h[3] * s[3 + 1]
    BY <2>2 DEF VolumeSteps
  <2>4. h[1] = a /\ h[2] = a * b /\ h[3] = (a * b) * c /\ h[4] = ((a * b) * c) * d
    BY <2>1, <2>2, <2>3 DEF VolumeSteps
  <2>5. ((a * b) * c) * d = a * (b * c * d)
    OBVIOUS
  <2> QED
    BY <2>2, <2>4, <2>5 DEF VolumeSteps, s
<1>2. Volume(<<a, 1, b, c, d>>) = a * (b * c * d)
  <2> DEFINE s == <<a, 1, b, c, d>>
  <2>1. DOMAIN s = 1 .. 5 /\ s[1] = a /\ s[2] = 1 /\ s[3] = b /\ s[4] = c /\ s[5] = d /\ \A i \in 1 .. 5 : s[i] \in Int
    OBVIOUS
  <2> HIDE DEF s
  <2>2. PICK h : VolumeSteps(s, 5, h)
    BY <2>1, VolumeIs
  <2>3. h[0 + 1] = h[0] * s[0 + 1] /\ h[1 + 1] = h[1] * s[1 + 1] /\ h[2 + 1] = h[2] * s[2 + 1] /\ h[3 + 1] = h[3] * s[3 + 1]
        /\ h[4 + 1] = h[4] * s[4 + 1]
    BY <2>2 DEF VolumeSteps
  <2>4. h[1] = a /\ h[2] = a /\ h[3] = a * b /\ h[4] = (a * b) * c /\ h[5] = ((a * b) * c) * d
    <3>1. h[1] = a /\ h[2] = h[1] * 1
      BY <2>1, <2>2, <2>3 DEF VolumeSteps
    <3>2. h[2] = a
      BY <3>1
    <3> QED
      BY <2>1, <2>3, <3>1, <3>2
  <2>5. ((a * b) * c) * d = a * (b * c * d)
    OBVIOUS
  <2> QED
    BY <2>2, <2>4, <2>5 DEF VolumeSteps, s
<1> QED
  BY <1>1, <1>2

\* What all images have in common after they were converted.
Alike(info, images, first, k) ==
    /\ Len(images) = k
    /\ \A i \in 1 .. k : images[i].rows = Target(Height(info), first.rows) /\ images[i].cols = Target(WidthOf(info), first.cols)
    /\ k > 0 => match(Channels(info), images[1].channels)
    /\ (isDynamic(Channels(info)) /\ ~isAny(Channels(info))) \/ \A i \in 1 .. k : images[i].channels = images[1].channels

\* An image that is converted is like those before it: as high, as wide and, but
\* for a range of channels, with as many channels (validateNumberOfChannels).
LEMMA ConvertedIsAlike ==
    ASSUME NEW info \in InfoRecord, NEW images \in Seq([bytes : STRING, rows : Int, cols : Int, channels : Nat]),
           NEW image \in ImageRecord, NEW first, NEW k \in Nat,
           Target(Height(info), first.rows) \in Int, Target(WidthOf(info), first.cols) \in Int,
           Alike(info, images, first, k), validateNumberOfChannels(info, image, images)
    PROVE  Alike(info, Append(images, Converted(info, image, first)), first, k + 1)
<1> DEFINE rows == Target(Height(info), first.rows)
           cols == Target(WidthOf(info), first.cols)
           m == Converted(info, image, first)
           all == Append(images, m)
<1>1. m.rows = rows /\ m.cols = cols /\ m.channels = image.channels /\ m \in [bytes : STRING, rows : Int, cols : Int, channels : Nat]
  <2> HIDE DEF rows, cols
  <2>1. m = IF <<image.rows, image.cols>> = <<rows, cols>> THEN image ELSE [image EXCEPT !.rows = rows, !.cols = cols]
    BY DEF Converted, Resized, rows, cols
  <2>2. rows \in Int /\ cols \in Int
    BY DEF rows, cols
  <2> HIDE DEF m
  <2> QED
    BY <2>1, <2>2 DEF ImageRecord
<1> HIDE DEF m
<1>2. Len(images) = k
  BY DEF Alike
<1>3. Len(all) = k + 1 /\ (\A i \in 1 .. k : all[i] = images[i]) /\ all[k + 1] = m
  BY <1>1, <1>2
<1> HIDE DEF all
<1>4. image.channels \in Nat /\ \A i \in 1 .. k : images[i].channels \in Nat
  <2> DEFINE R == [bytes : STRING, rows : Int, cols : Int, channels : Nat]
  <2>1. \A i \in 1 .. k : images[i] \in R
    <3>1. images \in Seq(R)
      OBVIOUS
    <3> HIDE DEF R
    <3> QED
      BY <1>2, <3>1
  <2> QED
    BY <2>1 DEF ImageRecord
<1>5. CASE k = 0
  <2>1. images = <<>>
    BY <1>2, <1>5
  <2>2. match(Channels(info), image.channels)
    <3>1. isAny(Channels(info)) \/ match(Channels(info), image.channels)
      BY <2>1 DEF validateNumberOfChannels
    <3> QED
      BY <1>4, <3>1 DEF match
  <2>3. \A i \in 1 .. 0 + 1 : i = 1
    OBVIOUS
  <2>4. Len(all) = 0 + 1 /\ all[1] = m
    BY <1>3, <1>5
  <2>5. Alike(info, all, first, 0 + 1)
    BY <1>1, <2>2, <2>3, <2>4 DEF Alike
  <2> QED
    BY <1>5, <2>5 DEF all, m
<1>6. CASE k > 0
  <2>1. images # <<>> /\ match(Channels(info), images[1].channels) /\ all[1] = images[1] /\ images[1].channels \in Nat
    <3>1. 1 \in 1 .. k /\ images # <<>>
      BY <1>2, <1>6
    <3>2. match(Channels(info), images[1].channels)
      BY <1>6 DEF Alike
    <3> QED
      BY <1>3, <1>4, <3>1, <3>2
  <2>2. (isDynamic(Channels(info)) /\ ~isAny(Channels(info))) \/ image.channels = images[1].channels
    <3>1. CASE isAny(Channels(info))
      <4>1. isAny(Static(images[1].channels)) \/ match(Static(images[1].channels), image.channels)
        BY <2>1, <3>1 DEF validateNumberOfChannels
      <4> QED
        BY <1>4, <2>1, <4>1 DEF isAny, match, isDynamic, Static, Range2, AnyDim
    <3>2. CASE ~isAny(Channels(info)) /\ ~isDynamic(Channels(info))
      <4>1. match(Channels(info), image.channels)
        BY <3>2 DEF validateNumberOfChannels
      <4> QED
        BY <2>1, <3>2, <4>1 DEF match
    <3> QED
      BY <3>1, <3>2
  <2>3. \A i \in 1 .. k + 1 : all[i].rows = rows /\ all[i].cols = cols
    <3> SUFFICES ASSUME NEW i \in 1 .. k + 1 PROVE all[i].rows = rows /\ all[i].cols = cols
      OBVIOUS
    <3>1. CASE i = k + 1
      BY <1>1, <1>3, <3>1
    <3>2. CASE i \in 1 .. k
      BY <1>3, <3>2 DEF Alike
    <3> QED
      BY <3>1, <3>2
  <2>4. (isDynamic(Channels(info)) /\ ~isAny(Channels(info))) \/ \A i \in 1 .. k + 1 : all[i].channels = all[1].channels
    <3> SUFFICES ASSUME ~(isDynamic(Channels(info)) /\ ~isAny(Channels(info))), NEW i \in 1 .. k + 1
                 PROVE  all[i].channels = all[1].channels
      OBVIOUS
    <3>1. CASE i = k + 1
      BY <1>1, <1>3, <2>1, <2>2, <3>1
    <3>2. CASE i \in 1 .. k
      BY <1>3, <2>1, <3>2 DEF Alike
    <3>3. i = k + 1 \/ i \in 1 .. k
      OBVIOUS
    <3> QED
      BY <3>1, <3>2, <3>3, Zenon
  <2> QED
    BY <1>3, <2>1, <2>3, <2>4 DEF Alike, all, m
<1> QED
  BY <1>5, <1>6

\* Images fill the tensor that is made for them, and it has a shape that the
\* servable takes (convertBinaryRequestTensorToOVTensor).
LEMMA ImagesAreRead ==
    ASSUME NEW info \in InfoRecord, IsInfo(info), NEW images \in Seq(ImageRecord), images # <<>>,
           NEW made, made = convertBinaryRequestTensorToOVTensor(info, images)
    PROVE  /\ made.status \in ImageStatus
           /\ made.status # "OK" => made.tensor = NoTensor
           /\ made.status = "OK" =>
                /\ made.tensor.read = made.tensor.there \/ (isDynamic(Channels(info)) /\ ~isAny(Channels(info)))
                /\ \/ Matches(info.shape, made.tensor.shape, 0)
                   \/ (info.demultiplexed /\ (Len(info.shape) # 5 \/ ~match(info.shape[2], 1)))
<1> DEFINE n == Len(images)
           start == [status |-> validateTensor(info, images), images |-> <<>>]
           first == images[1]
           R == [bytes : STRING, rows : Int, cols : Int, channels : Nat]
           converted == ConvertImages(start, info, images)
           shape == getShapeFromImages(converted.images, info)
           copied == Total([i \in DOMAIN images |-> LET m == converted.images[i] IN m.rows * m.cols * m.channels])
<1>1. made = [status |-> converted.status,
              tensor |-> IF converted.status = "OK" THEN Tensor(shape, copied, Volume(shape)) ELSE NoTensor]
  BY DEF convertBinaryRequestTensorToOVTensor
<1>2. n \in Nat /\ n >= 1 /\ DOMAIN images = 1 .. n /\ \A i \in 1 .. n : images[i] \in ImageRecord
  OBVIOUS
<1>3. start \in Conversion /\ start.images = <<>> /\ start.status = validateTensor(info, images)
  BY DEF Conversion, ImageStatus, validateTensor
<1>4. CASE start.status # "OK"
  <2>1. PICK h : ConvertSteps(start, info, images, n, {start}, h)
    <3>1. \A state \in {start}, i \in 1 .. n : ConvertImage(state, info, images[i], images[1]) \in {start}
      BY <1>4 DEF ConvertImage
    <3>2. start \in {start}
      OBVIOUS
    <3> HIDE DEF start, n
    <3> QED
      BY <1>2, <3>1, <3>2, ConvertImagesIs
  <2>2. h[n] = start /\ converted = h[n]
    BY <1>2, <2>1 DEF ConvertSteps
  <2>3. converted.status \in ImageStatus /\ converted.status # "OK"
    BY <1>3, <1>4, <2>2 DEF Conversion
  <2>4. made.status \in ImageStatus /\ made.status # "OK" /\ made.tensor = NoTensor
    <3> HIDE DEF converted, shape, copied
    <3> QED
      BY <1>1, <2>3
  <2> QED
    BY <2>4
<1>5. CASE start.status = "OK"
  <2>1. /\ validateLayout(info) /\ (Len(info.shape) = 4 \/ (info.demultiplexed /\ Len(info.shape) = 5))
        /\ getBatchIndex(info.layout) # 0 /\ match(info.shape[getBatchIndex(info.layout)], n)
    BY <1>3, <1>5 DEF validateTensor
  <2>2. getBatchIndex(info.layout) = 1
    BY <2>1, BatchIsFirst DEF IsInfo
  <2>3. /\ Height(info) \in [min : Int, max : Int] /\ IsDim(Height(info))
        /\ WidthOf(info) \in [min : Int, max : Int] /\ IsDim(WidthOf(info))
        /\ Channels(info) \in [min : Int, max : Int]
    <3> DEFINE D == [min : Int, max : Int]
    <3>1. info.shape \in Seq(D) /\ Len(info.shape) \in {4, 5} /\ \A i \in DOMAIN info.shape : IsDim(info.shape[i])
      BY <2>1 DEF IsInfo, IsShape
    <3> HIDE DEF D
    <3>2. \A i \in {Len(info.shape) - 2, Len(info.shape) - 1, Len(info.shape)} : i \in DOMAIN info.shape
      <4>1. DOMAIN info.shape = 1 .. Len(info.shape)
        BY <3>1
      <4>2. CASE Len(info.shape) = 4
        BY <4>1, <4>2
      <4>3. CASE Len(info.shape) = 5
        BY <4>1, <4>3
      <4> QED
        BY <3>1, <4>2, <4>3
    <3>3. \A i \in DOMAIN info.shape : info.shape[i] \in D
      BY <3>1
    <3> QED
      BY <3>1, <3>2, <3>3 DEF Height, WidthOf, Channels, D
  <2>4. first \in ImageRecord
    BY <1>2
  <2> DEFINE rows == Target(Height(info), first.rows)
             cols == Target(WidthOf(info), first.cols)
  <2>5. rows \in Int /\ cols \in Int /\ match(Height(info), rows) /\ match(WidthOf(info), cols)
    BY <2>3, <2>4, TargetIs DEF ImageRecord
  <2>6. PICK h : ConvertSteps(start, info, images, n, Conversion, h)
    <3>1. \A state \in Conversion, i \in 1 .. n : ConvertImage(state, info, images[i], images[1]) \in Conversion
      BY <1>2, <2>3, <2>4, ConvertImageIs
    <3> HIDE DEF start, n
    <3> QED
      BY <1>2, <1>3, <3>1, ConvertImagesIs
  <2> DEFINE T == {k \in Nat : k <= n /\ h[k].status = "OK" => Alike(info, h[k].images, first, k)}
  <2>7. 0 \in T
    BY <1>3, <2>6 DEF ConvertSteps, Alike
  <2>8. ASSUME NEW k \in Nat, k \in T PROVE k + 1 \in T
    <3>1. SUFFICES ASSUME k + 1 <= n, h[k + 1].status = "OK" PROVE Alike(info, h[k + 1].images, first, k + 1)
      OBVIOUS
    <3>2. k \in 0 .. n - 1 /\ k + 1 \in 1 .. n /\ k \in 0 .. n
      BY <1>2, <3>1
    <3>3. h[k + 1] = ConvertImage(h[k], info, images[k + 1], first) /\ h[k] \in Conversion /\ images[k + 1] \in ImageRecord
      BY <1>2, <2>6, <3>2 DEF ConvertSteps
    <3> DEFINE state == h[k]
               image == images[k + 1]
    <3> HIDE DEF first
    <3>4. /\ state.status = "OK" /\ validateNumberOfChannels(info, image, state.images)
          /\ h[k + 1].images = Append(state.images, Converted(info, image, first))
      <4> HIDE DEF state, image
      <4> QED
        <5>1. state \in Conversion /\ image \in ImageRecord
          BY <3>3 DEF state, image
        <5>2. ConvertImage(state, info, image, first).status = "OK" =>
                /\ state.status = "OK" /\ validateNumberOfChannels(info, image, state.images)
                /\ ConvertImage(state, info, image, first).images = Append(state.images, Converted(info, image, first))
          BY <2>3, <2>4, <5>1, ConvertImageIs
        <5> QED
          BY <3>1, <3>3, <5>2 DEF state, image
    <3>5. Alike(info, state.images, first, k) /\ state.images \in Seq(R)
      BY <2>8, <3>2, <3>3, <3>4 DEF Conversion
    <3> HIDE DEF state, image
    <3>6. Alike(info, Append(state.images, Converted(info, image, first)), first, k + 1)
      BY <2>5, <3>3, <3>4, <3>5, ConvertedIsAlike DEF image
    <3> QED
      BY <3>4, <3>6
  <2>9. n \in T
    <3> HIDE DEF T
    <3> QED
      BY <1>2, <2>7, <2>8, Induction
  <2>10. converted = h[n] /\ converted \in Conversion
    BY <1>2, <2>6 DEF ConvertSteps
  <2>11. CASE converted.status # "OK"
    <3>1. converted.status \in ImageStatus /\ converted.status # "OK"
      BY <2>10, <2>11 DEF Conversion
    <3>2. made.status \in ImageStatus /\ made.status # "OK" /\ made.tensor = NoTensor
      <4> HIDE DEF converted, shape, copied
      <4> QED
        BY <1>1, <3>1
    <3> QED
      BY <3>2
  <2>12. CASE converted.status = "OK"
    <3> DEFINE all == converted.images
               channels == all[1].channels
    <3>1. Alike(info, all, first, n) /\ all \in Seq(R)
      BY <1>2, <2>9, <2>10, <2>12 DEF Conversion
    <3> HIDE DEF all, converted, rows, cols, first, n
    <3>2. Len(all) = n /\ all[1] \in R /\ all[1].rows = rows /\ all[1].cols = cols /\ channels \in Nat /\ match(Channels(info), channels)
      <4>1. Len(all) = n /\ 1 \in 1 .. n
        BY <1>2, <3>1 DEF Alike
      <4>2. all[1] \in R
        <5> HIDE DEF R
        <5> QED
          BY <3>1, <4>1
      <4>3. all[1].rows = rows /\ all[1].cols = cols /\ match(Channels(info), channels)
        <5>1. /\ \A i \in 1 .. n : all[i].rows = rows /\ all[i].cols = cols
              /\ n > 0 => match(Channels(info), all[1].channels)
          BY <3>1 DEF Alike, rows, cols
        <5>2. n > 0
          BY <1>2
        <5> QED
          BY <4>1, <5>1, <5>2
      <4> QED
        BY <4>1, <4>2, <4>3
    <3>3. shape = IF info.demultiplexed THEN <<n, 1, rows, cols, channels>> ELSE <<n, rows, cols, channels>>
      BY <3>2 DEF getShapeFromImages, all
    <3> HIDE DEF shape, channels, copied
    <3>4. made.status = "OK" /\ made.tensor.read = copied /\ made.tensor.there = Volume(shape) /\ made.tensor.shape = shape
      BY <1>1, <2>12 DEF Tensor
    <3>5. \/ Matches(info.shape, shape, 0)
          \/ (info.demultiplexed /\ (Len(info.shape) # 5 \/ ~match(info.shape[2], 1)))
      <4>1. match(info.shape[1], n)
        BY <2>1, <2>2
      <4>2. CASE info.demultiplexed /\ Len(info.shape) = 5 /\ match(info.shape[2], 1)
        <5>1. match(info.shape[3], rows) /\ match(info.shape[4], cols) /\ match(info.shape[5], channels)
          <6>1. Height(info) = info.shape[3] /\ WidthOf(info) = info.shape[4] /\ Channels(info) = info.shape[5]
            BY <4>2 DEF Height, WidthOf, Channels
          <6> QED
            BY <2>5, <3>2, <6>1 DEF rows, cols
        <5>2. \A i \in DOMAIN info.shape : i \in {1, 2, 3, 4, 5}
          BY <4>2 DEF IsInfo, IsShape
        <5> QED
          <6>1. Len(shape) = 5 /\ shape[1] = n /\ shape[2] = 1 /\ shape[3] = rows /\ shape[4] = cols /\ shape[5] = channels
            BY <3>3, <4>2
          <6>2. \A i \in DOMAIN info.shape : match(info.shape[i], shape[i])
            BY <4>1, <4>2, <5>1, <5>2, <6>1
          <6> QED
            BY <4>2, <6>1, <6>2 DEF Matches
      <4>3. CASE ~info.demultiplexed
        <5>1. Len(info.shape) = 4
          BY <2>1, <4>3
        <5>2. match(info.shape[2], rows) /\ match(info.shape[3], cols) /\ match(info.shape[4], channels)
          <6>1. Height(info) = info.shape[2] /\ WidthOf(info) = info.shape[3] /\ Channels(info) = info.shape[4]
            BY <5>1 DEF Height, WidthOf, Channels
          <6> QED
            BY <2>5, <3>2, <6>1 DEF rows, cols
        <5>3. \A i \in DOMAIN info.shape : i \in {1, 2, 3, 4}
          BY <5>1 DEF IsInfo, IsShape
        <5> QED
          <6>1. Len(shape) = 4 /\ shape[1] = n /\ shape[2] = rows /\ shape[3] = cols /\ shape[4] = channels
            BY <3>3, <4>3
          <6>2. \A i \in DOMAIN info.shape : match(info.shape[i], shape[i])
            BY <4>1, <5>2, <5>3, <6>1
          <6> QED
            BY <5>1, <6>1, <6>2 DEF Matches
      <4> QED
        BY <4>2, <4>3
    <3>6. copied = Volume(shape) \/ (isDynamic(Channels(info)) /\ ~isAny(Channels(info)))
      <4> SUFFICES ASSUME ~(isDynamic(Channels(info)) /\ ~isAny(Channels(info))) PROVE copied = Volume(shape)
        OBVIOUS
      <4> DEFINE v == rows * cols * channels
                 terms == [i \in DOMAIN images |-> LET m == converted.images[i] IN m.rows * m.cols * m.channels]
      <4>1. \A i \in 1 .. n : all[i].rows = rows /\ all[i].cols = cols /\ all[i].channels = channels
        BY <3>1 DEF Alike, rows, cols, channels
      <4>2. DOMAIN terms = 1 .. n /\ \A i \in 1 .. n : terms[i] = v
        BY <1>2, <4>1 DEF all
      <4>3. v \in Int
        BY <2>5, <3>2
      <4>4. copied = n * v
        <5> HIDE DEF terms, v
        <5>1. Total(terms) = n * v
          BY <1>2, <4>2, <4>3, TotalIs
        <5> QED
          BY <5>1 DEF copied, terms
      <4>5. Volume(shape) = n * v
        <5>1. n \in Int /\ rows \in Int /\ cols \in Int /\ channels \in Int
          BY <1>2, <2>5, <3>2
        <5> QED
          <6>1. Volume(<<n, rows, cols, channels>>) = n * v /\ Volume(<<n, 1, rows, cols, channels>>) = n * v
            BY <5>1, VolumeOfFour
          <6>2. shape = <<n, rows, cols, channels>> \/ shape = <<n, 1, rows, cols, channels>>
            BY <3>3
          <6> HIDE DEF v
          <6> QED
            BY <6>1, <6>2
      <4> QED
        BY <4>4, <4>5
    <3> QED
      BY <3>4, <3>5, <3>6 DEF ImageStatus
  <2> QED
    BY <2>11, <2>12
<1> QED
  BY <1>4, <1>5

\* The inputs do not agree on the batch size or on its place.
Disagree(infos) ==
    LET place(i) == getBatchIndex(infos[i].layout)
        size(i) == Asked(infos[i].name).shape[place(i)]
    IN  case.batching = "AUTO" /\ \E i, j \in DOMAIN infos : place(i) # place(j) \/ size(i) # size(j)

\* What deserialization relies on, whether the servable was reloaded or not.
Ready(infos) ==
    /\ infos \in Seq(InfoRecord)
    /\ \A i \in DOMAIN infos :
          /\ IsInfo(infos[i]) /\ Measured(infos[i])
          /\ \/ checkIfBinaryInputUsed(Asked(infos[i].name))
             \/ Matches(infos[i].shape, Asked(infos[i].name).shape, 0)
             \/ Disagree(infos)

\* A finite set cannot be mapped one to one into a part of itself.
LEMMA InjectionReachesAll ==
    ASSUME NEW D, IsFiniteSet(D), NEW g \in Injection(D, D)
    PROVE  \A x \in D : \E i \in D : g[i] = x
<1>1. g \in Surjection(D, D)
  BY FS_Injection
<1> QED
  BY <1>1, Fun_SurjectionProperties

\* As many inputs as the servable has, and one for each of its names: each of
\* them once.
LEMMA EachOnce ==
    ASSUME IsRequest(case), servable = case.servable, case.optional = {}, validateNumberOfInputs(case.request) = "OK",
           \A i \in DOMAIN servable : Positions(case.request, servable[i].name) # {}
    PROVE  /\ \A x \in DOMAIN case.request.inputs : \E i \in DOMAIN servable : Min(Positions(case.request, servable[i].name)) = x
           /\ \A i \in DOMAIN servable :
                Positions(case.request, servable[i].name) = {Min(Positions(case.request, servable[i].name))}
<1> DEFINE m == Len(servable)
           inputs == case.request.inputs
           f == [i \in 1 .. m |-> Min(Positions(case.request, servable[i].name))]
<1>1. /\ m \in Nat /\ DOMAIN servable = 1 .. m
      /\ inputs \in Seq(InputRecord) /\ DOMAIN inputs = 1 .. Len(inputs) /\ Len(inputs) \in Nat
  BY DEF IsRequest
<1>2. Len(inputs) = m
  <2>1. {i \in DOMAIN inputs : inputs[i].name \in case.optional} = {} /\ {n \in case.optional : Positions(case.request, n) # {}} = {}
    OBVIOUS
  <2>2. Cardinality({}) = 0
    BY FS_EmptySet
  <2>3. inputs # <<>> /\ Len(servable) + 0 = Len(inputs)
    BY <2>1, <2>2 DEF validateNumberOfInputs
  <2> QED
    BY <1>1, <2>3
<1>3. \A i \in 1 .. m : f[i] \in 1 .. m /\ inputs[f[i]].name = servable[i].name
  <2> SUFFICES ASSUME NEW i \in 1 .. m
               PROVE  LET x == Min(Positions(case.request, servable[i].name)) IN x \in 1 .. m /\ inputs[x].name = servable[i].name
    OBVIOUS
  <2>1. Positions(case.request, servable[i].name) # {}
    BY <1>1
  <2> QED
    BY <1>1, <1>2, <2>1, PositionIs DEF Asked
<1>4. f \in [1 .. m -> 1 .. m]
  BY <1>3
<1>5. \A i, j \in 1 .. m : f[i] = f[j] => i = j
  <2> HIDE DEF f
  <2> SUFFICES ASSUME NEW i \in 1 .. m, NEW j \in 1 .. m, f[i] = f[j] PROVE i = j
    OBVIOUS
  <2>1. servable[i].name = servable[j].name
    BY <1>3
  <2>2. i \in DOMAIN servable /\ j \in DOMAIN servable /\ Distinct(servable)
    BY <1>1 DEF IsRequest
  <2> QED
    BY <2>1, <2>2 DEF Distinct
<1>6. \A x \in 1 .. m : \E i \in 1 .. m : f[i] = x
  <2> HIDE DEF f
  <2>1. f \in Injection(1 .. m, 1 .. m)
    BY <1>4, <1>5, Fun_IsInj
  <2>2. IsFiniteSet(1 .. m)
    BY <1>1, FS_Interval
  <2> DEFINE D == 1 .. m
  <2>4. IsFiniteSet(D) /\ f \in Injection(D, D)
    BY <2>1, <2>2
  <2> HIDE DEF D
  <2>5. \A x \in D : \E i \in D : f[i] = x
    BY <2>4, InjectionReachesAll
  <2> QED
    BY <2>5 DEF D
<1>7. \A x \in DOMAIN inputs : \E i \in DOMAIN servable : f[i] = x
  BY <1>1, <1>2, <1>6
<1>8. ASSUME NEW i \in DOMAIN servable
      PROVE  Positions(case.request, servable[i].name) = {f[i]}
  <2>1. f[i] \in Positions(case.request, servable[i].name)
    BY <1>1, <1>2, <1>3 DEF Positions
  <2>2. ASSUME NEW x \in Positions(case.request, servable[i].name) PROVE x = f[i]
    <3>1. x \in DOMAIN inputs /\ inputs[x].name = servable[i].name
      BY DEF Positions
    <3>2. PICK j \in DOMAIN servable : f[j] = x
      <4> HIDE DEF f
      <4> QED
        BY <1>7, <3>1
    <3>3. servable[j].name = servable[i].name
      BY <1>1, <1>3, <3>1, <3>2
    <3>4. i = j
      BY <3>3 DEF IsRequest, Distinct
    <3> QED
      BY <3>2, <3>4
  <2> QED
    BY <2>1, <2>2
<1> QED
  BY <1>1, <1>7, <1>8

-----------------------------------------------------------------------------
\* Deserialization

\* What deserializeInput gives for one input of a servable that is ready: all that
\* is there has been read, and the tensor is one the inference takes.
LEMMA DeserializedIs ==
    ASSUME IsRequest(case), Ready(servable), NEW i \in DOMAIN servable, NEW made, made = deserializeInput(case.request, servable[i])
    PROVE  /\ \/ made.tensor.read = made.tensor.there \/ Unbuffered(servable[i].name)
              \/ checkIfBinaryInputUsed(InputOf(i)) /\ isDynamic(Channels(servable[i])) /\ ~isAny(Channels(servable[i]))
           /\ made.status = "OV_INTERNAL_DESERIALIZATION_ERROR" =>
                \/ Disagree(servable)
                \/ /\ servable[i].demultiplexed /\ checkIfBinaryInputUsed(InputOf(i))
                   /\ (Len(servable[i].shape) # 5 \/ ~match(servable[i].shape[2], 1))
<1> DEFINE info == servable[i]
           input == Asked(info.name)
<1>1. info \in InfoRecord /\ IsInfo(info) /\ Measured(info) /\ InputOf(i) = input
  BY DEF Ready, InputOf, Asked
<1>2. CASE ~checkIfBinaryInputUsed(input)
  <2>1. /\ made.tensor.read = made.tensor.there \/ Unbuffered(servable[i].name)
        /\ made.status = "OV_INTERNAL_DESERIALIZATION_ERROR" => ~Matches(info.shape, input.shape, 0)
    <3> HIDE DEF info
    <3> QED
      BY <1>1, <1>2, ValuesAreRead DEF info
  <2>2. Matches(info.shape, input.shape, 0) \/ Disagree(servable)
    BY <1>2 DEF Ready
  <2> HIDE DEF info, input
  <2> QED
    BY <2>1, <2>2
<1>3. CASE checkIfBinaryInputUsed(input)
  <2> DEFINE images == input.images
             read == convertBinaryRequestTensorToOVTensor(info, images)
  <2>1. images \in Seq(ImageRecord) /\ images # <<>>
    <3>1. input \in InputRecord
      BY <1>1, PositionIs DEF IsRequest, Measured
    <3>2. images # <<>>
      BY <1>1, <1>3 DEF Measured
    <3> QED
      BY <3>1, <3>2 DEF InputRecord
  <2>2. made = IF read.status # "OK" THEN read
               ELSE IF read.tensor = NoTensor THEN [read EXCEPT !.status = "OV_UNSUPPORTED_DESERIALIZATION_PRECISION"]
               ELSE [read EXCEPT !.status = give(info, read.tensor)]
    BY <1>3 DEF deserializeInput, Asked
  <2>3. \E s, t : read = [status |-> s, tensor |-> t]
    BY DEF convertBinaryRequestTensorToOVTensor
  <2>4. /\ read.status \in ImageStatus
        /\ read.status # "OK" => read.tensor = NoTensor
        /\ read.status = "OK" =>
             /\ read.tensor.read = read.tensor.there \/ (isDynamic(Channels(info)) /\ ~isAny(Channels(info)))
             /\ \/ Matches(info.shape, read.tensor.shape, 0)
                \/ (info.demultiplexed /\ (Len(info.shape) # 5 \/ ~match(info.shape[2], 1)))
    <3> HIDE DEF info, images
    <3> QED
      BY <1>1, <2>1, ImagesAreRead
  <2> HIDE DEF read, info, input
  <2>5. made.tensor = read.tensor
    BY <2>2, <2>3
  <2>6. made.tensor.read = made.tensor.there \/ (isDynamic(Channels(info)) /\ ~isAny(Channels(info)))
    <3>1. NoTensor.read = NoTensor.there
      BY DEF NoTensor, Tensor
    <3> QED
      BY <2>4, <2>5, <3>1
  <2>7. made.status = "OV_INTERNAL_DESERIALIZATION_ERROR" => read.status = "OK" /\ ~Matches(info.shape, read.tensor.shape, 0)
    <3>1. CASE read.status # "OK"
      BY <2>2, <2>4, <3>1 DEF ImageStatus
    <3>2. CASE read.status = "OK" /\ read.tensor = NoTensor
      BY <2>2, <2>3, <3>2
    <3>3. CASE read.status = "OK" /\ read.tensor # NoTensor
      BY <2>2, <2>3, <3>3 DEF give
    <3> QED
      BY <3>1, <3>2, <3>3
  <2>8. /\ made.tensor.read = made.tensor.there \/
           (checkIfBinaryInputUsed(input) /\ isDynamic(Channels(info)) /\ ~isAny(Channels(info)))
        /\ made.status = "OV_INTERNAL_DESERIALIZATION_ERROR" =>
             (info.demultiplexed /\ checkIfBinaryInputUsed(input) /\ (Len(info.shape) # 5 \/ ~match(info.shape[2], 1)))
    BY <1>3, <2>4, <2>6, <2>7
  <2>9. info = servable[i] /\ input = InputOf(i)
    BY <1>1 DEF info, input
  <2> QED
    BY <2>8, <2>9
<1> QED
  BY <1>2, <1>3

\* The same of all inputs: deserializePredictRequest stops at the first failure.
LEMMA DeserializeKeeps ==
    ASSUME IsRequest(case), Ready(servable), NEW result, result = deserializePredictRequest(case.request)
    PROVE  /\ \A i \in DOMAIN servable :
                \/ result.tensors[i].read = result.tensors[i].there \/ Unbuffered(servable[i].name)
                \/ checkIfBinaryInputUsed(InputOf(i)) /\ isDynamic(Channels(servable[i])) /\ ~isAny(Channels(servable[i]))
           /\ result.status = "OV_INTERNAL_DESERIALIZATION_ERROR" =>
                \/ Disagree(servable)
                \/ \E i \in DOMAIN servable :
                      /\ servable[i].demultiplexed /\ checkIfBinaryInputUsed(InputOf(i))
                      /\ (Len(servable[i].shape) # 5 \/ ~match(servable[i].shape[2], 1))
<1> DEFINE inputs == [i \in DOMAIN servable |-> deserializeInput(case.request, servable[i])]
           statuses == [i \in DOMAIN inputs |-> inputs[i].status]
<1>1. result.status = FirstError(statuses) /\ \A i \in DOMAIN servable : result.tensors[i] = inputs[i].tensor
  BY DEF deserializePredictRequest
<1>2. \A i \in DOMAIN servable :
         /\ \/ inputs[i].tensor.read = inputs[i].tensor.there \/ Unbuffered(servable[i].name)
            \/ checkIfBinaryInputUsed(InputOf(i)) /\ isDynamic(Channels(servable[i])) /\ ~isAny(Channels(servable[i]))
         /\ inputs[i].status = "OV_INTERNAL_DESERIALIZATION_ERROR" =>
              \/ Disagree(servable)
              \/ /\ servable[i].demultiplexed /\ checkIfBinaryInputUsed(InputOf(i))
                 /\ (Len(servable[i].shape) # 5 \/ ~match(servable[i].shape[2], 1))
  BY DeserializedIs
<1>3. DOMAIN statuses \subseteq Nat /\ DOMAIN statuses = DOMAIN servable
  BY DEF Ready
<1>4. FirstError(statuses) # "OK" => \E i \in DOMAIN statuses : FirstError(statuses) = statuses[i]
  <2> HIDE DEF statuses
  <2> QED
    BY <1>3, FirstErrorIs
<1>5. \A i \in DOMAIN servable : statuses[i] = inputs[i].status
  OBVIOUS
<1> HIDE DEF inputs, statuses
<1>6. \A i \in DOMAIN servable :
         \/ result.tensors[i].read = result.tensors[i].there \/ Unbuffered(servable[i].name)
         \/ checkIfBinaryInputUsed(InputOf(i)) /\ isDynamic(Channels(servable[i])) /\ ~isAny(Channels(servable[i]))
  BY <1>1, <1>2
<1>7. ASSUME result.status = "OV_INTERNAL_DESERIALIZATION_ERROR", ~Disagree(servable)
      PROVE  \E i \in DOMAIN servable :
                /\ servable[i].demultiplexed /\ checkIfBinaryInputUsed(InputOf(i))
                /\ (Len(servable[i].shape) # 5 \/ ~match(servable[i].shape[2], 1))
  <2>1. FirstError(statuses) # "OK"
    BY <1>1, <1>7
  <2>2. PICK i \in DOMAIN servable : inputs[i].status = "OV_INTERNAL_DESERIALIZATION_ERROR"
    BY <1>1, <1>3, <1>4, <1>5, <1>7, <2>1
  <2> QED
    BY <1>2, <1>7, <2>2
<1> QED
  BY <1>6, <1>7

\* The greatest of one number.
LEMMA MaxOfOne ==
    ASSUME NEW x \in Nat
    PROVE  Max({x}) = x
BY DEF Max

\* A request that is accepted, or asks for a change, has passed every check but
\* those that ask for the change, and one of these gave its status
\* (RequestValidator::validate).
LEMMA ValidatedIs ==
    ASSUME servable \in Seq(InfoRecord), validate(case.request) \in Changes \cup {"OK"}
    PROVE  /\ validateNumberOfInputs(case.request) = "OK"
           /\ \A i \in DOMAIN servable : \A k \in DOMAIN validateInput(case.request, servable[i]) :
                 /\ validateInput(case.request, servable[i])[k] \in Changes \cup {"OK"}
                 /\ validate(case.request) = "OK" => validateInput(case.request, servable[i])[k] = "OK"
           /\ validate(case.request) # "OK" => \E i \in DOMAIN servable : \E k \in DOMAIN validateInput(case.request, servable[i]) :
                 validate(case.request) = validateInput(case.request, servable[i])[k]
<1>1. validateNumberOfInputs(case.request) = "OK"
  BY ValidateIs
<1>2. \A i \in DOMAIN servable : \A k \in DOMAIN validateInput(case.request, servable[i]) :
         /\ validateInput(case.request, servable[i])[k] \in Changes \cup {"OK"}
         /\ validate(case.request) = "OK" => validateInput(case.request, servable[i])[k] = "OK"
  BY ValidateIs
<1>3. validate(case.request) # "OK" => \E i \in DOMAIN servable : \E k \in DOMAIN validateInput(case.request, servable[i]) :
         validate(case.request) = validateInput(case.request, servable[i])[k]
  BY ValidateIs
<1> QED
  BY <1>1, <1>2, <1>3

\* What validation has seen when it asks for nothing or for a reload.
LEMMA ValidatedIsChecked ==
    ASSUME IsRequest(case), servable = case.servable, validate(case.request) \in Changes \cup {"OK"}
    PROVE  /\ validateNumberOfInputs(case.request) = "OK"
           /\ \A i \in DOMAIN servable : servable[i] \in InfoRecord /\ IsInfo(servable[i]) /\ Checked(servable[i])
           /\ validate(case.request) = "OK" => Ready(servable)
           /\ validate(case.request) = "BATCHSIZE_CHANGE_REQUIRED" => case.batching = "AUTO"
           /\ validate(case.request) = "RESHAPE_REQUIRED" => \E i \in DOMAIN servable : servable[i].auto
<1> DEFINE status == validate(case.request)
<1>1. /\ validateNumberOfInputs(case.request) = "OK"
      /\ \A i \in DOMAIN servable : \A k \in DOMAIN validateInput(case.request, servable[i]) :
            /\ validateInput(case.request, servable[i])[k] \in Changes \cup {"OK"}
            /\ status = "OK" => validateInput(case.request, servable[i])[k] = "OK"
      /\ status # "OK" => \E i \in DOMAIN servable : \E k \in DOMAIN validateInput(case.request, servable[i]) :
            status = validateInput(case.request, servable[i])[k]
  <2>1. servable \in Seq(InfoRecord) /\ status \in Changes \cup {"OK"}
    BY DEF IsRequest
  <2> QED
    BY <2>1, ValidatedIs
<1> HIDE DEF status
<1>2. ASSUME NEW i \in DOMAIN servable
      PROVE  servable[i] \in InfoRecord /\ IsInfo(servable[i]) /\ Checked(servable[i])
  <2>1. servable[i] \in InfoRecord /\ IsInfo(servable[i])
    <3>1. servable \in Seq(InfoRecord) /\ \A k \in DOMAIN servable : IsInfo(servable[k])
      BY DEF IsRequest
    <3> QED
      BY <3>1
  <2> DEFINE info == servable[i]
  <2>2. \A k \in DOMAIN validateInput(case.request, info) : validateInput(case.request, info)[k] \in Changes \cup {"OK"}
    BY <1>1
  <2> HIDE DEF info
  <2>3. Checked(info)
    BY <2>1, <2>2, InputIsChecked DEF info
  <2> QED
    BY <2>1, <2>3 DEF info
<1>3. ASSUME status = "OK" PROVE Ready(servable)
  <2> SUFFICES ASSUME NEW i \in DOMAIN servable, ~checkIfBinaryInputUsed(Asked(servable[i].name))
               PROVE  Matches(servable[i].shape, Asked(servable[i].name).shape, 0)
    <3>1. servable \in Seq(InfoRecord)
      BY DEF IsRequest
    <3> QED
      BY <1>2, <3>1, CheckedIsMeasured DEF Ready
  <2> DEFINE info == servable[i]
             input == Asked(info.name)
             batch == getBatchIndex(info.layout)
  <2>1. CheckedValues(info)
    BY <1>2 DEF Checked
  <2>2. /\ Len(input.shape) = Len(info.shape)
        /\ validateInput(case.request, info) =
             <<checkBatchSizeMismatch(info.shape[batch], input.shape[batch], info), checkShapeMismatch(input, info, batch), "OK">>
    BY <2>1 DEF CheckedValues
  <2>3. checkBatchSizeMismatch(info.shape[batch], input.shape[batch], info) = "OK" /\ checkShapeMismatch(input, info, batch) = "OK"
    <3>1. \A k \in DOMAIN validateInput(case.request, info) : validateInput(case.request, info)[k] = "OK"
      BY <1>1, <1>3
    <3> HIDE DEF info, input, batch
    <3> QED
      BY <2>2, <3>1
  <2> HIDE DEF info, input, batch
  <2>4. Matches(info.shape, input.shape, IF case.batching = "AUTO" THEN batch ELSE 0)
    BY <2>3 DEF checkShapeMismatch
  <2>5. case.batching = "AUTO" => match(info.shape[batch], input.shape[batch])
    BY <2>3 DEF checkBatchSizeMismatch
  <2>6. \A d \in DOMAIN info.shape : match(info.shape[d], input.shape[d]) \/ d = 0
    BY <2>4, <2>5 DEF Matches
  <2>7. Matches(info.shape, input.shape, 0)
    BY <2>2, <2>6 DEF Matches
  <2> QED
    BY <2>7 DEF info, input
<1>4. ASSUME NEW s \in Changes, status = s
      PROVE  \E i \in DOMAIN servable : \/ s = "BATCHSIZE_CHANGE_REQUIRED" /\ case.batching = "AUTO"
                                        \/ s = "RESHAPE_REQUIRED" /\ servable[i].auto
  <2>1. s # "OK"
    BY DEF Changes
  <2>2. PICK i \in DOMAIN servable : \E k \in DOMAIN validateInput(case.request, servable[i]) :
            s = validateInput(case.request, servable[i])[k]
    BY <1>1, <1>4, <2>1
  <2> DEFINE info == servable[i]
             input == Asked(info.name)
             batch == getBatchIndex(info.layout)
  <2>3. s \in {checkBatchSizeMismatch(info.shape[batch], input.shape[1], info),
             checkBatchSizeMismatch(info.shape[batch], input.shape[batch], info),
               checkShapeMismatch(input, info, batch)}
    <3>1. Checked(info)
      BY <1>2
    <3>2. PICK k \in DOMAIN validateInput(case.request, info) : s = validateInput(case.request, info)[k]
      BY <2>2
    <3> HIDE DEF info
    <3>3. CASE checkIfBinaryInputUsed(input)
      <4>1. validateInput(case.request, info) = <<checkBatchSizeMismatch(info.shape[batch], input.shape[1], info)>>
        BY <3>1, <3>3 DEF Checked, CheckedBinary
      <4> HIDE DEF input, batch
      <4> QED
        BY <3>2, <4>1
    <3>4. CASE ~checkIfBinaryInputUsed(input)
      <4>1. validateInput(case.request, info) =
             <<checkBatchSizeMismatch(info.shape[batch], input.shape[batch], info), checkShapeMismatch(input, info, batch), "OK">>
        BY <3>1, <3>4 DEF Checked, CheckedValues
      <4> HIDE DEF input, batch
      <4> QED
        BY <2>1, <3>2, <4>1
    <3> QED
      BY <3>3, <3>4
  <2> HIDE DEF input, batch
  <2>4. \A dim, value : checkBatchSizeMismatch(dim, value, info) \in {"OK", "INVALID_BATCH_SIZE"} \cup
                                       {"BATCHSIZE_CHANGE_REQUIRED" : x \in {y \in {0} : case.batching = "AUTO"}}
    BY DEF checkBatchSizeMismatch
  <2>5. \/ checkShapeMismatch(input, info, batch) = "RESHAPE_REQUIRED" /\ info.auto
        \/ checkShapeMismatch(input, info, batch) \in {"OK", "INVALID_SHAPE"}
    BY DEF checkShapeMismatch
  <2>6. s \in {"BATCHSIZE_CHANGE_REQUIRED", "RESHAPE_REQUIRED"}
    BY DEF Changes
  <2> QED
    BY <2>3, <2>4, <2>5, <2>6
<1> QED
  <2>1. {"BATCHSIZE_CHANGE_REQUIRED", "RESHAPE_REQUIRED"} \subseteq Changes
    BY DEF Changes
  <2> QED
    BY <1>1, <1>2, <1>3, <1>4, <2>1 DEF status

\* Each input of the servable is asked for once, and none else is.
LEMMA CheckedIsEachOnce ==
    ASSUME IsRequest(case), servable = case.servable, case.optional = {}, validate(case.request) \in Changes \cup {"OK"}
    PROVE  /\ \A x \in DOMAIN case.request.inputs : \E i \in DOMAIN servable : Min(Positions(case.request, servable[i].name)) = x
           /\ \A i \in DOMAIN servable :
                Positions(case.request, servable[i].name) = {Min(Positions(case.request, servable[i].name))}
<1>1. validateNumberOfInputs(case.request) = "OK" /\ \A i \in DOMAIN servable : Checked(servable[i])
  BY ValidatedIsChecked
<1>2. \A i \in DOMAIN servable : Positions(case.request, servable[i].name) # {}
  BY <1>1 DEF Checked
<1> QED
  BY <1>1, <1>2, EachOnce

\* A description that only has another shape.
LEMMA OtherShape ==
    ASSUME NEW info \in InfoRecord, IsInfo(info), Measured(info), NEW shape \in Seq([min : Int, max : Int]),
           \A d \in DOMAIN shape : IsDim(shape[d]), NEW other, other = [info EXCEPT !.shape = shape]
    PROVE  /\ other \in InfoRecord /\ IsInfo(other) /\ Measured(other) /\ other.name = info.name
           /\ other.layout = info.layout /\ other.shape = shape
<1>1. /\ other.name = info.name /\ other.layout = info.layout /\ other.shape = shape /\ other.precision = info.precision
      /\ other.auto = info.auto /\ other.demultiplexed = info.demultiplexed
  BY DEF InfoRecord
<1>2. other \in InfoRecord
  <2> DEFINE D == Seq([min : Int, max : Int])
  <2>1. shape \in D
    OBVIOUS
  <2>2. InfoRecord = [name : STRING, precision : Precisions, shape : D, layout : Seq(Letters), auto : BOOLEAN, demultiplexed : BOOLEAN]
    BY DEF InfoRecord
  <2> HIDE DEF D
  <2> QED
    BY <2>1, <2>2
<1>3. IsInfo(other)
  BY <1>1 DEF IsInfo, IsShape
<1>4. Measured(other)
  BY <1>1 DEF Measured, validateTensorContentSize
<1> QED
  BY <1>1, <1>2, <1>3, <1>4

\* A dimension of one value is not empty and takes that value.
LEMMA StaticIs ==
    ASSUME NEW v \in Int, v > 0
    PROVE  Static(v) \in [min : Int, max : Int] /\ IsDim(Static(v)) /\ match(Static(v), v)
BY DEF Static, Range2, IsDim, match, isAny, isDynamic, AnyDim

\* Reloaded for the batch size of the request, the servable is ready for it
\* (ModelInstance::reloadModelIfRequired, getRequestBatchSize).
LEMMA ReloadedBatchIsReady ==
    ASSUME IsRequest(case), servable = case.servable, validate(case.request) = "BATCHSIZE_CHANGE_REQUIRED",
           NEW n \in RequestBatchSizes(case.request), NEW infos, infos = WithBatchSize(n)
    PROVE  Ready(infos)
<1> DEFINE inputs == case.request.inputs
           place(i) == getBatchIndex(servable[i].layout)
           size(i) == Asked(servable[i].name).shape[place(i)]
<1>1. /\ case.batching = "AUTO" /\ case.optional = {} /\ \A i \in DOMAIN servable : ~servable[i].auto
      /\ validate(case.request) \in Changes \cup {"OK"}
  <2>1. "BATCHSIZE_CHANGE_REQUIRED" \in Changes
    BY DEF Changes
  <2> QED
    BY <2>1, ValidatedIsChecked DEF IsRequest
<1>2. \A i \in DOMAIN servable : servable[i] \in InfoRecord /\ IsInfo(servable[i]) /\ Checked(servable[i]) /\ Measured(servable[i])
  BY <1>1, ValidatedIsChecked, CheckedIsMeasured
<1>3. servable \in Seq(InfoRecord)
  BY DEF IsRequest
<1>4. PICK x \in DOMAIN inputs : n = inputs[x].shape[place(1)] /\ place(1) \in DOMAIN inputs[x].shape
  <2>1. inputs # <<>>
    BY <1>1, ValidatedIsChecked DEF validateNumberOfInputs
  <2>2. 1 \in DOMAIN inputs
    BY <2>1 DEF IsRequest
  <2> QED
    BY <2>2 DEF RequestBatchSizes
<1>5. PICK j \in DOMAIN servable : Asked(servable[j].name) = inputs[x]
  BY <1>1, CheckedIsEachOnce DEF Asked
<1>6. n \in Int /\ n > 0
  <2>1. \A d \in DOMAIN inputs[x].shape : inputs[x].shape[d] > 0
    BY <1>2, <1>5 DEF Checked
  <2>2. inputs[x] \in InputRecord
    BY DEF IsRequest
  <2>3. inputs[x].shape \in Seq(Int)
    BY <2>2 DEF InputRecord
  <2> HIDE DEF inputs, place
  <2> QED
    BY <1>4, <2>1, <2>3
<1>7. ASSUME NEW i \in DOMAIN servable
      PROVE  /\ infos[i] \in InfoRecord /\ IsInfo(infos[i]) /\ Measured(infos[i])
             /\ infos[i].name = servable[i].name /\ infos[i].layout = servable[i].layout
             /\ infos[i].shape = [servable[i].shape EXCEPT ![place(i)] = Static(n)]
  <2> DEFINE info == servable[i]
             b == getBatchIndex(info.layout)
             shape == [info.shape EXCEPT ![b] = Static(n)]
  <2>1. info.shape \in Seq([min : Int, max : Int]) /\ b \in DOMAIN info.shape /\ \A d \in DOMAIN info.shape : IsDim(info.shape[d])
    BY <1>2 DEF IsInfo, IsShape, Checked
  <2>2. infos[i] = [info EXCEPT !.shape = shape]
    BY DEF WithBatchSize
  <2>3. shape \in Seq([min : Int, max : Int]) /\ \A d \in DOMAIN shape : IsDim(shape[d])
    <3> DEFINE D == [min : Int, max : Int]
    <3>1. Static(n) \in D /\ IsDim(Static(n)) /\ info.shape \in Seq(D)
      BY <1>6, <2>1, StaticIs
    <3> HIDE DEF D, info, b
    <3>2. shape \in Seq(D) /\ DOMAIN shape = DOMAIN info.shape
      BY <2>1, <3>1
    <3>3. \A d \in DOMAIN shape : shape[d] = IF d = b THEN Static(n) ELSE info.shape[d]
      BY <2>1
    <3>4. \A d \in DOMAIN shape : IsDim(shape[d])
      BY <2>1, <3>1, <3>2, <3>3
    <3> QED
      BY <3>2, <3>4 DEF D
  <2>4. info \in InfoRecord /\ IsInfo(info) /\ Measured(info)
    BY <1>2
  <2> HIDE DEF info, shape
  <2>5. /\ infos[i] \in InfoRecord /\ IsInfo(infos[i]) /\ Measured(infos[i]) /\ infos[i].name = info.name
        /\ infos[i].layout = info.layout /\ infos[i].shape = shape
    BY <2>2, <2>3, <2>4, OtherShape
  <2> QED
    BY <2>5 DEF info, shape
<1>8. DOMAIN infos = DOMAIN servable /\ infos \in Seq(InfoRecord)
  <2>1. DOMAIN infos = DOMAIN servable
    BY DEF WithBatchSize
  <2>2. infos = [i \in 1 .. Len(servable) |-> infos[i]] /\ DOMAIN servable = 1 .. Len(servable) /\ Len(servable) \in Nat
    BY <1>3 DEF WithBatchSize
  <2>3. \A i \in 1 .. Len(servable) : infos[i] \in InfoRecord
    BY <1>7, <2>2
  <2> QED
    BY <2>1, <2>2, <2>3
<1>9. ASSUME NEW i \in DOMAIN servable, ~checkIfBinaryInputUsed(Asked(infos[i].name)), ~Disagree(infos)
      PROVE  Matches(infos[i].shape, Asked(infos[i].name).shape, 0)
  <2> DEFINE info == servable[i]
             input == Asked(info.name)
             b == getBatchIndex(info.layout)
  <2>1. /\ Len(input.shape) = Len(info.shape) /\ checkShapeMismatch(input, info, b) \in Changes \cup {"OK"}
    <3>1. CheckedValues(info)
      BY <1>2, <1>7, <1>9 DEF Checked
    <3>2. validateInput(case.request, info) =
             <<checkBatchSizeMismatch(info.shape[b], input.shape[b], info), checkShapeMismatch(input, info, b), "OK">>
      BY <3>1 DEF CheckedValues
    <3>3. \A k \in DOMAIN validateInput(case.request, info) : validateInput(case.request, info)[k] \in Changes \cup {"OK"}
      BY <1>1, <1>3, ValidatedIs
    <3> HIDE DEF info, input, b
    <3> QED
      BY <3>1, <3>2, <3>3 DEF CheckedValues, input
  <2>2. Matches(info.shape, input.shape, b)
    <3>1. ~info.auto
      BY <1>1
    <3>2. "INVALID_SHAPE" \notin Changes \cup {"OK"}
      BY DEF Changes
    <3> QED
      BY <1>1, <2>1, <3>1, <3>2 DEF checkShapeMismatch
  <2>3. input.shape[b] = n
    <3>1. \A k, l \in DOMAIN infos : place(k) = place(l) /\ size(k) = size(l)
      <4> SUFFICES ASSUME NEW k \in DOMAIN infos, NEW l \in DOMAIN infos PROVE place(k) = place(l) /\ size(k) = size(l)
        OBVIOUS
      <4>1. /\ getBatchIndex(infos[k].layout) = getBatchIndex(infos[l].layout)
            /\ Asked(infos[k].name).shape[getBatchIndex(infos[k].layout)] = Asked(infos[l].name).shape[getBatchIndex(infos[l].layout)]
        BY <1>1, <1>9 DEF Disagree
      <4>2. \A m \in {k, l} : infos[m].layout = servable[m].layout /\ infos[m].name = servable[m].name
        BY <1>7, <1>8
      <4> QED
        BY <4>1, <4>2
    <3>2. 1 \in DOMAIN servable
      BY <1>3
    <3>3. size(i) = size(j) /\ place(j) = place(1)
      BY <1>8, <3>1, <3>2
    <3> QED
      BY <1>4, <1>5, <3>3
  <2>4. infos[i].shape = [info.shape EXCEPT ![b] = Static(n)] /\ Asked(infos[i].name) = input
    BY <1>7
  <2>5. info.shape \in Seq([min : Int, max : Int])
    BY <1>2 DEF IsInfo, IsShape
  <2> HIDE DEF info, input, b
  <2>6. \A d \in DOMAIN infos[i].shape : match(infos[i].shape[d], input.shape[d])
    <3>1. match(Static(n), n)
      BY <1>6, StaticIs
    <3> QED
      BY <2>2, <2>3, <2>4, <3>1 DEF Matches
  <2>7. Len(infos[i].shape) = Len(input.shape)
    BY <2>1, <2>4, <2>5
  <2> QED
    BY <2>4, <2>6, <2>7 DEF Matches
<1> QED
  BY <1>7, <1>8, <1>9 DEF Ready

\* Reloaded for the shapes of the request, the servable is ready for it
\* (ModelInstance::reloadModelIfRequired, getRequestShapes).
LEMMA ReloadedShapesAreReady ==
    ASSUME IsRequest(case), servable = case.servable, validate(case.request) = "RESHAPE_REQUIRED",
           NEW infos, infos = WithRequestShapes(case.request)
    PROVE  Ready(infos)
<1>1. /\ case.batching # "AUTO" /\ case.optional = {} /\ validate(case.request) \in Changes \cup {"OK"}
  <2>1. "RESHAPE_REQUIRED" \in Changes
    BY DEF Changes
  <2>2. \E i \in DOMAIN servable : servable[i].auto
    BY <2>1, ValidatedIsChecked
  <2> QED
    BY <2>1, <2>2 DEF IsRequest
<1>2. \A i \in DOMAIN servable : servable[i] \in InfoRecord /\ IsInfo(servable[i]) /\ Checked(servable[i]) /\ Measured(servable[i])
  BY <1>1, ValidatedIsChecked, CheckedIsMeasured
<1>3. servable \in Seq(InfoRecord)
  BY DEF IsRequest
<1>4. ASSUME NEW i \in DOMAIN servable
      PROVE  /\ Asked(servable[i].name).shape \in Seq(Int)
             /\ \A d \in DOMAIN Asked(servable[i].name).shape : Asked(servable[i].name).shape[d] > 0
             /\ case.request.inputs[Max(Positions(case.request, servable[i].name))] = Asked(servable[i].name)
  <2> DEFINE p == Positions(case.request, servable[i].name)
  <2>1. p = {Min(p)} /\ p # {} /\ \A d \in DOMAIN Asked(servable[i].name).shape : Asked(servable[i].name).shape[d] > 0
    BY <1>1, <1>2, CheckedIsEachOnce DEF Checked
  <2>2. Min(p) \in DOMAIN case.request.inputs /\ Asked(servable[i].name) \in InputRecord
    BY <2>1, PositionIs DEF IsRequest
  <2>3. Min(p) \in Nat
    BY <2>2 DEF IsRequest
  <2>4. Max(p) = Min(p)
    <3> HIDE DEF p
    <3> QED
      BY <2>1, <2>3, MaxOfOne
  <2> QED
    BY <2>1, <2>2, <2>4 DEF Asked, InputRecord
<1>5. ASSUME NEW i \in DOMAIN servable
      PROVE  /\ infos[i] \in InfoRecord /\ IsInfo(infos[i]) /\ Measured(infos[i]) /\ infos[i].name = servable[i].name
             /\ IF servable[i].auto
                THEN infos[i].shape = [d \in DOMAIN Asked(servable[i].name).shape |-> Static(Asked(servable[i].name).shape[d])]
                ELSE infos[i] = servable[i]
  <2> DEFINE info == servable[i]
             given == Asked(info.name).shape
             shape == [d \in DOMAIN given |-> Static(given[d])]
  <2>1. infos[i] = IF info.auto THEN [info EXCEPT !.shape = shape] ELSE info
    BY <1>4 DEF WithRequestShapes
  <2>2. shape \in Seq([min : Int, max : Int]) /\ \A d \in DOMAIN shape : IsDim(shape[d])
    <3> DEFINE D == [min : Int, max : Int]
    <3>1. given \in Seq(Int) /\ \A d \in DOMAIN given : given[d] > 0
      BY <1>4
    <3> HIDE DEF given
    <3>2. \A d \in DOMAIN given : Static(given[d]) \in D /\ IsDim(Static(given[d]))
      <4>1. \A d \in DOMAIN given : given[d] \in Int /\ given[d] > 0
        BY <3>1
      <4>2. \A v \in Int : v > 0 => Static(v) \in D /\ IsDim(Static(v))
        BY StaticIs
      <4> QED
        BY <4>1, <4>2
    <3> HIDE DEF D
    <3>3. DOMAIN given = 1 .. Len(given) /\ Len(given) \in Nat
      BY <3>1
    <3>4. shape \in [1 .. Len(given) -> D]
      BY <3>2, <3>3
    <3>5. shape \in Seq(D)
      BY <3>3, <3>4
    <3> QED
      BY <3>2, <3>5 DEF D
  <2>3. info \in InfoRecord /\ IsInfo(info) /\ Measured(info)
    BY <1>2
  <2> HIDE DEF info, shape
  <2>4. CASE info.auto
    <3>1. infos[i] = [info EXCEPT !.shape = shape]
      BY <2>1, <2>4
    <3>2. infos[i] \in InfoRecord /\ IsInfo(infos[i]) /\ Measured(infos[i]) /\ infos[i].name = info.name /\ infos[i].shape = shape
      BY <2>2, <2>3, <3>1, OtherShape
    <3> QED
      BY <2>4, <3>2 DEF info, shape
  <2>5. CASE ~info.auto
    BY <2>1, <2>3, <2>5 DEF info
  <2> QED
    BY <2>4, <2>5
<1>6. DOMAIN infos = DOMAIN servable /\ infos \in Seq(InfoRecord)
  <2>1. DOMAIN infos = DOMAIN servable
    BY DEF WithRequestShapes
  <2>2. infos = [i \in 1 .. Len(servable) |-> infos[i]] /\ DOMAIN servable = 1 .. Len(servable) /\ Len(servable) \in Nat
    <3>1. DOMAIN servable = 1 .. Len(servable) /\ Len(servable) \in Nat
      BY <1>3
    <3>2. infos = [i \in DOMAIN servable |-> infos[i]]
      BY Zenon DEF WithRequestShapes
    <3> QED
      BY <3>1, <3>2
  <2>3. \A i \in 1 .. Len(servable) : infos[i] \in InfoRecord
    BY <1>5, <2>2
  <2> QED
    BY <2>1, <2>2, <2>3
<1>7. ASSUME NEW i \in DOMAIN servable, ~checkIfBinaryInputUsed(Asked(infos[i].name))
      PROVE  Matches(infos[i].shape, Asked(infos[i].name).shape, 0)
  <2> DEFINE info == servable[i]
             input == Asked(info.name)
             b == getBatchIndex(info.layout)
  <2>1. Asked(infos[i].name) = input
    BY <1>5
  <2>2. CASE info.auto
    <3>1. input.shape \in Seq(Int) /\ \A d \in DOMAIN input.shape : input.shape[d] > 0
      BY <1>4
    <3>2. infos[i].shape = [d \in DOMAIN input.shape |-> Static(input.shape[d])]
      BY <1>5, <2>2
    <3> HIDE DEF input
    <3>3. \A d \in DOMAIN input.shape : match(Static(input.shape[d]), input.shape[d])
      <4>1. \A d \in DOMAIN input.shape : input.shape[d] \in Int /\ input.shape[d] > 0
        BY <3>1
      <4>2. \A v \in Int : v > 0 => match(Static(v), v)
        BY StaticIs
      <4> QED
        BY <4>1, <4>2
    <3>4. Len(infos[i].shape) = Len(input.shape)
      BY <3>1, <3>2
    <3>5. \A d \in DOMAIN infos[i].shape : match(infos[i].shape[d], input.shape[d])
      BY <3>2, <3>3
    <3> QED
      BY <2>1, <3>4, <3>5 DEF Matches
  <2>3. CASE ~info.auto
    <3>1. CheckedValues(info)
      BY <1>2, <1>7, <2>1 DEF Checked
    <3>2. validateInput(case.request, info) =
             <<checkBatchSizeMismatch(info.shape[b], input.shape[b], info), checkShapeMismatch(input, info, b), "OK">>
      BY <3>1 DEF CheckedValues
    <3>3. \A k \in DOMAIN validateInput(case.request, info) : validateInput(case.request, info)[k] \in Changes \cup {"OK"}
      BY <1>1, <1>3, ValidatedIs
    <3>4. checkShapeMismatch(input, info, b) \in Changes \cup {"OK"}
      <4> HIDE DEF info, input, b
      <4> QED
        BY <3>2, <3>3
    <3>5. "INVALID_SHAPE" \notin Changes \cup {"OK"}
      BY DEF Changes
    <3>6. Matches(info.shape, input.shape, 0)
      BY <1>1, <2>3, <3>4, <3>5 DEF checkShapeMismatch
    <3> QED
      BY <1>5, <2>3, <3>6
  <2> QED
    BY <2>2, <2>3
<1> QED
  BY <1>5, <1>6, <1>7 DEF Ready

-----------------------------------------------------------------------------
\* The requests: validated, reloaded for and deserialized

ExchangeInv ==
    /\ IsExchange(case)
    /\ stage \in {"fits", "misfit", "deserialized"} => case.what = "request"
    /\ stage \in {"start", "misfit"} /\ case.what = "request" => servable = case.servable
    /\ stage = "misfit" => outcome.status = validate(case.request) /\ outcome.status \in Changes
    /\ stage = "fits" => Ready(servable)
    /\ ReadsWhatWasMeasured /\ AcceptedIsTaken

\* A step that only touches the request leaves this as it is.
LEMMA ReadyIsKept ==
    ASSUME NEW infos, Ready(infos), case' = case, servable' = infos
    PROVE  Ready(servable)'
<1>1. Disagree(infos) => Disagree(servable)'
  BY DEF Disagree, Asked
<1>2. \A i \in DOMAIN infos : Measured(infos[i]) => Measured(servable[i])'
  BY DEF Measured, Asked, validateTensorContentSize
<1> QED
  BY <1>1, <1>2 DEF Ready, Asked

\* Between validation and inference (ModelInstance::validate,
\* reloadModelIfRequired and infer) the servable is ready for the request,
\* whether it was reloaded for it or not, for any request and any servable.
THEOREM ExchangeIsInv == ExchangeSpec => []ExchangeInv
<1>1. ExchangeInit => ExchangeInv
  BY DEF ExchangeInit, ExchangeInv, ReadsWhatWasMeasured, AcceptedIsTaken
<1>2. ASSUME ExchangeInv, [ExchangeNext]_exchangeVars
      PROVE  ExchangeInv'
  <2>1. case' = case
    BY <1>2
       DEF ExchangeNext, exchangeVars, Validate, ReloadBatchSize, ReloadShapes, ReloadFails,
           Deserialize, Serialize, MakeJson, Intersect
  <2>2. IsExchange(case)'
    BY <1>2, <2>1 DEF ExchangeInv, IsExchange, IsRequest, IsResponse, IsPair
  <2>3. CASE Validate
    <3>1. IsRequest(case) /\ servable = case.servable /\ case.what = "request" /\ servable' = servable
      BY <1>2, <2>3 DEF Validate, ExchangeInv, IsExchange
    <3>2. /\ outcome'.status = validate(case.request)
          /\ stage' = IF outcome'.status = "OK" THEN "fits" ELSE IF outcome'.status \in Changes THEN "misfit" ELSE "refused"
      BY <2>3 DEF Validate
    <3>3. validate(case.request) = "OK" => Ready(servable)'
      BY <2>1, <3>1, ValidatedIsChecked, ReadyIsKept
    <3>4. validate(case.request)' = validate(case.request)
      BY <2>1, <3>1
         DEF validate, validateInput, validateNumberOfInputs, checkBatchSizeMismatch,
             checkBinaryBatchSizeMismatch, checkShapeMismatch, validateTensorContentSize
    <3>5. stage' = "misfit" => outcome'.status \in Changes
      BY <3>2
    <3> QED
      BY <2>1, <2>2, <3>1, <3>2, <3>3, <3>4, <3>5 DEF ExchangeInv, ReadsWhatWasMeasured, AcceptedIsTaken
  <2>4. CASE ReloadBatchSize
    <3>1. IsRequest(case) /\ servable = case.servable /\ case.what = "request" /\ validate(case.request) = "BATCHSIZE_CHANGE_REQUIRED"
      BY <1>2, <2>4 DEF ReloadBatchSize, ExchangeInv, IsExchange
    <3>2. PICK n \in RequestBatchSizes(case.request) : servable' = WithBatchSize(n)
      BY <2>4 DEF ReloadBatchSize
    <3>3. Ready(WithBatchSize(n))
      BY <3>1, ReloadedBatchIsReady
    <3>4. Ready(servable)'
      BY <2>1, <3>2, <3>3, ReadyIsKept
    <3> QED
      BY <2>1, <2>2, <2>4, <3>1, <3>4 DEF ExchangeInv, ReadsWhatWasMeasured, AcceptedIsTaken, ReloadBatchSize
  <2>5. CASE ReloadShapes
    <3>1. IsRequest(case) /\ servable = case.servable /\ case.what = "request" /\ validate(case.request) = "RESHAPE_REQUIRED"
      BY <1>2, <2>5 DEF ReloadShapes, ExchangeInv, IsExchange
    <3>2. servable' = WithRequestShapes(case.request)
      BY <2>5 DEF ReloadShapes
    <3>3. Ready(WithRequestShapes(case.request))
      BY <3>1, ReloadedShapesAreReady
    <3>4. Ready(servable)'
      BY <2>1, <3>2, <3>3, ReadyIsKept
    <3> QED
      BY <2>1, <2>2, <2>5, <3>1, <3>4 DEF ExchangeInv, ReadsWhatWasMeasured, AcceptedIsTaken, ReloadShapes
  <2>6. CASE Deserialize
    <3>1. /\ IsRequest(case) /\ case.what = "request" /\ Ready(servable)
          /\ servable' = servable /\ outcome' = deserializePredictRequest(case.request)
      BY <1>2, <2>6 DEF Deserialize, ExchangeInv, IsExchange
    <3>2. /\ \A i \in DOMAIN servable :
                \/ outcome'.tensors[i].read = outcome'.tensors[i].there \/ Unbuffered(servable[i].name)
                \/ checkIfBinaryInputUsed(InputOf(i)) /\ isDynamic(Channels(servable[i])) /\ ~isAny(Channels(servable[i]))
          /\ outcome'.status = "OV_INTERNAL_DESERIALIZATION_ERROR" =>
                \/ Disagree(servable)
                \/ \E i \in DOMAIN servable :
                      /\ servable[i].demultiplexed /\ checkIfBinaryInputUsed(InputOf(i))
                      /\ (Len(servable[i].shape) # 5 \/ ~match(servable[i].shape[2], 1))
      BY <3>1, DeserializeKeeps
    <3>3. \A i \in DOMAIN servable :
             InputOf(i)' = InputOf(i) /\ (Unbuffered(servable[i].name) => Unbuffered(servable[i].name)')
      BY <2>1, <3>1 DEF InputOf, Unbuffered
    <3>4. ReadsWhatWasMeasured'
      BY <3>1, <3>2, <3>3 DEF ReadsWhatWasMeasured
    <3>5. AcceptedIsTaken'
      BY <2>1, <3>1, <3>2, <3>3 DEF AcceptedIsTaken, Disagree, Asked, InputOf
    <3>6. stage' = "deserialized"
      BY <2>6 DEF Deserialize
    <3> QED
      BY <2>1, <2>2, <3>1, <3>4, <3>5, <3>6 DEF ExchangeInv
  <2>7. CASE ReloadFails \/ Serialize \/ MakeJson \/ Intersect
    <3>1. stage' \in {"refused", "serialized", "json", "intersected"}
      BY <2>7 DEF ReloadFails, Serialize, MakeJson, Intersect
    <3> QED
      BY <2>2, <3>1 DEF ExchangeInv, ReadsWhatWasMeasured, AcceptedIsTaken
  <2>8. CASE UNCHANGED exchangeVars
    <3>1. stage' = stage /\ servable' = servable /\ outcome' = outcome
      BY <2>8 DEF exchangeVars
    <3>2. validate(case.request)' = validate(case.request)
      BY <2>1, <3>1
         DEF validate, validateInput, validateNumberOfInputs, checkBatchSizeMismatch,
             checkBinaryBatchSizeMismatch, checkShapeMismatch, validateTensorContentSize
    <3>3. Ready(servable) => Ready(servable)'
      BY <2>1, <3>1, ReadyIsKept
    <3>4. ReadsWhatWasMeasured' /\ AcceptedIsTaken'
      BY <1>2, <2>1, <3>1 DEF ExchangeInv, ReadsWhatWasMeasured, AcceptedIsTaken, InputOf, Unbuffered
    <3> QED
      BY <1>2, <2>1, <2>2, <3>1, <3>2, <3>3, <3>4 DEF ExchangeInv
  <2> QED
    BY <1>2, <2>3, <2>4, <2>5, <2>6, <2>7, <2>8 DEF ExchangeNext
<1> QED
  BY <1>1, <1>2, PTL DEF ExchangeSpec

\* Deserialization reads exactly what validation has measured, for any request,
\* precision, container and shape (predict_request_validation_utils.cpp,
\* deserialization.hpp, binaryutils.cpp).
THEOREM RequestsAreRead == ExchangeSpec => []ReadsWhatWasMeasured
<1>1. ExchangeInv => ReadsWhatWasMeasured
  BY DEF ExchangeInv
<1> QED
  BY <1>1, ExchangeIsInv, PTL

\* What was accepted, or what the servable was reloaded for, is not refused when
\* the tensors are handed over (InputSink::give), for any request.
THEOREM RequestsAreTaken == ExchangeSpec => []AcceptedIsTaken
<1>1. ExchangeInv => AcceptedIsTaken
  BY DEF ExchangeInv
<1> QED
  BY <1>1, ExchangeIsInv, PTL

-----------------------------------------------------------------------------
\* The response

\* The outputs that were serialized before one after another.
SerializeSteps(start, outputs, n, V, h) ==
    /\ h \in [0 .. n -> V] /\ h[0] = start
    /\ \A k \in 0 .. n - 1 : h[k + 1] = serializeOutput(h[k], outputs[k + 1])
    /\ Serialized(start, outputs) = h[n]

\* Outputs are serialized one after another (serializePredictResponse).
LEMMA SerializedIs ==
    ASSUME NEW outputs, NEW n \in Nat, DOMAIN outputs = 1 .. n, NEW V, NEW start \in V,
           \A r \in V, i \in 1 .. n : serializeOutput(r, outputs[i]) \in V
    PROVE  \E h : SerializeSteps(start, outputs, n, V, h)
<1> DEFINE P(g) == g = [s \in SUBSET (DOMAIN outputs) |-> IF s = {} THEN start ELSE serializeOutput(g[s \ {Max(s)}], outputs[Max(s)])]
           S == [p \in (1 .. n) \X V |-> serializeOutput(p[2], outputs[p[1]])]
           c == CHOOSE g : P(g)
<1>1. PICK g, h : FoldsTo(n, V, start, S, g, h)
  <2>1. S \in [(1 .. n) \X V -> V]
    OBVIOUS
  <2> HIDE DEF S
  <2> QED
    BY <2>1, FoldIs, Zenon
<1>2. P(g)
  BY <1>1 DEF FoldsTo, Fold
<1>3. P(c)
  BY <1>2
<1>4. Serialized(start, outputs) = c[1 .. n]
  BY DEF Serialized, FoldLeft, MapThenFoldSet
<1> HIDE DEF c
<1>5. c[1 .. n] = h[n]
  <2>1. c[{}] = start /\ \A s \in SUBSET (1 .. n) : s # {} /\ c[s \ {Max(s)}] = g[s \ {Max(s)}] => c[s] = g[s]
    BY <1>2, <1>3
  <2> HIDE DEF P, S
  <2> QED
    BY <1>1, <2>1 DEF FoldsTo
<1>6. \A k \in 0 .. n - 1 : h[k + 1] = serializeOutput(h[k], outputs[k + 1])
  BY <1>1 DEF FoldsTo
<1>7. h \in [0 .. n -> V] /\ h[0] = start
  BY <1>1 DEF FoldsTo
<1> QED
  BY <1>4, <1>5, <1>6, <1>7 DEF SerializeSteps

GatherSteps(names, n, V, h) ==
    /\ h \in [0 .. n -> V] /\ h[0] = NewResponse
    /\ \A k \in 0 .. n - 1 : h[k + 1] = prepareConsolidatedTensor(h[k], OutputNamed(names[k + 1]))
    /\ Gathered(names) = h[n]

\* The exit node prepares one consolidated tensor after another
\* (GatherExitNodeInputHandler::prepareConsolidatedTensor).
LEMMA GatheredIs ==
    ASSUME NEW names, NEW n \in Nat, DOMAIN names = 1 .. n, NEW V, NewResponse \in V,
           \A r \in V, i \in 1 .. n : prepareConsolidatedTensor(r, OutputNamed(names[i])) \in V
    PROVE  \E h : GatherSteps(names, n, V, h)
<1> DEFINE P(g) == g = [s \in SUBSET (DOMAIN names) |->
                          IF s = {} THEN NewResponse ELSE prepareConsolidatedTensor(g[s \ {Max(s)}], OutputNamed(names[Max(s)]))]
           S == [p \in (1 .. n) \X V |-> prepareConsolidatedTensor(p[2], OutputNamed(names[p[1]]))]
           c == CHOOSE g : P(g)
<1>1. PICK g, h : FoldsTo(n, V, NewResponse, S, g, h)
  <2>1. S \in [(1 .. n) \X V -> V] /\ NewResponse \in V
    OBVIOUS
  <2> HIDE DEF S
  <2> QED
    BY <2>1, FoldIs, Zenon
<1>2. P(g)
  BY <1>1 DEF FoldsTo, Fold
<1>3. P(c)
  BY <1>2
<1>4. Gathered(names) = c[1 .. n]
  BY DEF Gathered, FoldLeft, MapThenFoldSet
<1> HIDE DEF c
<1>5. c[1 .. n] = h[n]
  <2>1. c[{}] = NewResponse /\ \A s \in SUBSET (1 .. n) : s # {} /\ c[s \ {Max(s)}] = g[s \ {Max(s)}] => c[s] = g[s]
    BY <1>2, <1>3
  <2> HIDE DEF P, S
  <2> QED
    BY <1>1, <2>1 DEF FoldsTo
<1>6. \A k \in 0 .. n - 1 : h[k + 1] = prepareConsolidatedTensor(h[k], OutputNamed(names[k + 1]))
  BY <1>1 DEF FoldsTo
<1>7. h \in [0 .. n -> V] /\ h[0] = NewResponse
  BY <1>1 DEF FoldsTo
<1> QED
  BY <1>4, <1>5, <1>6, <1>7 DEF GatherSteps

OutputNames == {case.outputs[i].name : i \in DOMAIN case.outputs}

\* An output is found by its name.
LEMMA OutputNamedIs ==
    ASSUME IsResponse(case), NEW i \in DOMAIN case.outputs
    PROVE  OutputNamed(case.outputs[i].name) = case.outputs[i]
<1>1. case.outputs[i] \in ToSet(case.outputs)
  BY DEF ToSet
<1>2. \A o \in ToSet(case.outputs) : o.name = case.outputs[i].name => o = case.outputs[i]
  <2> SUFFICES ASSUME NEW j \in DOMAIN case.outputs, case.outputs[j].name = case.outputs[i].name
               PROVE  case.outputs[j] = case.outputs[i]
    BY DEF ToSet
  <2> QED
    BY DEF IsResponse, Distinct
<1> QED
  BY <1>1, <1>2 DEF OutputNamed

\* Each name is that of an output.
LEMMA OutputOf ==
    ASSUME IsResponse(case), NEW n \in OutputNames
    PROVE  \E i \in DOMAIN case.outputs : OutputNamed(n) = case.outputs[i] /\ case.outputs[i].name = n
BY OutputNamedIs DEF OutputNames

ResponseStatus == {"OK", "INTERNAL_ERROR", "OV_UNSUPPORTED_SERIALIZATION_PRECISION"}
Contents == {Content(OutputNamed(n)) : n \in OutputNames} \cup {NoContent}
PartialResponse == [status : ResponseStatus, outputs : Seq(OutputNames), contents : Seq(Contents)]

\* Each output once, its own buffer at its position.
Whole(r) ==
    /\ IsInjective(r.outputs) /\ Len(r.contents) = Len(r.outputs)
    /\ \A i \in DOMAIN r.outputs : r.contents[i] = Content(OutputNamed(r.outputs[i]))

\* An output that is not there is appended with its buffer.
LEMMA AppendedIsWhole ==
    ASSUME NEW outputs \in Seq(OutputNames), NEW contents \in Seq(Contents), NEW name \in OutputNames, NEW status,
           Whole([status |-> status, outputs |-> outputs, contents |-> contents]), \A i \in DOMAIN outputs : outputs[i] # name
    PROVE  Whole([status |-> status, outputs |-> Append(outputs, name), contents |-> Append(contents, Content(OutputNamed(name)))])
<1> DEFINE n == Len(outputs)
           c == Content(OutputNamed(name))
           more == Append(outputs, name)
           full == Append(contents, c)
<1>1. n \in Nat /\ DOMAIN outputs = 1 .. n /\ Len(contents) = n /\ IsInjective(outputs)
      /\ \A i \in 1 .. n : contents[i] = Content(OutputNamed(outputs[i]))
  BY DEF Whole
<1>2. c \in Contents
  BY DEF Contents
<1>3. /\ Len(more) = n + 1 /\ more[n + 1] = name /\ \A i \in 1 .. n : more[i] = outputs[i]
      /\ more \in Seq(OutputNames) /\ DOMAIN more = 1 .. n + 1
  BY <1>1
<1>4. /\ Len(full) = n + 1 /\ full[n + 1] = c /\ \A i \in 1 .. n : full[i] = contents[i]
  <2> HIDE DEF c
  <2> QED
    BY <1>1, <1>2
<1> HIDE DEF more, full, n
<1>5. \A i \in 1 .. n + 1 : i = n + 1 \/ i \in 1 .. n
  BY <1>1
<1>6. IsInjective(more)
  <2> SUFFICES ASSUME NEW i \in 1 .. n + 1, NEW j \in 1 .. n + 1, more[i] = more[j] PROVE i = j
    BY <1>3 DEF IsInjective
  <2>1. CASE i = n + 1
    BY <1>1, <1>3, <1>5, <2>1
  <2>2. CASE j = n + 1
    BY <1>1, <1>3, <1>5, <2>2
  <2>3. CASE i \in 1 .. n /\ j \in 1 .. n
    BY <1>1, <1>3, <2>3 DEF IsInjective
  <2> QED
    BY <1>5, <2>1, <2>2, <2>3
<1>7. \A i \in 1 .. n + 1 : full[i] = Content(OutputNamed(more[i]))
  BY <1>1, <1>3, <1>4, <1>5
<1> QED
  BY <1>3, <1>4, <1>6, <1>7 DEF Whole, more, full

WholeResponses == {r \in PartialResponse : r.status = "OK" => Whole(r)}

\* A name that is there once is found where it is (the search of createOutput and
\* createContent).
LEMMA NameIsOnce ==
    ASSUME NEW s \in Seq(OutputNames), IsInjective(s), NEW i \in DOMAIN s
    PROVE  Min({j \in DOMAIN s : s[j] = s[i]}) = i
<1>1. {j \in DOMAIN s : s[j] = s[i]} = {i}
  BY DEF IsInjective
<1>2. i \in Nat
  OBVIOUS
<1>3. Min({i}) \in {i}
  BY <1>2, MinWithin
<1> QED
  BY <1>1, <1>3

\* An element that is appended and then filled in at its place is appended as it
\* becomes (createContent adds an empty buffer, serializeContent fills it).
LEMMA FilledIsAppended ==
    ASSUME NEW S, NEW s \in Seq(S), NEW a \in S, NEW c \in S, NEW n, n = Len(s)
    PROVE  [Append(s, a) EXCEPT ![n + 1] = c] = Append(s, c)
<1> DEFINE e == [Append(s, a) EXCEPT ![n + 1] = c]
           f == Append(s, c)
<1>1. n \in Nat /\ DOMAIN s = 1 .. n
  OBVIOUS
<1>2. /\ Append(s, a) \in [1 .. n + 1 -> S] /\ f \in [1 .. n + 1 -> S] /\ f[n + 1] = c
      /\ \A i \in 1 .. n : Append(s, a)[i] = s[i] /\ f[i] = s[i]
  <2>1. \A x \in S : /\ Append(s, x) \in Seq(S) /\ Len(Append(s, x)) = n + 1 /\ Append(s, x)[n + 1] = x
                     /\ \A i \in 1 .. n : Append(s, x)[i] = s[i]
    BY AppendProperties
  <2>2. \A t \in Seq(S) : t \in [1 .. Len(t) -> S]
    OBVIOUS
  <2> QED
    BY <2>1, <2>2
<1>3. e \in [1 .. n + 1 -> S] /\ \A i \in 1 .. n + 1 : e[i] = IF i = n + 1 THEN c ELSE Append(s, a)[i]
  BY <1>2
<1> HIDE DEF e, f
<1>4. \A i \in 1 .. n + 1 : e[i] = f[i]
  BY <1>1, <1>2, <1>3
<1>5. e = f
  BY <1>2, <1>3, <1>4
<1> QED
  BY <1>5 DEF e, f

\* An output is found or appended, and so is its buffer.
LEMMA SerializeOutputIs ==
    ASSUME IsResponse(case), NEW r \in WholeResponses, NEW o \in DOMAIN case.outputs,
           NEW made, made = serializeOutput(r, case.outputs[o])
    PROVE  /\ made \in WholeResponses
           /\ made.status = "OK" => /\ r.status = "OK" /\ case.outputs[o].name \in ToSet(made.outputs)
                                    /\ ToSet(r.outputs) \subseteq ToSet(made.outputs)
<1> DEFINE output == case.outputs[o]
           name == output.name
           status == FirstError(<<serializePrecision(output), serializeShape(output)>>)
<1>1. CASE r.status # "OK"
  <2>1. made = r
    BY <1>1 DEF serializeOutput
  <2> QED
    BY <1>1, <2>1
<1>2. CASE r.status = "OK"
  <2>1. name \in OutputNames /\ OutputNamed(name) = output
    BY OutputNamedIs DEF OutputNames
  <2>2. status \in ResponseStatus
    <3> DEFINE both == <<serializePrecision(output), serializeShape(output)>>
    <3>1. \A i \in DOMAIN both : both[i] \in ResponseStatus
      BY DEF serializePrecision, serializeShape, ResponseStatus
    <3>2. DOMAIN both \subseteq Nat
      OBVIOUS
    <3>3. "OK" \in ResponseStatus
      BY DEF ResponseStatus
    <3> HIDE DEF both
    <3> QED
      BY <3>1, <3>2, <3>3, FirstErrorIs DEF both
  <2> DEFINE outputs == r.outputs
             contents == r.contents
             n == Len(outputs)
  <2>3. /\ outputs \in Seq(OutputNames) /\ contents \in Seq(Contents) /\ r = [status |-> "OK", outputs |-> outputs, contents |-> contents]
        /\ n \in Nat /\ DOMAIN outputs = 1 .. n /\ Len(contents) = n /\ IsInjective(outputs) /\ Whole(r)
        /\ \A i \in 1 .. n : contents[i] = Content(OutputNamed(outputs[i]))
        /\ r.outputs = outputs /\ r.contents = contents
    <3>1. r \in PartialResponse /\ Whole(r)
      BY <1>2 DEF WholeResponses
    <3>2. outputs \in Seq(OutputNames) /\ contents \in Seq(Contents) /\ r = [status |-> "OK", outputs |-> outputs, contents |-> contents]
      BY <1>2, <3>1 DEF PartialResponse
    <3> QED
      BY <3>1, <3>2 DEF Whole
  <2> HIDE DEF outputs, contents, n
  <2>4. NoContent \in Contents /\ Content(output) \in Contents
    BY <2>1 DEF Contents
  <2> DEFINE created == createContent(createOutput(r, name), name)
  <2>5. made = IF status # "OK" THEN [created.response EXCEPT !.status = status]
               ELSE [created.response EXCEPT !.contents[created.at] = serializeContent(@, output)]
    BY <1>2 DEF serializeOutput
  <2>6. CASE name \in ToSet(outputs)
    <3>1. PICK i \in DOMAIN outputs : outputs[i] = name
      BY <2>6 DEF ToSet
    <3>2. PositionOf(r, name) = {j \in DOMAIN outputs : outputs[j] = outputs[i]} /\ PositionOf(r, name) # {}
      BY <2>3, <3>1 DEF PositionOf
    <3>3. Min(PositionOf(r, name)) = i
      BY <2>3, <3>1, <3>2, NameIsOnce
    <3>4. createOutput(r, name) = r
      BY <3>2 DEF createOutput
    <3>5. created = [response |-> r, at |-> i]
      <4>1. ~(Len(contents) < i)
        BY <2>3, <3>1
      <4> QED
        BY <2>3, <3>3, <3>4, <4>1 DEF createContent
    <3>6. serializeContent(contents[i], output) = contents[i]
      BY <2>1, <2>3, <3>1 DEF serializeContent
    <3>7. [r EXCEPT !.contents[i] = serializeContent(@, output)] = r
      <4>1. [contents EXCEPT ![i] = serializeContent(contents[i], output)] = contents
        BY <2>3, <3>1, <3>6
      <4> QED
        BY <2>3, <4>1
    <3>8. made = IF status # "OK" THEN [r EXCEPT !.status = status] ELSE r
      <4> HIDE DEF created, status
      <4> QED
        BY <2>5, <3>5, <3>7
    <3> HIDE DEF status
    <3>9. CASE status # "OK"
      <4>1. made = [status |-> status, outputs |-> outputs, contents |-> contents]
        BY <2>3, <3>8, <3>9
      <4> QED
        BY <2>2, <2>3, <3>9, <4>1 DEF WholeResponses, PartialResponse
    <3>10. CASE status = "OK"
      BY <1>2, <2>3, <2>6, <3>8, <3>10
    <3> QED
      BY <3>9, <3>10
  <2>7. CASE name \notin ToSet(outputs)
    <3> DEFINE more == Append(outputs, name)
               empty == Append(contents, NoContent)
    <3>1. /\ Len(more) = n + 1 /\ more[n + 1] = name /\ (\A i \in 1 .. n : more[i] = outputs[i])
          /\ more \in Seq(OutputNames) /\ DOMAIN more = 1 .. n + 1
      BY <2>1, <2>3
    <3>2. /\ Len(empty) = n + 1 /\ empty[n + 1] = NoContent /\ empty \in Seq(Contents) /\ DOMAIN empty = 1 .. n + 1
          /\ \A i \in 1 .. n : empty[i] = contents[i]
      BY <2>3, <2>4
    <3> DEFINE r1 == [status |-> "OK", outputs |-> more, contents |-> contents]
               r2 == [status |-> "OK", outputs |-> more, contents |-> empty]
    <3>3. createOutput(r, name) = r1
      <4>1. PositionOf(r, name) = {}
        BY <2>3, <2>7 DEF PositionOf, ToSet
      <4>2. [r EXCEPT !.outputs = Append(@, name)] = r1
        <5>1. Append(r.outputs, name) = more
          BY <2>3
        <5> HIDE DEF more
        <5>2. [r EXCEPT !.outputs = more] = r1
          BY <2>3
        <5> QED
          BY <5>1, <5>2
      <4> HIDE DEF r1
      <4> QED
        BY <4>1, <4>2 DEF createOutput
    <3> HIDE DEF more, empty
    <3>4. PositionOf(r1, name) = {n + 1}
      <4>1. \A i \in 1 .. n + 1 : i = n + 1 \/ i \in 1 .. n
        BY <2>3
      <4>2. \A i \in 1 .. n : more[i] # name
        BY <2>3, <2>7, <3>1 DEF ToSet
      <4>3. n + 1 \in 1 .. n + 1
        BY <2>3
      <4> QED
        BY <3>1, <4>1, <4>2, <4>3 DEF PositionOf
    <3>5. Min({n + 1}) = n + 1
      BY <2>3, MinWithin
    <3>6. created = [response |-> r2, at |-> n + 1]
      <4>1. Len(r1.contents) = n /\ n < n + 1
        BY <2>3
      <4>2. [r1 EXCEPT !.contents = Append(@, NoContent)] = r2
        BY DEF empty
      <4> HIDE DEF r1, r2
      <4> QED
        BY <3>3, <3>4, <3>5, <4>1, <4>2 DEF createContent
    <3> DEFINE full == Append(contents, Content(output))
    <3>7. [empty EXCEPT ![n + 1] = serializeContent(empty[n + 1], output)] = full
      <4>1. empty[n + 1].size = 0
        <5>1. NoContent.size = 0
          BY DEF NoContent
        <5> QED
          BY <3>2, <5>1
      <4>2. serializeContent(empty[n + 1], output) = Content(output)
        BY <4>1 DEF serializeContent
      <4> DEFINE c == Content(output)
      <4>3. c \in Contents
        BY <2>4
      <4> HIDE DEF c
      <4>4. [empty EXCEPT ![n + 1] = c] = Append(contents, c)
        BY <2>3, <2>4, <4>3, FilledIsAppended DEF empty
      <4> QED
        BY <4>2, <4>4 DEF c
    <3>8. made = IF status # "OK" THEN [status |-> status, outputs |-> more, contents |-> empty]
                 ELSE [status |-> "OK", outputs |-> more, contents |-> full]
      <4>1. [r2 EXCEPT !.contents[n + 1] = serializeContent(@, output)] = [status |-> "OK", outputs |-> more, contents |-> full]
        <5> HIDE DEF full
        <5> QED
          BY <3>7
      <4>2. [r2 EXCEPT !.status = status] = [status |-> status, outputs |-> more, contents |-> empty]
        OBVIOUS
      <4> HIDE DEF created, status, full, r2
      <4> QED
        BY <2>5, <3>6, <4>1, <4>2
    <3>9. full \in Seq(Contents)
      BY <2>3, <2>4
    <3> HIDE DEF status, full
    <3>10. CASE status # "OK"
      <4>1. made = [status |-> status, outputs |-> more, contents |-> empty]
        BY <3>8, <3>10
      <4> QED
        BY <2>2, <3>1, <3>2, <3>10, <4>1 DEF WholeResponses, PartialResponse
    <3>11. CASE status = "OK"
      <4>1. made = [status |-> "OK", outputs |-> more, contents |-> full]
        BY <3>8, <3>11
      <4>2. Whole(made)
        <5>1. \A i \in DOMAIN outputs : outputs[i] # name
          BY <2>7 DEF ToSet
        <5>2. Whole([status |-> "OK", outputs |-> Append(outputs, name), contents |-> Append(contents, Content(OutputNamed(name)))])
          <6>1. Whole([status |-> "OK", outputs |-> outputs, contents |-> contents])
            BY <2>3
          <6> HIDE DEF outputs, contents, name
          <6> QED
            BY <2>1, <2>3, <5>1, <6>1, AppendedIsWhole
        <5> QED
          BY <2>1, <4>1, <5>2 DEF more, full
      <4>3. made \in WholeResponses
        BY <2>2, <3>1, <3>9, <3>11, <4>1, <4>2 DEF WholeResponses, PartialResponse
      <4>4. name \in ToSet(more) /\ ToSet(outputs) \subseteq ToSet(more)
        <5>1. n + 1 \in DOMAIN more /\ 1 .. n \subseteq DOMAIN more
          BY <2>3, <3>1
        <5> QED
          BY <2>3, <3>1, <5>1 DEF ToSet
      <4> QED
        BY <1>2, <2>3, <4>1, <4>3, <4>4
    <3> QED
      BY <3>10, <3>11
  <2> QED
    BY <2>6, <2>7
<1> QED
  BY <1>1, <1>2

\* What the exit node has gathered is whole.
LEMMA GatheredIsWhole ==
    ASSUME IsResponse(case)
    PROVE  Gathered(case.gathered) \in WholeResponses /\ Gathered(case.gathered).status = "OK"
<1> DEFINE names == case.gathered
           n == Len(names)
<1>1. names \in Seq(OutputNames) /\ n \in Nat /\ DOMAIN names = 1 .. n /\ IsInjective(names)
  BY DEF IsResponse, OutputNames
<1>2. \A i \in 1 .. n : names[i] \in OutputNames /\ OutputNamed(names[i]).name = names[i] /\ Content(OutputNamed(names[i])) \in Contents
  <2> SUFFICES ASSUME NEW i \in 1 .. n
               PROVE  names[i] \in OutputNames /\ OutputNamed(names[i]).name = names[i] /\ Content(OutputNamed(names[i])) \in Contents
    OBVIOUS
  <2>1. names[i] \in OutputNames
    BY <1>1
  <2> QED
    BY <2>1, OutputOf DEF Contents
<1> HIDE DEF names, n
<1>3. NewResponse \in PartialResponse /\ NewResponse = [status |-> "OK", outputs |-> <<>>, contents |-> <<>>]
  BY DEF NewResponse, PartialResponse, ResponseStatus
<1>4. ASSUME NEW r \in PartialResponse, NEW i \in 1 .. n
      PROVE  prepareConsolidatedTensor(r, OutputNamed(names[i])) \in PartialResponse
  <2> DEFINE c == Content(OutputNamed(names[i]))
             x == createOutput(r, names[i])
  <2>1. prepareConsolidatedTensor(r, OutputNamed(names[i])) = [x EXCEPT !.contents = Append(@, c)]
    BY <1>2 DEF prepareConsolidatedTensor
  <2>2. x \in PartialResponse
    <3> DEFINE more == Append(r.outputs, names[i])
    <3>1. more \in Seq(OutputNames)
      BY <1>2, AppendProperties DEF PartialResponse
    <3> HIDE DEF more
    <3>2. [r EXCEPT !.outputs = more] \in PartialResponse
      BY <3>1 DEF PartialResponse
    <3> QED
      BY <3>2 DEF createOutput, more
  <2>3. c \in Contents
    BY <1>2
  <2> HIDE DEF c, x
  <2> DEFINE full == Append(x.contents, c)
  <2>4. full \in Seq(Contents)
    BY <2>2, <2>3, AppendProperties DEF PartialResponse
  <2> HIDE DEF full
  <2>5. [x EXCEPT !.contents = full] \in PartialResponse
    BY <2>2, <2>4 DEF PartialResponse
  <2> QED
    BY <2>1, <2>5 DEF full
<1>5. PICK h : GatherSteps(names, n, PartialResponse, h)
  BY <1>1, <1>3, <1>4, GatheredIs
<1> DEFINE T == {k \in Nat : k <= n => /\ h[k] \in PartialResponse /\ h[k].status = "OK" /\ Whole(h[k])
                                       /\ Len(h[k].outputs) = k /\ \A i \in 1 .. k : h[k].outputs[i] = names[i]}
<1>6. 0 \in T
  BY <1>1, <1>3, <1>5 DEF GatherSteps, Whole, IsInjective
<1>7. ASSUME NEW k \in Nat, k \in T PROVE k + 1 \in T
  <2> SUFFICES ASSUME k + 1 <= n
               PROVE  /\ h[k + 1] \in PartialResponse /\ h[k + 1].status = "OK" /\ Whole(h[k + 1])
                      /\ Len(h[k + 1].outputs) = k + 1 /\ \A i \in 1 .. k + 1 : h[k + 1].outputs[i] = names[i]
    OBVIOUS
  <2>1. k \in 0 .. n - 1 /\ k + 1 \in 1 .. n /\ k <= n
    BY <1>1
  <2> DEFINE r == h[k]
             name == names[k + 1]
             outputs == r.outputs
             contents == r.contents
             c == Content(OutputNamed(name))
  <2>2. /\ r \in PartialResponse /\ r.status = "OK" /\ Whole(r) /\ Len(outputs) = k /\ \A i \in 1 .. k : outputs[i] = names[i]
    BY <1>7, <2>1
  <2>3. name \in OutputNames /\ OutputNamed(name).name = name /\ c \in Contents
    BY <1>2, <2>1
  <2>4. h[k + 1] = prepareConsolidatedTensor(r, OutputNamed(name))
    BY <1>5, <2>1 DEF GatherSteps
  <2>5. /\ outputs \in Seq(OutputNames) /\ contents \in Seq(Contents) /\ r = [status |-> "OK", outputs |-> outputs, contents |-> contents]
        /\ Len(contents) = k /\ r.outputs = outputs /\ r.contents = contents
    BY <2>2 DEF PartialResponse, Whole
  <2> HIDE DEF r, outputs, contents, c, name
  <2>6. \A i \in DOMAIN outputs : outputs[i] # name
    <3>1. \A i \in 1 .. k : names[i] # name
      BY <1>1, <2>1 DEF IsInjective, name
    <3> QED
      BY <2>2, <2>5, <3>1
  <2>7. h[k + 1] = [status |-> "OK", outputs |-> Append(outputs, name), contents |-> Append(contents, c)]
    <3>1. PositionOf(r, name) = {}
      BY <2>5, <2>6 DEF PositionOf
    <3>2. createOutput(r, name) = [r EXCEPT !.outputs = Append(@, name)]
      BY <3>1 DEF createOutput
    <3>3. createOutput(r, name) = [status |-> "OK", outputs |-> Append(outputs, name), contents |-> contents]
      BY <2>5, <3>2
    <3>4. h[k + 1] = [createOutput(r, name) EXCEPT !.contents = Append(@, c)]
      BY <2>3, <2>4 DEF prepareConsolidatedTensor, c
    <3> DEFINE x == createOutput(r, name)
    <3> HIDE DEF x
    <3>5. x = [status |-> "OK", outputs |-> Append(outputs, name), contents |-> contents]
      BY <3>3 DEF x
    <3>6. h[k + 1] = [x EXCEPT !.contents = Append(x.contents, c)]
      BY <3>4 DEF x
    <3>7. x.contents = contents
      BY <3>5
    <3>8. h[k + 1] = [x EXCEPT !.contents = Append(contents, c)]
      BY <3>6, <3>7
    <3> QED
      BY <3>5, <3>8
  <2>8. Whole(h[k + 1])
    <3>1. Whole([status |-> "OK", outputs |-> outputs, contents |-> contents])
      BY <2>2, <2>5
    <3> QED
      BY <2>3, <2>5, <2>6, <2>7, <3>1, AppendedIsWhole DEF c
  <2>9. /\ Append(outputs, name) \in Seq(OutputNames) /\ Append(contents, c) \in Seq(Contents)
        /\ Len(Append(outputs, name)) = k + 1 /\ \A i \in 1 .. k + 1 : Append(outputs, name)[i] = names[i]
    <3>1. /\ Append(outputs, name) \in Seq(OutputNames) /\ Append(contents, c) \in Seq(Contents)
          /\ Len(Append(outputs, name)) = k + 1 /\ Append(outputs, name)[k + 1] = name
          /\ \A i \in 1 .. k : Append(outputs, name)[i] = outputs[i]
      BY <2>2, <2>3, <2>5, AppendProperties
    <3>2. \A i \in 1 .. k + 1 : i = k + 1 \/ i \in 1 .. k
      OBVIOUS
    <3> QED
      BY <2>2, <3>1, <3>2 DEF name
  <2> QED
    BY <2>7, <2>8, <2>9 DEF PartialResponse, ResponseStatus
<1>8. n \in T
  <2> HIDE DEF T
  <2> QED
    BY <1>1, <1>6, <1>7, Induction
<1>9. Gathered(names) = h[n]
  BY <1>5 DEF GatherSteps
<1> QED
  BY <1>1, <1>8, <1>9 DEF names, WholeResponses

\* All outputs, each of them once.
Complete(r) ==
    /\ r.outputs \in Seq(OutputNames) /\ Whole(r) /\ ToSet(r.outputs) = OutputNames /\ Len(r.outputs) = Len(case.outputs)

\* A sequence that has each element of a set once is as long as the set is large.
LEMMA InjectionCounts ==
    ASSUME NEW k \in Nat, NEW T, NEW f \in [1 .. k -> T],
           \A i, j \in 1 .. k : f[i] = f[j] => i = j, \A t \in T : \E i \in 1 .. k : f[i] = t
    PROVE  Cardinality(T) = k
<1>1. f \in Injection(1 .. k, T) /\ f \in Surjection(1 .. k, T)
  BY Fun_IsInj, Fun_IsSurj
<1>2. IsFiniteSet(1 .. k) /\ Cardinality(1 .. k) = k
  BY FS_Interval
<1>3. IsFiniteSet(T)
  BY <1>1, <1>2, FS_Surjection
<1>4. Cardinality(1 .. k) = Cardinality(T)
  BY <1>1, <1>3, FS_Injection
<1> QED
  BY <1>2, <1>4

\* A response without an error has every output, once, and its buffer at its
\* place, whatever was gathered before (serializePredictResponse).
LEMMA SerializedIsComplete ==
    ASSUME IsResponse(case)
    PROVE  /\ serializePredictResponse(case.outputs) \in PartialResponse
           /\ serializePredictResponse(case.outputs).status = "OK" => Complete(serializePredictResponse(case.outputs))
<1> DEFINE outputs == case.outputs
           n == Len(outputs)
           start == Gathered(case.gathered)
<1>1. n \in Nat /\ DOMAIN outputs = 1 .. n /\ start \in WholeResponses
  BY GatheredIsWhole DEF IsResponse
<1>2. \A r \in WholeResponses, i \in 1 .. n : serializeOutput(r, outputs[i]) \in WholeResponses
  BY <1>1, SerializeOutputIs
<1>3. PICK h : SerializeSteps(start, outputs, n, WholeResponses, h)
  <2> HIDE DEF start, outputs, n
  <2> QED
    BY <1>1, <1>2, SerializedIs
<1>4. serializePredictResponse(case.outputs) = h[n]
  BY <1>3 DEF SerializeSteps, serializePredictResponse
<1> HIDE DEF start
<1> DEFINE T == {k \in Nat : k <= n /\ h[k].status = "OK" => \A i \in 1 .. k : outputs[i].name \in ToSet(h[k].outputs)}
<1>5. 0 \in T
  OBVIOUS
<1>6. ASSUME NEW k \in Nat, k \in T PROVE k + 1 \in T
  <2> SUFFICES ASSUME k + 1 <= n, h[k + 1].status = "OK", NEW i \in 1 .. k + 1 PROVE outputs[i].name \in ToSet(h[k + 1].outputs)
    OBVIOUS
  <2>1. k \in 0 .. n - 1 /\ k + 1 \in 1 .. n /\ k <= n /\ k \in 0 .. n
    BY <1>1
  <2>2. h[k] \in WholeResponses /\ h[k + 1] = serializeOutput(h[k], outputs[k + 1])
    BY <1>3, <2>1 DEF SerializeSteps
  <2>3. h[k].status = "OK" /\ outputs[k + 1].name \in ToSet(h[k + 1].outputs) /\ ToSet(h[k].outputs) \subseteq ToSet(h[k + 1].outputs)
    <3>1. \A b \in WholeResponses, o \in DOMAIN outputs : \A made :
            made = serializeOutput(b, outputs[o]) /\ made.status = "OK" =>
              b.status = "OK" /\ outputs[o].name \in ToSet(made.outputs) /\ ToSet(b.outputs) \subseteq ToSet(made.outputs)
      BY SerializeOutputIs
    <3>2. k + 1 \in DOMAIN outputs
      BY <1>1, <2>1
    <3> DEFINE o == k + 1
               b == h[k]
               made == h[k + 1]
    <3>3. b \in WholeResponses /\ o \in DOMAIN outputs /\ made = serializeOutput(b, outputs[o]) /\ made.status = "OK"
      BY <2>2, <3>2
    <3> HIDE DEF outputs, n, o, b, made
    <3>4. b.status = "OK" /\ outputs[o].name \in ToSet(made.outputs) /\ ToSet(b.outputs) \subseteq ToSet(made.outputs)
      BY <3>1, <3>3
    <3> QED
      BY <3>4 DEF o, b, made
  <2>4. i = k + 1 \/ i \in 1 .. k
    OBVIOUS
  <2> QED
    BY <1>6, <2>1, <2>3, <2>4
<1>7. n \in T
  <2> HIDE DEF T
  <2> QED
    BY <1>1, <1>5, <1>6, Induction
<1> DEFINE r == h[n]
           m == Len(r.outputs)
<1>8. r \in PartialResponse /\ (r.status = "OK" => Whole(r) /\ \A i \in 1 .. n : outputs[i].name \in ToSet(r.outputs))
  <2>1. n \in 0 .. n
    BY <1>1
  <2>2. r \in WholeResponses
    BY <1>3, <2>1 DEF SerializeSteps
  <2> QED
    BY <1>1, <1>4, <1>7, <2>2 DEF WholeResponses
<1>9. r.outputs \in Seq(OutputNames) /\ m \in Nat /\ DOMAIN r.outputs = 1 .. m /\ r.outputs \in [1 .. m -> OutputNames]
  BY <1>8 DEF PartialResponse
<1> SUFFICES ASSUME r.status = "OK" PROVE Complete(r)
  BY <1>4, <1>8
<1>10. ToSet(r.outputs) = OutputNames
  BY <1>1, <1>8, <1>9 DEF ToSet, OutputNames
<1>11. Cardinality(OutputNames) = m
  <2> DEFINE f == r.outputs
  <2>1. \A t \in OutputNames : \E i \in 1 .. m : f[i] = t
    BY <1>9, <1>10 DEF ToSet
  <2>2. \A i, j \in 1 .. m : f[i] = f[j] => i = j
    BY <1>8, <1>9 DEF Whole, IsInjective
  <2>3. f \in [1 .. m -> OutputNames] /\ m \in Nat
    BY <1>9
  <2> HIDE DEF f, m
  <2> QED
    BY <2>1, <2>2, <2>3, InjectionCounts
<1>12. Cardinality(OutputNames) = n
  <2> DEFINE f == [i \in 1 .. n |-> outputs[i].name]
  <2>1. f \in [1 .. n -> OutputNames] /\ \A t \in OutputNames : \E i \in 1 .. n : f[i] = t
    BY <1>1 DEF OutputNames
  <2>2. \A i, j \in 1 .. n : f[i] = f[j] => i = j
    BY <1>1 DEF IsResponse, Distinct
  <2> HIDE DEF f, n
  <2> QED
    BY <1>1, <2>1, <2>2, InjectionCounts
<1> QED
  BY <1>8, <1>9, <1>10, <1>11, <1>12 DEF Complete

\* The volume of a shape without negative numbers is not negative.
LEMMA VolumeIsNat ==
    ASSUME NEW shape \in Seq(Nat)
    PROVE  Volume(shape) \in Nat
<1> DEFINE n == Len(shape)
<1>1. n \in Nat /\ DOMAIN shape = 1 .. n /\ \A i \in 1 .. n : shape[i] \in Nat
  OBVIOUS
<1> HIDE DEF n
<1>2. PICK h : VolumeSteps(shape, n, h)
  BY <1>1, VolumeIs
<1> DEFINE T == {k \in Nat : k <= n => h[k] \in Nat}
<1>3. 0 \in T
  BY <1>2 DEF VolumeSteps
<1>4. ASSUME NEW k \in Nat, k \in T PROVE k + 1 \in T
  <2> SUFFICES ASSUME k + 1 <= n PROVE h[k + 1] \in Nat
    OBVIOUS
  <2>1. k \in 0 .. n - 1 /\ k + 1 \in 1 .. n /\ h[k] \in Nat
    BY <1>1, <1>4
  <2>2. h[k + 1] = h[k] * shape[k + 1] /\ shape[k + 1] \in Nat
    BY <1>1, <1>2, <2>1 DEF VolumeSteps
  <2>3. \A a, b \in Nat : a * b \in Nat
    OBVIOUS
  <2> QED
    BY <2>1, <2>2, <2>3
<1>5. n \in T
  <2> HIDE DEF T
  <2> QED
    BY <1>1, <1>3, <1>4, Induction
<1> QED
  BY <1>1, <1>2, <1>5 DEF VolumeSteps

\* A buffer is empty only when the tensor is.
LEMMA EmptyContent ==
    ASSUME NEW output \in OutputRecord
    PROVE  Content(output).size = 0 <=> ~(Volume(output.tensor.shape) > 0)
<1> DEFINE v == Volume(output.tensor.shape)
           w == Width[output.tensor.precision]
<1>1. v \in Nat
  BY VolumeIsNat DEF OutputRecord
<1>2. w \in {1, 2, 4, 8}
  <2>1. output.tensor.precision \in Precisions
    BY DEF OutputRecord
  <2> QED
    BY <2>1 DEF Precisions, Width
<1>3. Content(output).size = v * w
  BY DEF Content
<1> HIDE DEF v, w
<1>4. CASE w = 1
  BY <1>1, <1>3, <1>4 DEF v
<1>5. CASE w = 2
  BY <1>1, <1>3, <1>5 DEF v
<1>6. CASE w = 4
  BY <1>1, <1>3, <1>6 DEF v
<1>7. CASE w = 8
  BY <1>1, <1>3, <1>7 DEF v
<1> QED
  BY <1>2, <1>4, <1>5, <1>6, <1>7

Writable ==
    LET outputs == ToSet(case.outputs)
        writable == \A o \in outputs : o.precision \in JsonPrecisions(case.api)
        full == case.api = "KFS" \/ \A o \in outputs : Volume(o.tensor.shape) > 0
        rows == case.api = "TFS" /\ case.order = "ROW" =>
                  \A o, p \in outputs : o.tensor.shape # <<>> /\ o.tensor.shape[1] = p.tensor.shape[1]
    IN  writable /\ full /\ rows

\* JSON is made of a complete response exactly when each of its outputs can be
\* written (makeJsonFromPredictResponse).
LEMMA JsonIs ==
    ASSUME IsResponse(case), NEW r, Complete(r)
    PROVE  makeJsonFromPredictResponse(r) = "OK" <=> Writable
<1> DEFINE outputs == ToSet(case.outputs)
           named(i) == OutputNamed(r.outputs[i])
           each == [i \in DOMAIN r.outputs |-> parseOutput(r, i)]
<1>1. /\ r.outputs \in Seq(OutputNames) /\ DOMAIN r.outputs \subseteq Nat /\ ToSet(r.outputs) = OutputNames
      /\ \A i \in DOMAIN r.outputs : r.contents[i] = Content(named(i)) /\ r.outputs[i] \in OutputNames
  BY DEF Complete, Whole
<1>2. /\ \A i \in DOMAIN r.outputs : named(i) \in outputs
      /\ \A o \in outputs : \E i \in DOMAIN r.outputs : named(i) = o
  <2>1. \A n \in OutputNames : OutputNamed(n) \in outputs
    BY OutputOf DEF ToSet
  <2>2. ASSUME NEW k \in DOMAIN case.outputs PROVE \E i \in DOMAIN r.outputs : named(i) = case.outputs[k]
    <3>1. case.outputs[k].name \in ToSet(r.outputs)
      BY <1>1 DEF OutputNames
    <3>2. PICK i \in DOMAIN r.outputs : r.outputs[i] = case.outputs[k].name
      BY <3>1 DEF ToSet
    <3> QED
      BY <3>2, OutputNamedIs
  <2> QED
    BY <1>1, <2>1, <2>2 DEF ToSet
<1>3. \A o \in outputs : o \in OutputRecord
  BY DEF IsResponse, ToSet
<1>4. case.api \in {"TFS", "KFS"}
  BY DEF IsResponse
<1>5. \A i \in DOMAIN r.outputs : parseOutput(r, i) = "OK" <=>
         named(i).precision \in JsonPrecisions(case.api) /\ (case.api = "KFS" \/ Volume(named(i).tensor.shape) > 0)
  <2> SUFFICES ASSUME NEW i \in DOMAIN r.outputs
               PROVE  parseOutput(r, i) = "OK" <=>
                         named(i).precision \in JsonPrecisions(case.api) /\ (case.api = "KFS" \/ Volume(named(i).tensor.shape) > 0)
    OBVIOUS
  <2>1. named(i) \in OutputRecord
    BY <1>2, <1>3
  <2>2. Content(named(i)).size = 0 <=> ~(Volume(named(i).tensor.shape) > 0)
    BY <2>1, EmptyContent
  <2> QED
    BY <1>1, <1>4, <2>2 DEF parseOutput
<1>6. FirstError(each) = "OK" <=> \A i \in DOMAIN r.outputs : parseOutput(r, i) = "OK"
  <2>1. DOMAIN each = DOMAIN r.outputs /\ \A i \in DOMAIN each : each[i] = parseOutput(r, i)
    OBVIOUS
  <2> HIDE DEF each
  <2> QED
    BY <1>1, <2>1, FirstErrorIs
<1>7. FirstError(each) = "OK" <=>
        (\A o \in outputs : o.precision \in JsonPrecisions(case.api))
           /\ (case.api = "KFS" \/ \A o \in outputs : Volume(o.tensor.shape) > 0)
  <2> HIDE DEF each, outputs, named
  <2> QED
    BY <1>2, <1>5, <1>6
<1>8. MakeJsonFromTensors(r) = "OK" <=> (case.order = "ROW" =>
                  \A o, p \in outputs : o.tensor.shape # <<>> /\ o.tensor.shape[1] = p.tensor.shape[1])
  <2> DEFINE shapes == {OutputNamed(n).tensor.shape : n \in ToSet(r.outputs)}
  <2>1. shapes = {o.tensor.shape : o \in outputs}
    <3>1. \A n \in ToSet(r.outputs) : \E o \in outputs : OutputNamed(n) = o
      BY <1>1, <1>2 DEF ToSet
    <3>2. \A o \in outputs : \E n \in ToSet(r.outputs) : OutputNamed(n) = o
      BY <1>2 DEF ToSet
    <3> HIDE DEF outputs
    <3> QED
      BY <3>1, <3>2
  <2>2. MakeJsonFromTensors(r) = "OK" <=> ~(case.order = "ROW" /\ (<<>> \in shapes \/ \E s, t \in shapes : s[1] # t[1]))
    BY DEF MakeJsonFromTensors
  <2> HIDE DEF outputs, shapes
  <2>3. (<<>> \in shapes \/ \E s, t \in shapes : s[1] # t[1]) <=>
            ~\A o, p \in outputs : o.tensor.shape # <<>> /\ o.tensor.shape[1] = p.tensor.shape[1]
    BY <2>1
  <2> QED
    BY <2>2, <2>3
<1>9. makeJsonFromPredictResponse(r) = IF FirstError(each) # "OK" THEN FirstError(each)
                                       ELSE IF case.api = "TFS" THEN MakeJsonFromTensors(r) ELSE "OK"
  BY DEF makeJsonFromPredictResponse
<1> QED
  <2> HIDE DEF each
  <2>1. Writable <=> /\ FirstError(each) = "OK"
                     /\ (case.api = "TFS" /\ case.order = "ROW" =>
                          \A o, p \in outputs : o.tensor.shape # <<>> /\ o.tensor.shape[1] = p.tensor.shape[1])
    BY <1>7 DEF Writable
  <2> HIDE DEF outputs
  <2> QED
    BY <1>4, <1>8, <1>9, <2>1

ResponseInv ==
    /\ IsExchange(case) /\ (stage \in {"serialized", "json"} => case.what = "response")
    /\ stage = "serialized" => outcome \in PartialResponse /\ (outcome.status = "OK" => Complete(outcome))
    /\ stage = "json" => Complete(outcome) /\ (outcome.status = "OK" <=> Writable)

\* The response is whole from the time it is serialized
\* (serializePredictResponse, makeJsonFromPredictResponse), for any outputs and
\* whatever an exit node has gathered of them.
THEOREM ResponseIsInv == ExchangeSpec => []ResponseInv
<1>1. ExchangeInit => ResponseInv
  BY DEF ExchangeInit, ResponseInv
<1>2. ASSUME ResponseInv, [ExchangeNext]_exchangeVars
      PROVE  ResponseInv'
  <2>1. case' = case
    BY <1>2
       DEF ExchangeNext, exchangeVars, Validate, ReloadBatchSize, ReloadShapes, ReloadFails,
           Deserialize, Serialize, MakeJson, Intersect
  <2>2. IsExchange(case)'
    BY <1>2, <2>1 DEF ResponseInv, IsExchange, IsRequest, IsResponse, IsPair
  <2>3. OutputNames' = OutputNames /\ PartialResponse' = PartialResponse /\ Writable' = Writable
    BY <2>1 DEF OutputNames, PartialResponse, Contents, OutputNamed, Writable, JsonPrecisions
  <2>4. Complete(outcome)' <=> /\ outcome'.outputs \in Seq(OutputNames) /\ Whole(outcome)'
                               /\ ToSet(outcome'.outputs) = OutputNames /\ Len(outcome'.outputs) = Len(case.outputs)
    BY <2>1, <2>3 DEF Complete
  <2>5. Whole(outcome)' <=> /\ IsInjective(outcome'.outputs) /\ Len(outcome'.contents) = Len(outcome'.outputs)
                            /\ \A i \in DOMAIN outcome'.outputs : outcome'.contents[i] = Content(OutputNamed(outcome'.outputs[i]))
    BY <2>1 DEF Whole, OutputNamed
  <2>6. CASE Serialize
    <3>1. IsResponse(case) /\ case.what = "response" /\ stage' = "serialized" /\ outcome' = serializePredictResponse(case.outputs)
      BY <1>2, <2>6 DEF Serialize, ResponseInv, IsExchange
    <3>2. outcome' \in PartialResponse /\ (outcome'.status = "OK" => Complete(outcome'))
      BY <3>1, SerializedIsComplete
    <3>3. Complete(outcome') => Complete(outcome)'
      BY <2>4, <2>5 DEF Complete, Whole
    <3> QED
      BY <2>1, <2>2, <2>3, <3>1, <3>2, <3>3 DEF ResponseInv
  <2>7. CASE MakeJson
    <3>1. /\ IsResponse(case) /\ case.what = "response" /\ outcome \in PartialResponse /\ Complete(outcome) /\ stage' = "json"
          /\ outcome' = [outcome EXCEPT !.status = makeJsonFromPredictResponse(outcome)]
      BY <1>2, <2>7 DEF MakeJson, ResponseInv, IsExchange
    <3>2. /\ outcome'.outputs = outcome.outputs /\ outcome'.contents = outcome.contents
          /\ outcome'.status = makeJsonFromPredictResponse(outcome)
      BY <3>1 DEF PartialResponse
    <3>3. outcome'.status = "OK" <=> Writable
      BY <3>1, <3>2, JsonIs
    <3>4. Complete(outcome)'
      BY <2>4, <2>5, <3>1, <3>2 DEF Complete, Whole
    <3> QED
      BY <2>1, <2>2, <2>3, <3>1, <3>3, <3>4 DEF ResponseInv
  <2>8. CASE Validate \/ ReloadBatchSize \/ ReloadShapes \/ ReloadFails \/ Deserialize \/ Intersect
    <3>1. stage' \notin {"serialized", "json"}
      BY <2>8 DEF Validate, ReloadBatchSize, ReloadShapes, ReloadFails, Deserialize, Intersect
    <3> QED
      BY <2>2, <3>1 DEF ResponseInv
  <2>9. CASE UNCHANGED exchangeVars
    <3>1. stage' = stage /\ outcome' = outcome
      BY <2>9 DEF exchangeVars
    <3>2. Complete(outcome) => Complete(outcome)'
      BY <2>4, <2>5, <3>1 DEF Complete, Whole
    <3> QED
      BY <1>2, <2>1, <2>2, <2>3, <3>1, <3>2 DEF ResponseInv
  <2> QED
    BY <1>2, <2>6, <2>7, <2>8, <2>9 DEF ExchangeNext
<1> QED
  BY <1>1, <1>2, PTL DEF ExchangeSpec

\* Every output is in the response once with its own buffer, and JSON is refused
\* only for what JSON has no form for, for any outputs in any order.
THEOREM ResponsesAreWhole == ExchangeSpec => []ResponseIsWhole
<1>1. ResponseInv => ResponseIsWhole
  <2> SUFFICES ASSUME ResponseInv PROVE ResponseIsWhole
    OBVIOUS
  <2>1. ASSUME Complete(outcome)
        PROVE  /\ ToSet(outcome.outputs) = {case.outputs[i].name : i \in DOMAIN case.outputs}
               /\ Len(outcome.outputs) = Len(case.outputs) /\ Len(outcome.contents) = Len(outcome.outputs)
               /\ \A i \in DOMAIN outcome.outputs : outcome.contents[i] = Content(OutputNamed(outcome.outputs[i]))
    BY <2>1 DEF Complete, Whole, OutputNames
  <2>2. stage = "json" => (outcome.status = "OK" <=> Writable)
    BY DEF ResponseInv
  <2>3. stage \in {"serialized", "json"} /\ (stage = "serialized" => outcome.status = "OK") => Complete(outcome)
    BY DEF ResponseInv
  <2> QED
    BY <2>1, <2>2, <2>3 DEF ResponseIsWhole, Writable
<1> QED
  BY <1>1, ResponseIsInv, PTL

-----------------------------------------------------------------------------
\* What two descriptions have in common

\* The greater and the smaller of two numbers.
LEMMA MinMaxOfTwo ==
    ASSUME NEW a \in Int, NEW b \in Int
    PROVE  Max({a, b}) = (IF a >= b THEN a ELSE b) /\ Min({a, b}) = (IF a <= b THEN a ELSE b)
<1>1. Max({a, b}) = (IF a >= b THEN a ELSE b)
  BY DEF Max
<1>2. Min({a, b}) = (IF a <= b THEN a ELSE b)
  BY DEF Min
<1> QED
  BY <1>1, <1>2

\* Two dimensions have the numbers in common that both match.
LEMMA createIntersectionIs ==
    ASSUME NEW a \in [min : Int, max : Int], IsDim(a), NEW b \in [min : Int, max : Int], IsDim(b)
    PROVE  /\ createIntersection(a, b) # Nothing <=> partiallyFitsInto(a, b)
           /\ createIntersection(b, a) = createIntersection(a, b)
           /\ createIntersection(a, b) # Nothing =>
                \A v \in Nat : match(createIntersection(a, b)[1], v) <=> match(a, v) /\ match(b, v)
<1> DEFINE start == IF a.min >= b.min THEN a.min ELSE b.min
           end == IF a.max <= b.max THEN a.max ELSE b.max
<1>1. /\ Max({a.min, b.min}) = start /\ Max({b.min, a.min}) = start
      /\ Min({a.max, b.max}) = end /\ Min({b.max, a.max}) = end
  <2>1. a.min \in Int /\ a.max \in Int /\ b.min \in Int /\ b.max \in Int
    OBVIOUS
  <2>2. Max({a.min, b.min}) = start /\ Min({a.max, b.max}) = end
    BY <2>1, MinMaxOfTwo
  <2>3. {b.min, a.min} = {a.min, b.min} /\ {b.max, a.max} = {a.max, b.max}
    OBVIOUS
  <2> QED
    BY <2>2, <2>3
<1>2. CASE isAny(a)
  BY <1>2 DEF createIntersection, isAny, partiallyFitsInto, match, Nothing, Some
<1>3. CASE ~isAny(a) /\ isAny(b)
  BY <1>3 DEF createIntersection, isAny, partiallyFitsInto, match, Nothing, Some
<1>4. CASE ~isAny(a) /\ ~isAny(b)
  <2>1. a.min \in Nat /\ a.max \in Nat /\ a.min <= a.max /\ b.min \in Nat /\ b.max \in Nat /\ b.min <= b.max
    BY <1>4 DEF IsDim, isAny
  <2>2. createIntersection(a, b) = (IF end < start THEN Nothing ELSE <<[min |-> start, max |-> end]>>)
    BY <1>1, <1>4 DEF createIntersection, Some, Range2
  <2>3. createIntersection(b, a) = createIntersection(a, b)
    BY <1>1, <1>4 DEF createIntersection, Some, Range2
  <2>4. partiallyFitsInto(a, b) <=> start <= end
    BY <1>4, <2>1 DEF partiallyFitsInto, isDynamic, match, isAny
  <2>5. ASSUME NEW v \in Nat, start <= end PROVE match([min |-> start, max |-> end], v) <=> match(a, v) /\ match(b, v)
    BY <1>4, <2>1, <2>5 DEF match, isDynamic, isAny, AnyDim, Range2
  <2>6. start \in Nat /\ end \in Nat
    BY <2>1
  <2> HIDE DEF start, end
  <2>7. CASE end < start
    BY <2>2, <2>3, <2>4, <2>6, <2>7 DEF Nothing
  <2>8. CASE start <= end
    <3>1. createIntersection(a, b) = <<[min |-> start, max |-> end]>>
      BY <2>2, <2>6, <2>8
    <3>2. createIntersection(a, b) # Nothing
      BY <3>1 DEF Nothing
    <3>3. createIntersection(a, b)[1] = [min |-> start, max |-> end]
      BY <3>1
    <3> QED
      BY <2>3, <2>4, <2>5, <2>8, <3>2, <3>3
  <2>9. end < start \/ start <= end
    BY <2>6
  <2> QED
    BY <2>7, <2>8, <2>9, Zenon
<1> QED
  BY <1>2, <1>3, <1>4

\* The letter at a position of either layout has no other position in them.
Agreed(l, m, n, i) == m[i] = "?" \/ (l[i] \in {"?", m[i]} /\ \A j \in 1 .. n : l[j] = m[i] => j = i)
Joined(l, m, n, k) == [i \in 1 .. n |-> IF i <= k /\ l[i] = "?" THEN m[i] ELSE l[i]]

\* One position of Layout::createIntersection: where the layouts agree it takes
\* the letter one of them knows, else there is nothing in common.
LEMMA MeetAtIsAgreed ==
    ASSUME NEW n \in Nat, NEW l \in [1 .. n -> Letters], NEW m \in [1 .. n -> Letters], Single(l), Single(m),
           NEW k \in 0 .. n - 1, \A i \in 1 .. k : Agreed(l, m, n, i)
    PROVE  MeetAt(<<Joined(l, m, n, k)>>, m, k + 1) = IF Agreed(l, m, n, k + 1) THEN <<Joined(l, m, n, k + 1)>> ELSE Nothing
<1> DEFINE x == Joined(l, m, n, k)
           y == Joined(l, m, n, k + 1)
           p == k + 1
<1>1. p \in 1 .. n /\ p \in Nat /\ k \in Nat /\ n \in Nat
  OBVIOUS
<1>2. /\ DOMAIN x = 1 .. n /\ \A i \in 1 .. n : x[i] = IF i <= k /\ l[i] = "?" THEN m[i] ELSE l[i]
      /\ x \in [1 .. n -> Letters] /\ x[p] = l[p]
  BY DEF Joined
<1>3. /\ DOMAIN y = 1 .. n /\ \A i \in 1 .. n : y[i] = IF i <= p /\ l[i] = "?" THEN m[i] ELSE l[i]
      /\ y \in [1 .. n -> Letters]
  BY DEF Joined
<1>4. \A i \in 1 .. n : i # p => y[i] = x[i]
  BY <1>2, <1>3
<1> HIDE DEF x, y
<1>5. MeetAt(<<x>>, m, p) = IF x[p] = m[p] THEN <<x>>
                            ELSE IF m[p] # "?" /\ m[p] \in ToSet(x) THEN Nothing
                            ELSE IF x[p] = "?" THEN <<[x EXCEPT ![p] = m[p]]>>
                            ELSE IF m[p] = "?" THEN <<x>> ELSE Nothing
  BY DEF MeetAt, Nothing, Some
<1>6. \A i, j \in 1 .. n : (l[i] = l[j] /\ l[i] # "?" => i = j) /\ (m[i] = m[j] /\ m[i] # "?" => i = j)
  BY DEF Single
<1> HIDE DEF p
<1>7. CASE x[p] = m[p]
  <2>1. Agreed(l, m, n, p)
    BY <1>1, <1>2, <1>6, <1>7 DEF Agreed
  <2>2. y = x
    BY <1>1, <1>2, <1>3, <1>4, <1>7
  <2> QED
    BY <1>5, <1>7, <2>1, <2>2 DEF x, y, p
<1>8. CASE x[p] # m[p] /\ m[p] # "?" /\ m[p] \in ToSet(x)
  <2>1. PICK j \in 1 .. n : x[j] = m[p]
    BY <1>2, <1>8 DEF ToSet
  <2>2. j # p
    BY <1>8, <2>1
  <2>3. l[j] = m[p]
    BY <1>1, <1>2, <1>6, <1>8, <2>1, <2>2
  <2>4. ~Agreed(l, m, n, p)
    BY <1>8, <2>2, <2>3 DEF Agreed
  <2> QED
    BY <1>5, <1>8, <2>4 DEF x, y, p
<1>9. CASE x[p] # m[p] /\ ~(m[p] # "?" /\ m[p] \in ToSet(x)) /\ x[p] = "?"
  <2>1. m[p] # "?" /\ \A j \in 1 .. n : x[j] # m[p]
    BY <1>2, <1>9 DEF ToSet
  <2>2. Agreed(l, m, n, p)
    BY <1>1, <1>2, <1>9, <2>1 DEF Agreed
  <2>3. y = [x EXCEPT ![p] = m[p]]
    <3> DEFINE e == [x EXCEPT ![p] = m[p]]
    <3>1. e \in [1 .. n -> Letters] /\ \A i \in 1 .. n : e[i] = IF i = p THEN m[p] ELSE x[i]
      BY <1>1, <1>2
    <3>2. y[p] = m[p]
      <4>1. p <= p
        BY <1>1
      <4> QED
        BY <1>1, <1>2, <1>3, <1>9, <4>1
    <3> HIDE DEF e
    <3>3. \A i \in 1 .. n : y[i] = e[i]
      BY <1>4, <3>1, <3>2
    <3>4. y = e
      BY <1>3, <3>1, <3>3
    <3> QED
      BY <3>4 DEF e
  <2> QED
    BY <1>5, <1>9, <2>2, <2>3 DEF x, y, p
<1>10. CASE x[p] # m[p] /\ ~(m[p] # "?" /\ m[p] \in ToSet(x)) /\ x[p] # "?" /\ m[p] = "?"
  <2>1. Agreed(l, m, n, p)
    BY <1>10 DEF Agreed
  <2>2. y = x
    BY <1>1, <1>2, <1>3, <1>4, <1>10
  <2> QED
    BY <1>5, <1>10, <2>1, <2>2 DEF x, y, p
<1>11. CASE x[p] # m[p] /\ ~(m[p] # "?" /\ m[p] \in ToSet(x)) /\ x[p] # "?" /\ m[p] # "?"
  <2>1. ~Agreed(l, m, n, p)
    BY <1>2, <1>11 DEF Agreed
  <2> QED
    BY <1>5, <1>11, <2>1 DEF x, y, p
<1> QED
  BY <1>7, <1>8, <1>9, <1>10, <1>11

\* All positions: what Layout::createIntersection makes of two layouts that are
\* spelled out.
LEMMA MeetAllIsJoined ==
    ASSUME NEW n \in Nat, NEW l \in [1 .. n -> Letters], NEW m \in [1 .. n -> Letters], Single(l), Single(m)
    PROVE  MeetAll(<<l>>, m, n) = IF \A i \in 1 .. n : Agreed(l, m, n, i) THEN <<Joined(l, m, n, n)>> ELSE Nothing
<1> DEFINE V == {Nothing} \cup {<<x>> : x \in [1 .. n -> Letters]}
           At(k) == IF \A i \in 1 .. k : Agreed(l, m, n, i) THEN <<Joined(l, m, n, k)>> ELSE Nothing
<1>1. PICK h : MeetSteps(<<l>>, m, n, V, h)
  <2>1. <<l>> \in V
    OBVIOUS
  <2>2. \A x \in V, i \in 1 .. n : MeetAt(x, m, i) \in V
    BY MeetAtIs
  <2> HIDE DEF V
  <2> QED
    BY <2>1, <2>2, MeetAllIs, Zenon
<1> DEFINE T == {k \in Nat : k <= n => h[k] = At(k)}
<1>2. 0 \in T
  <2>1. Joined(l, m, n, 0) = l
    BY DEF Joined
  <2>2. At(0) = <<l>>
    BY <2>1
  <2> HIDE DEF At
  <2> QED
    BY <1>1, <2>2 DEF MeetSteps
<1>3. ASSUME NEW k \in Nat, k \in T PROVE k + 1 \in T
  <2> SUFFICES ASSUME k + 1 <= n PROVE h[k + 1] = At(k + 1)
    OBVIOUS
  <2>1. k \in 0 .. n - 1 /\ h[k] = At(k)
    BY <1>3
  <2>2. h[k + 1] = MeetAt(h[k], m, k + 1)
    BY <1>1, <2>1 DEF MeetSteps
  <2>3. \A i \in 1 .. k + 1 : i \in 1 .. k \/ i = k + 1
    OBVIOUS
  <2>4. CASE \A i \in 1 .. k : Agreed(l, m, n, i)
    <3>1. h[k] = <<Joined(l, m, n, k)>>
      BY <2>1, <2>4
    <3>2. MeetAt(<<Joined(l, m, n, k)>>, m, k + 1) = IF Agreed(l, m, n, k + 1) THEN <<Joined(l, m, n, k + 1)>> ELSE Nothing
      BY <2>1, <2>4, MeetAtIsAgreed
    <3>3. k + 1 \in 1 .. k + 1
      OBVIOUS
    <3>4. (\A i \in 1 .. k + 1 : Agreed(l, m, n, i)) <=> Agreed(l, m, n, k + 1)
      BY <2>3, <2>4, <3>3
    <3> QED
      BY <2>2, <3>1, <3>2, <3>4
  <2>5. CASE ~\A i \in 1 .. k : Agreed(l, m, n, i)
    <3>1. h[k] = Nothing
      BY <2>1, <2>5
    <3>2. h[k + 1] = Nothing
      BY <2>2, <3>1 DEF MeetAt
    <3>3. 1 .. k \subseteq 1 .. k + 1
      OBVIOUS
    <3> QED
      BY <2>5, <3>2, <3>3
  <2> QED
    BY <2>4, <2>5
<1>4. n \in T
  <2> HIDE DEF T
  <2> QED
    BY <1>2, <1>3, Induction
<1> QED
  BY <1>1, <1>4 DEF MeetSteps

Letter(l, m, n) == {p \in (1 .. n) \X (ToSet(l) \cup ToSet(m)) : p[2] # "?" /\ p[2] \in {l[p[1]], m[p[1]]}}
Pairwise(l, m, n) ==
    \A i, j \in 1 .. n : \A x \in {l[i], m[i]} \ {"?"}, y \in {l[j], m[j]} \ {"?"} : (i = j) <=> (x = y)
Compatible(l, m, n) == \A p, q \in Letter(l, m, n) : (p[1] = q[1]) <=> (p[2] = q[2])

\* Pairwise, of two positions.
LEMMA PairwiseIs ==
    ASSUME NEW l, NEW m, NEW n, Pairwise(l, m, n), NEW i \in 1 .. n, NEW j \in 1 .. n,
           NEW x \in {l[i], m[i]} \ {"?"}, NEW y \in {l[j], m[j]} \ {"?"}
    PROVE  (i = j) <=> (x = y)
BY DEF Pairwise

\* Letters that agree position by position agree as pairs of a position and a
\* letter.
LEMMA LettersAgree ==
    ASSUME NEW l, NEW m, NEW n, Pairwise(l, m, n)
    PROVE  Compatible(l, m, n)
<1>1. ASSUME NEW p, NEW q, p \in Letter(l, m, n), q \in Letter(l, m, n)
      PROVE  (p[1] = q[1]) <=> (p[2] = q[2])
  <2>1. PICK i, j, x, y : i = p[1] /\ j = q[1] /\ x = p[2] /\ y = q[2]
    OBVIOUS
  <2>2. i \in 1 .. n /\ j \in 1 .. n
    BY <1>1, <2>1 DEF Letter
  <2>3. x \in {l[i], m[i]} \ {"?"}
    BY <1>1, <2>1 DEF Letter
  <2>4. y \in {l[j], m[j]} \ {"?"}
    BY <1>1, <2>1 DEF Letter
  <2>5. (i = j) <=> (x = y)
    BY <2>2, <2>3, <2>4, PairwiseIs
  <2> QED
    BY <2>1, <2>5
<1> QED
  BY <1>1 DEF Compatible

\* The two ways to say that no letter has two positions and no position two
\* letters.
LEMMA CompatibleIsPairwise ==
    ASSUME NEW l, NEW m, NEW n, DOMAIN l = 1 .. n, DOMAIN m = 1 .. n
    PROVE  Compatible(l, m, n) <=> Pairwise(l, m, n)
<1>1. \A i \in 1 .. n : l[i] \in ToSet(l) /\ m[i] \in ToSet(m)
  BY DEF ToSet
<1>2. ASSUME Compatible(l, m, n), NEW i \in 1 .. n, NEW j \in 1 .. n, NEW x \in {l[i], m[i]} \ {"?"}, NEW y \in {l[j], m[j]} \ {"?"}
      PROVE  (i = j) <=> (x = y)
  <2>1. <<i, x>> \in Letter(l, m, n) /\ <<j, y>> \in Letter(l, m, n)
    BY <1>1 DEF Letter
  <2> QED
    BY <1>2, <2>1 DEF Compatible
<1> QED
  BY <1>2, LettersAgree DEF Pairwise

\* The loop over the positions finds a disagreement exactly when some letter has
\* two positions or some position two letters.
LEMMA AgreedIsCompatible ==
    ASSUME NEW n \in Nat, NEW l \in [1 .. n -> Letters], NEW m \in [1 .. n -> Letters], Single(l), Single(m)
    PROVE  (\A i \in 1 .. n : Agreed(l, m, n, i)) <=> Compatible(l, m, n)
<1>1. \A i, j \in 1 .. n : (l[i] = l[j] /\ l[i] # "?" => i = j) /\ (m[i] = m[j] /\ m[i] # "?" => i = j)
  BY DEF Single
<1>2. Compatible(l, m, n) <=> Pairwise(l, m, n)
  BY CompatibleIsPairwise
<1>3. ASSUME \A i \in 1 .. n : Agreed(l, m, n, i), NEW i \in 1 .. n, NEW j \in 1 .. n,
             NEW x \in {l[i], m[i]} \ {"?"}, NEW y \in {l[j], m[j]} \ {"?"}
      PROVE  (i = j) <=> (x = y)
  <2>1. Agreed(l, m, n, i) /\ Agreed(l, m, n, j)
    BY <1>3
  <2>2. i = j => x = y
    BY <2>1 DEF Agreed
  <2>3. x = y => i = j
    BY <1>1, <2>1 DEF Agreed
  <2> QED
    BY <2>2, <2>3
<1>4. ASSUME Pairwise(l, m, n), NEW i \in 1 .. n
      PROVE  Agreed(l, m, n, i)
  BY <1>4 DEF Agreed, Pairwise
<1> QED
  BY <1>2, <1>3, <1>4 DEF Pairwise

\* Layout::createIntersection gives the same whichever layout it is called on,
\* although only the left one learns letters on the way.
LEMMA MeetAllCommutes ==
    ASSUME NEW n \in Nat, NEW l \in [1 .. n -> Letters], NEW m \in [1 .. n -> Letters], Single(l), Single(m)
    PROVE  MeetAll(<<l>>, m, n) = MeetAll(<<m>>, l, n) /\ (MeetAll(<<l>>, m, n) # Nothing <=> Compatible(l, m, n))
<1>1. Compatible(l, m, n) <=> Compatible(m, l, n)
  <2>1. Letter(l, m, n) = Letter(m, l, n)
    BY DEF Letter
  <2> QED
    BY <2>1 DEF Compatible
<1>2. Compatible(l, m, n) => Joined(l, m, n, n) = Joined(m, l, n, n)
  <2> SUFFICES ASSUME Compatible(l, m, n), NEW i \in 1 .. n
               PROVE  (IF i <= n /\ l[i] = "?" THEN m[i] ELSE l[i]) = (IF i <= n /\ m[i] = "?" THEN l[i] ELSE m[i])
    BY DEF Joined
  <2>1. Agreed(l, m, n, i)
    BY AgreedIsCompatible
  <2> QED
    BY <2>1 DEF Agreed
<1>3. MeetAll(<<l>>, m, n) = IF Compatible(l, m, n) THEN <<Joined(l, m, n, n)>> ELSE Nothing
  BY MeetAllIsJoined, AgreedIsCompatible
<1>4. MeetAll(<<m>>, l, n) = IF Compatible(m, l, n) THEN <<Joined(m, l, n, n)>> ELSE Nothing
  BY MeetAllIsJoined, AgreedIsCompatible
<1> QED
  BY <1>1, <1>2, <1>3, <1>4 DEF Nothing

\* The same with "..." in the layouts (Layout::createIntersection).
LEMMA LayoutsMeet ==
    ASSUME NEW a, IsLayout(a), NEW b, IsLayout(b), NEW n \in Nat
    PROVE  /\ LayoutIntersection(b, a, n) = LayoutIntersection(a, b, n)
           /\ LayoutIntersection(a, b, n) # Nothing <=>
                /\ Expand(a, n) # Nothing /\ Expand(b, n) # Nothing
                /\ Len(Expand(a, n)[1]) = n /\ Len(Expand(b, n)[1]) = n
                /\ Compatible(Expand(a, n)[1], Expand(b, n)[1], n)
<1>1. CASE Expand(a, n) = Nothing \/ Expand(b, n) = Nothing
  BY <1>1 DEF LayoutIntersection
<1>2. CASE Expand(a, n) # Nothing /\ Expand(b, n) # Nothing
  <2>1. PICK l \in Seq(Letters) : Expand(a, n) = <<l>> /\ Single(l)
    BY <1>2, ExpandIs
  <2>2. PICK m \in Seq(Letters) : Expand(b, n) = <<m>> /\ Single(m)
    BY <1>2, ExpandIs
  <2>3. Expand(a, n)[1] = l /\ Expand(b, n)[1] = m
    BY <2>1, <2>2
  <2>4. CASE Len(l) = n /\ Len(m) = n
    <3>1. l \in [1 .. n -> Letters] /\ m \in [1 .. n -> Letters]
      BY <2>4
    <3>2. MeetAll(<<l>>, m, n) = MeetAll(<<m>>, l, n) /\ (MeetAll(<<l>>, m, n) # Nothing <=> Compatible(l, m, n))
      BY <2>1, <2>2, <3>1, MeetAllCommutes
    <3>3. LayoutIntersection(a, b, n) = MeetAll(<<l>>, m, n) /\ LayoutIntersection(b, a, n) = MeetAll(<<m>>, l, n)
      BY <1>2, <2>1, <2>2, <2>3, <2>4 DEF LayoutIntersection
    <3> QED
      BY <1>2, <2>3, <2>4, <3>2, <3>3
  <2>5. CASE Len(l) # n \/ Len(m) # n
    <3>1. LayoutIntersection(a, b, n) = Nothing /\ LayoutIntersection(b, a, n) = Nothing
      BY <1>2, <2>3, <2>5 DEF LayoutIntersection
    <3> QED
      BY <2>3, <2>5, <3>1
  <2> QED
    BY <2>4, <2>5
<1> QED
  BY <1>1, <1>2

\* Shape::createIntersection: there is a common shape exactly when the dimensions
\* overlap, it is the same whichever shape it is called on, and it takes what
\* both take.
LEMMA ShapesMeet ==
    ASSUME NEW a, IsShape(a), NEW b, IsShape(b)
    PROVE  /\ ShapeIntersection(b, a) = ShapeIntersection(a, b)
           /\ ShapeIntersection(a, b) # Nothing <=>
                Len(b) = Len(a) /\ \A i \in 1 .. Len(a) : partiallyFitsInto(a[i], b[i])
           /\ ShapeIntersection(a, b) # Nothing =>
                \A i \in 1 .. Len(a), v \in Nat :
                    match(ShapeIntersection(a, b)[1][i], v) <=> match(a[i], v) /\ match(b[i], v)
<1>1. DOMAIN a = 1 .. Len(a) /\ DOMAIN b = 1 .. Len(b) /\ Len(a) \in Nat /\ Len(b) \in Nat
  BY DEF IsShape
<1>2. CASE Len(a) # Len(b)
  BY <1>2 DEF ShapeIntersection
<1>3. CASE Len(a) = Len(b)
  <2> DEFINE n == Len(a)
             d == [i \in 1 .. n |-> createIntersection(a[i], b[i])]
  <2>1. \A i \in 1 .. n : /\ createIntersection(a[i], b[i]) # Nothing <=> partiallyFitsInto(a[i], b[i])
                          /\ createIntersection(b[i], a[i]) = createIntersection(a[i], b[i])
                          /\ createIntersection(a[i], b[i]) # Nothing =>
                               \A v \in Nat : match(createIntersection(a[i], b[i])[1], v) <=> match(a[i], v) /\ match(b[i], v)
    <3> SUFFICES ASSUME NEW i \in 1 .. n
                 PROVE  /\ createIntersection(a[i], b[i]) # Nothing <=> partiallyFitsInto(a[i], b[i])
                        /\ createIntersection(b[i], a[i]) = createIntersection(a[i], b[i])
                        /\ createIntersection(a[i], b[i]) # Nothing =>
                             \A v \in Nat : match(createIntersection(a[i], b[i])[1], v) <=> match(a[i], v) /\ match(b[i], v)
      OBVIOUS
    <3>1. IsDim(a[i]) /\ IsDim(b[i])
      BY <1>1, <1>3 DEF IsShape
    <3>2. a[i] \in [min : Int, max : Int] /\ b[i] \in [min : Int, max : Int]
      <4> DEFINE D == [min : Int, max : Int]
      <4>1. a \in Seq(D) /\ b \in Seq(D)
        BY DEF IsShape
      <4> HIDE DEF D
      <4>2. a[i] \in D /\ b[i] \in D
        BY <1>1, <1>3, <4>1
      <4> QED
        BY <4>2 DEF D
    <3> QED
      BY <3>1, <3>2, createIntersectionIs
  <2>2. [i \in 1 .. n |-> createIntersection(b[i], a[i])] = d
    BY <2>1
  <2>3. ShapeIntersection(a, b) = IF \E i \in 1 .. n : d[i] = Nothing THEN Nothing ELSE <<[i \in 1 .. n |-> d[i][1]]>>
    BY <1>1, <1>3 DEF ShapeIntersection, Some
  <2>4. ShapeIntersection(b, a) = ShapeIntersection(a, b)
    BY <1>1, <1>3, <2>2, <2>3 DEF ShapeIntersection, Some
  <2>5. \A i \in 1 .. n : d[i] = createIntersection(a[i], b[i])
    OBVIOUS
  <2> HIDE DEF d
  <2>6. ShapeIntersection(a, b) # Nothing <=> \A i \in 1 .. n : d[i] # Nothing
    BY <2>3 DEF Nothing
  <2>7. ShapeIntersection(a, b) # Nothing <=> \A i \in 1 .. n : partiallyFitsInto(a[i], b[i])
    BY <2>1, <2>5, <2>6
  <2>8. ShapeIntersection(a, b) # Nothing =>
            \A i \in 1 .. n, v \in Nat : match(ShapeIntersection(a, b)[1][i], v) <=> match(a[i], v) /\ match(b[i], v)
    <3> SUFFICES ASSUME ShapeIntersection(a, b) # Nothing, NEW i \in 1 .. n, NEW v \in Nat
                 PROVE  match(ShapeIntersection(a, b)[1][i], v) <=> match(a[i], v) /\ match(b[i], v)
      OBVIOUS
    <3>1. ShapeIntersection(a, b)[1][i] = createIntersection(a[i], b[i])[1]
      BY <2>3, <2>5
    <3>2. createIntersection(a[i], b[i]) # Nothing
      BY <2>1, <2>7
    <3> QED
      BY <2>1, <3>1, <3>2
  <2> QED
    BY <1>3, <2>4, <2>7, <2>8
<1> QED
  BY <1>2, <1>3

\* What is asked of two descriptions and of what they have in common.
Common(a, b) ==
    LET n == Len(a.shape)
        la == Expand(a.layout, n)
        lb == Expand(b.layout, n)
        fits == Len(b.shape) = n /\ \A i \in 1 .. n : partiallyFitsInto(a.shape[i], b.shape[i])
        meet == la # Nothing /\ lb # Nothing /\ Len(la[1]) = n /\ Len(lb[1]) = n /\ Compatible(la[1], lb[1], n)
        precise == a.precision = b.precision \/ "UNDEFINED" \in {a.precision, b.precision}
    IN  /\ InfoIntersection(a, b) # Nothing <=> fits /\ meet /\ precise
        /\ InfoIntersection(b, a) = InfoIntersection(a, b)
        /\ InfoIntersection(a, b) # Nothing =>
             \A i \in 1 .. n : \A v \in 0 .. 5 :
                match(InfoIntersection(a, b)[1].shape[i], v) <=> match(a.shape[i], v) /\ match(b.shape[i], v)

\* TensorInfo::createIntersection of any two descriptions.
LEMMA InfosMeet ==
    ASSUME NEW a, IsInfo(a), NEW b, IsInfo(b)
    PROVE  Common(a, b)
<1> DEFINE n == Len(a.shape)
           S == ShapeIntersection(a.shape, b.shape)
           L == LayoutIntersection(a.layout, b.layout, n)
           precise == a.precision = b.precision \/ "UNDEFINED" \in {a.precision, b.precision}
           p == IF a.precision = "UNDEFINED" THEN b.precision ELSE a.precision
           common == InfoIntersection(a, b)
<1>1. n \in Nat /\ IsShape(a.shape) /\ IsShape(b.shape) /\ IsLayout(a.layout) /\ IsLayout(b.layout)
  BY DEF IsInfo, IsShape
<1>2. /\ ShapeIntersection(b.shape, a.shape) = S
      /\ S # Nothing <=> Len(b.shape) = n /\ \A i \in 1 .. n : partiallyFitsInto(a.shape[i], b.shape[i])
      /\ S # Nothing =>
            \A i \in 1 .. n, v \in Nat : match(S[1][i], v) <=> match(a.shape[i], v) /\ match(b.shape[i], v)
  BY <1>1, ShapesMeet
<1>3. /\ LayoutIntersection(b.layout, a.layout, n) = L
      /\ L # Nothing <=>
           /\ Expand(a.layout, n) # Nothing /\ Expand(b.layout, n) # Nothing
           /\ Len(Expand(a.layout, n)[1]) = n /\ Len(Expand(b.layout, n)[1]) = n
           /\ Compatible(Expand(a.layout, n)[1], Expand(b.layout, n)[1], n)
  BY <1>1, LayoutsMeet
<1>4. common = IF ~precise \/ S = Nothing \/ L = Nothing THEN Nothing
               ELSE <<[precision |-> p, shape |-> S[1], layout |-> L[1]]>>
  BY DEF InfoIntersection, Some
<1>5. InfoIntersection(b, a) = common
  <2>1. precise => (IF b.precision = "UNDEFINED" THEN a.precision ELSE b.precision) = p
    OBVIOUS
  <2>2. S # Nothing => Len(b.shape) = n
    BY <1>2
  <2> DEFINE q == IF b.precision = "UNDEFINED" THEN a.precision ELSE b.precision
             M == LayoutIntersection(b.layout, a.layout, Len(b.shape))
  <2>3. InfoIntersection(b, a) = IF ~precise \/ S = Nothing \/ M = Nothing THEN Nothing
                                 ELSE <<[precision |-> q, shape |-> S[1], layout |-> M[1]]>>
    BY <1>2 DEF InfoIntersection, Some
  <2>4. S # Nothing => M = L
    BY <1>3, <2>2
  <2> HIDE DEF S, M, L, common, precise, p, q
  <2> QED
    BY <1>4, <2>1, <2>3, <2>4 DEF q
<1>6. common # Nothing <=> precise /\ S # Nothing /\ L # Nothing
  BY <1>4 DEF Nothing
<1>7. common # Nothing => common[1].shape = S[1]
  <2> HIDE DEF S, L, p, precise
  <2> QED
    BY <1>4
<1>8. 0 .. 5 \subseteq Nat
  OBVIOUS
<1> HIDE DEF S, L, p, common
<1>9. common # Nothing => \A i \in 1 .. n : \A v \in 0 .. 5 :
          match(common[1].shape[i], v) <=> match(a.shape[i], v) /\ match(b.shape[i], v)
  BY <1>2, <1>6, <1>7, <1>8
<1> QED
  BY <1>2, <1>3, <1>5, <1>6, <1>9 DEF Common, common

CommonInv ==
    /\ IsExchange(case) /\ (case.what = "infos" => IsPair(case))
    /\ stage = "intersected" => case.what = "infos" /\ outcome.common = InfoIntersection(case.info, case.other)

\* What two descriptions have in common is what createIntersection computes of
\* them.
THEOREM CommonIsInv == ExchangeSpec => []CommonInv
<1>1. ExchangeInit => CommonInv
  BY DEF ExchangeInit, CommonInv, IsExchange
<1>2. ASSUME CommonInv, [ExchangeNext]_exchangeVars
      PROVE  CommonInv'
  <2>1. case' = case
    BY <1>2
       DEF ExchangeNext, exchangeVars, Validate, ReloadBatchSize, ReloadShapes, ReloadFails,
           Deserialize, Serialize, MakeJson, Intersect
  <2>2. IsExchange(case)' /\ (case.what = "infos" => IsPair(case))'
    BY <1>2, <2>1 DEF CommonInv, IsExchange, IsRequest, IsResponse, IsPair
  <2>3. CASE Intersect
    BY <2>1, <2>2, <2>3 DEF Intersect, CommonInv
  <2>4. CASE Validate \/ ReloadBatchSize \/ ReloadShapes \/ ReloadFails \/ Deserialize \/ Serialize \/ MakeJson
    <3>1. stage' # "intersected"
      BY <2>4 DEF Validate, ReloadBatchSize, ReloadShapes, ReloadFails, Deserialize, Serialize, MakeJson
    <3> QED
      BY <2>2, <3>1 DEF CommonInv
  <2>5. CASE UNCHANGED exchangeVars
    BY <1>2, <2>1, <2>2, <2>5 DEF CommonInv, exchangeVars
  <2> QED
    BY <1>2, <2>3, <2>4, <2>5 DEF ExchangeNext
<1> QED
  BY <1>1, <1>2, PTL DEF ExchangeSpec

\* A pipeline input that feeds several nodes takes exactly what all of them take,
\* for any two descriptions and in either order
\* (TensorInfo::createIntersection).
THEOREM CommonIsExact == ExchangeSpec => []CommonIsBoth
<1>1. CommonInv => CommonIsBoth
  <2> SUFFICES ASSUME CommonInv, stage = "intersected" PROVE CommonIsBoth
    BY DEF CommonIsBoth
  <2>1. IsInfo(case.info) /\ IsInfo(case.other) /\ outcome.common = InfoIntersection(case.info, case.other)
    BY DEF CommonInv, IsPair
  <2>2. Common(case.info, case.other)
    BY <2>1, InfosMeet
  <2> QED
    BY <2>1, <2>2 DEF CommonIsBoth, Common, Compatible, Letter
<1> QED
  BY <1>1, CommonIsInv, PTL
=============================================================================
