----------------------------- MODULE StreamPool -----------------------------
(***************************************************************************)
(* What Queue<T> (src/src/queue.hpp) promises to the guards that use it: a *)
(* pool of inference streams in which every stream is at any moment either *)
(* idle or given to exactly one guard, idle streams are handed out in the  *)
(* order in which they came back, and guards that wait are served in the   *)
(* order in which they started waiting.  A guard may start to wait even    *)
(* when a stream is idle: the pool promises no more than that.             *)
(***************************************************************************)
EXTENDS Integers, Sequences

CONSTANTS
    Guards,     \* the ExecutingStreamIdGuard and NodeStreamIdGuard objects
    NIREQ       \* number of inference requests of the model

VARIABLES
    idle,       \* the idle streams, the one returned first at the head
    waiters,    \* the guards waiting for a stream, the oldest at the head
    given       \* the stream each guard has, or -1

vars == <<idle, waiters, given>>

Init ==
    /\ idle = [i \in 1..NIREQ |-> i - 1]
    /\ waiters = <<>>
    /\ given = [g \in Guards |-> -1]

\* A guard gets the stream that has been idle longest.
Get(g) ==
    /\ given[g] = -1
    /\ \A i \in 1..Len(waiters) : waiters[i] # g
    /\ idle # <<>>
    /\ given' = [given EXCEPT ![g] = Head(idle)]
    /\ idle' = Tail(idle)
    /\ UNCHANGED waiters

\* A guard starts to wait for a stream.
Wait(g) ==
    /\ given[g] = -1
    /\ \A i \in 1..Len(waiters) : waiters[i] # g
    /\ waiters' = Append(waiters, g)
    /\ UNCHANGED <<idle, given>>

\* A guard hands its stream straight to the guard that has waited longest.
HandOver(g) ==
    /\ given[g] # -1
    /\ waiters # <<>>
    /\ given' = [given EXCEPT ![Head(waiters)] = given[g], ![g] = -1]
    /\ waiters' = Tail(waiters)
    /\ UNCHANGED idle

\* A guard gives its stream back to the idle ones, behind all of them.
PutBack(g) ==
    /\ given[g] # -1
    /\ idle' = Append(idle, given[g])
    /\ given' = [given EXCEPT ![g] = -1]
    /\ UNCHANGED waiters

Next == \E g \in Guards : Get(g) \/ Wait(g) \/ HandOver(g) \/ PutBack(g)

Spec == Init /\ [][Next]_vars
=============================================================================
