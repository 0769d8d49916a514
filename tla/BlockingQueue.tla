---------------------------- MODULE BlockingQueue ----------------------------
(***************************************************************************)
(* BlockingQueue (src/src/lib/blockingQueue.h): a queue shared by threads, *)
(* with one mutex and one condition variable.                              *)
(*                                                                         *)
(* Shared state is touched only under the mutex, so a step is one critical *)
(* section: from a lock to the unlock, or to the wait that gives it up.    *)
(* A thread that wait wakes up competes for the mutex like any other: an   *)
(* item may be gone by the time it has it.                                 *)
(***************************************************************************)
EXTENDS Naturals, Sequences, FiniteSets

CONSTANTS Threads, Items,
          MaxLength        \* bound: items in the queue

ASSUME ThreadsAssumption == IsFiniteSet(Threads)
ASSUME LengthAssumption  == MaxLength \in Nat

VARIABLES
    queue,    \* queue_
    at,       \* at[t]: where thread t is
    taken     \* taken[t]: what its last pop returned

vars == <<queue, at, taken>>

\* Outside; before the lock in pop; asleep in wait; woken, before the mutex.
Places == {"out", "entering", "asleep", "awake"}

Asleep == {t \in Threads : at[t] = "asleep"}
Awake  == {t \in Threads : at[t] = "awake"}

TypeOK ==
    /\ queue \in Seq(Items)
    /\ Len(queue) <= MaxLength
    /\ at \in [Threads -> Places]
    /\ taken \in [Threads -> Items]

Init ==
    /\ queue = << >>
    /\ at = [t \in Threads |-> "out"]
    /\ taken \in [Threads -> Items]

-----------------------------------------------------------------------------
\* Mutant: push notifies only when the queue was empty.
NotifyOneIfEmpty ==
    IF queue = << >> /\ Asleep # {}
    THEN \E t \in Asleep : at' = [at EXCEPT ![t] = "awake"]
    ELSE UNCHANGED at

\* notify_one wakes a thread in wait, if there is one.
NotifyOne ==
    IF Asleep # {} THEN \E t \in Asleep : at' = [at EXCEPT ![t] = "awake"]
    ELSE UNCHANGED at

\* Mutant: push does not respect the order of the items.
PushFront(x) ==
    /\ Len(queue) < MaxLength
    /\ queue' = <<x>> \o queue
    /\ NotifyOne
    /\ UNCHANGED taken

\* Any thread pushes, even while others are in pop.
Push(x) ==
    /\ Len(queue) < MaxLength
    /\ queue' = Append(queue, x)
    /\ NotifyOne
    /\ UNCHANGED taken

TakeFront(t) ==
    /\ taken' = [taken EXCEPT ![t] = Head(queue)]
    /\ queue' = Tail(queue)
    /\ at' = [at EXCEPT ![t] = "out"]

Call(t) ==
    /\ at[t] = "out"
    /\ at' = [at EXCEPT ![t] = "entering"]
    /\ UNCHANGED <<queue, taken>>

\* The predicate of wait, evaluated with the mutex: on entry, and again each
\* time the thread has been woken.
Pop(t) ==
    /\ at[t] \in {"entering", "awake"}
    /\ IF queue # << >> THEN TakeFront(t)
       ELSE /\ at' = [at EXCEPT ![t] = "asleep"]
            /\ UNCHANGED <<queue, taken>>

\* Condition variables may wake a thread without a reason.
SpuriousWakeup(t) ==
    /\ at[t] = "asleep"
    /\ at' = [at EXCEPT ![t] = "awake"]
    /\ UNCHANGED <<queue, taken>>

Next ==
    \/ \E x \in Items : Push(x)
    \/ \E t \in Threads : Call(t) \/ Pop(t) \/ SpuriousWakeup(t)

Spec == Init /\ [][Next]_vars

\* A thread that wants the mutex gets it in the end; nothing is asked of the
\* callers or of spurious wakeups.
FairSpec == Spec /\ \A t \in Threads : WF_vars(Pop(t))

-----------------------------------------------------------------------------
(* Properties.                                                             *)

\* No wakeup is lost: while a thread sleeps in pop, there is a woken thread on
\* its way for every item.  push notifies once per item, and threads that
\* never slept may take items meant for those that did.
NoLostWakeup == Asleep # {} => Len(queue) <= Cardinality(Awake)

Abstract == INSTANCE Fifo WITH
    items <- queue,
    asking <- {t \in Threads : at[t] # "out"}

\* The queue is a FIFO queue, and pops proceed while there are items.
ImplementsFifo == Abstract!FairFifo
=============================================================================
