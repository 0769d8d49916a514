--------------------------- MODULE CountDownLatch ----------------------------
(***************************************************************************)
(* CountDownLatch (src/src/lib/countDownLatch.h): threads wait until the   *)
(* latch has been counted down to zero.  As in BlockingQueue, a step is one *)
(* critical section of the latch's mutex.                                  *)
(***************************************************************************)
EXTENDS Integers

CONSTANTS Threads,
          Count,      \* the constructor's argument
          MaxDowns    \* bound: calls of countDown

ASSUME CountAssumption == Count \in Nat
ASSUME DownsAssumption == MaxDowns \in Nat

VARIABLES
    count,    \* count_
    downs,    \* the calls of countDown so far
    at        \* at[t]: where thread t is

vars == <<count, downs, at>>

\* Outside; before the lock in wait; asleep; woken, before the mutex; returned.
Places == {"out", "entering", "asleep", "awake", "passed"}

TypeOK ==
    /\ count \in (Count - MaxDowns) .. Count
    /\ downs \in 0 .. MaxDowns
    /\ at \in [Threads -> Places]

Init ==
    /\ count = Count
    /\ downs = 0
    /\ at = [t \in Threads |-> "out"]

-----------------------------------------------------------------------------
\* Mutant: countDown calls notify_one.
NotifyOne ==
    \E t \in Threads :
        /\ at[t] = "asleep" \/ \A u \in Threads : at[u] # "asleep"
        /\ at' = [at EXCEPT ![t] = IF @ = "asleep" THEN "awake" ELSE @]

\* notify_all wakes every thread in wait.
NotifyAll ==
    at' = [t \in Threads |-> IF at[t] = "asleep" THEN "awake" ELSE at[t]]

CountDown ==
    /\ downs < MaxDowns
    /\ downs' = downs + 1
    /\ count' = count - 1
    /\ IF count' = 0 THEN NotifyAll ELSE UNCHANGED at

Call(t) ==
    /\ at[t] = "out"
    /\ at' = [at EXCEPT ![t] = "entering"]
    /\ UNCHANGED <<count, downs>>

\* The predicate of wait, with the mutex, on entry and after each wakeup.
Wait(t) ==
    /\ at[t] \in {"entering", "awake"}
    /\ at' = [at EXCEPT ![t] = IF count = 0 THEN "passed" ELSE "asleep"]
    /\ UNCHANGED <<count, downs>>

SpuriousWakeup(t) ==
    /\ at[t] = "asleep"
    /\ at' = [at EXCEPT ![t] = "awake"]
    /\ UNCHANGED <<count, downs>>

Next ==
    \/ CountDown
    \/ \E t \in Threads : Call(t) \/ Wait(t) \/ SpuriousWakeup(t)

Spec == Init /\ [][Next]_vars

\* A thread that wants the mutex gets it in the end.
FairSpec == Spec /\ \A t \in Threads : WF_vars(Wait(t))

-----------------------------------------------------------------------------
(* Properties.                                                             *)

\* Nobody gets through wait before the latch was counted down Count times,
\* spurious wakeups or not.
NobodyEarly == \A t \in Threads : at[t] = "passed" => downs >= Count

\* At zero nobody sleeps on: a thread goes to sleep only under the mutex that
\* countDown needs, so the one notification finds all of them.
NobodyLeft == count = 0 => \A t \in Threads : at[t] # "asleep"

\* Once the latch stays at zero every thread that waits gets through.  One
\* countDown too many takes that away: a woken thread that has not had the
\* mutex by then finds a negative count.
WaitersPass ==
    <>[](count = 0) => \A t \in Threads : at[t] = "entering" ~> at[t] = "passed"
=============================================================================
