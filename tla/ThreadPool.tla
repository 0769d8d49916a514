----------------------------- MODULE ThreadPool ------------------------------
(***************************************************************************)
(* httplib's ThreadPool (src/src/lib/httplib.h): a queue of jobs, worker   *)
(* threads that wait for them on a condition variable, and a shutdown that *)
(* lets the workers empty the queue before it joins them.  A critical      *)
(* section of mutex_ is one step; notify comes after it.                   *)
(***************************************************************************)
EXTENDS Naturals, Sequences

CONSTANTS
    Workers,    \* the threads of the pool
    Jobs,       \* what can be queued
    NoJob,      \* the job of a worker that has none
    MaxQueued   \* max_queued_requests_, 0 for no limit

ASSUME PoolAssumption == NoJob \notin Jobs /\ MaxQueued \in Nat
\* CPPHTTPLIB_THREAD_POOL_COUNT is 8 at least.
ASSUME WorkersAssumption == Workers # {}

VARIABLES
    jobs,       \* jobs_
    shutdown,   \* shutdown_
    at,         \* at[w]: "ready" to lock mutex_, "waiting", "busy" or "out"
    job         \* job[w]: what w runs

poolVars == <<jobs, shutdown, at, job>>

PoolTypeOK ==
    /\ jobs \in Seq(Jobs)
    /\ shutdown \in BOOLEAN
    /\ at \in [Workers -> {"ready", "waiting", "busy", "out"}]
    /\ job \in [Workers -> Jobs \cup {NoJob}]

\* The constructor starts the workers.
PoolInit ==
    /\ jobs = <<>>
    /\ shutdown = FALSE
    /\ at = [w \in Workers |-> "ready"]
    /\ job = [w \in Workers |-> NoJob]

PoolStarts ==
    /\ jobs' = <<>>
    /\ shutdown' = FALSE
    /\ at' = [w \in Workers |-> "ready"]
    /\ job' = [w \in Workers |-> NoJob]

Full == MaxQueued > 0 /\ Len(jobs) >= MaxQueued

Waiting == {w \in Workers : at[w] = "waiting"}

\* notify_one: one of the waiting workers, if there are any, tests again.
NotifyOne ==
    \/ Waiting = {} /\ UNCHANGED at
    \/ \E w \in Waiting : at' = [at EXCEPT ![w] = "ready"]

\* enqueue of j, when it returns true.
Enqueue(j) ==
    /\ ~Full
    /\ jobs' = Append(jobs, j)
    /\ NotifyOne
    /\ UNCHANGED <<shutdown, job>>

\* Mutant: nobody is notified.
PoolShutdownSilent ==
    /\ shutdown' = TRUE
    /\ UNCHANGED <<jobs, at, job>>

\* shutdown, up to the joins: every waiting worker tests again.
PoolShutdown ==
    /\ shutdown' = TRUE
    /\ at' = [w \in Workers |-> IF at[w] = "waiting" THEN "ready" ELSE at[w]]
    /\ UNCHANGED <<jobs, job>>

\* A worker that has the mutex waits while there is no job and no shutdown.
WorkerWaits(w) ==
    /\ at[w] = "ready" /\ jobs = <<>> /\ ~shutdown
    /\ at' = [at EXCEPT ![w] = "waiting"]
    /\ UNCHANGED <<jobs, shutdown, job>>

\* It takes the oldest job, also after the shutdown.
WorkerTakes(w) ==
    /\ at[w] = "ready" /\ jobs # <<>>
    /\ job' = [job EXCEPT ![w] = Head(jobs)]
    /\ jobs' = Tail(jobs)
    /\ at' = [at EXCEPT ![w] = "busy"]
    /\ UNCHANGED shutdown

\* The job returns.
WorkerDone(w) ==
    /\ at[w] = "busy"
    /\ job' = [job EXCEPT ![w] = NoJob]
    /\ at' = [at EXCEPT ![w] = "ready"]
    /\ UNCHANGED <<jobs, shutdown>>

\* With nothing left to do after the shutdown the thread ends.
WorkerLeaves(w) ==
    /\ at[w] = "ready" /\ jobs = <<>> /\ shutdown
    /\ at' = [at EXCEPT ![w] = "out"]
    /\ UNCHANGED <<jobs, shutdown, job>>

\* All of shutdown's joins have returned.
Joined == \A w \in Workers : at[w] = "out"
=============================================================================
