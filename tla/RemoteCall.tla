----------------------------- MODULE RemoteCall ------------------------------
(* What a method call promises, over either D-Bus library: its handler runs *)
(* at most once, and the caller gets an answer only from a handler that ran *)
(* to its end or from a server that refused the call without running one.   *)
(* A failure tells the caller nothing: the handler may have run, may be     *)
(* running, or may still run.                                               *)
CONSTANT Calls

VARIABLES handler,   \* handler[c]: what became of c's handler
          result     \* result[c]: what the caller of c was told

callVars == <<handler, result>>

CallInit ==
    /\ handler = [c \in Calls |-> "none"]
    /\ result = [c \in Calls |-> "none"]

Run(c) ==
    /\ handler[c] = "none"
    /\ handler' = [handler EXCEPT ![c] = "running"]
    /\ UNCHANGED result

Refuse(c) ==
    /\ handler[c] = "none"
    /\ handler' = [handler EXCEPT ![c] = "refused"]
    /\ UNCHANGED result

Finish(c) ==
    /\ handler[c] = "running"
    /\ handler' = [handler EXCEPT ![c] = "done"]
    /\ UNCHANGED result

\* The server dies with the calls C in its handlers and queues.
Die(C) ==
    /\ \A c \in C : handler[c] \in {"none", "running"}
    /\ handler' = [c \in Calls |-> IF c \in C THEN "dead" ELSE handler[c]]
    /\ UNCHANGED result

Answer(c) ==
    /\ result[c] = "none"
    /\ handler[c] \in {"done", "refused"}
    /\ result' = [result EXCEPT ![c] = "answer"]
    /\ UNCHANGED handler

Fail(c) ==
    /\ result[c] = "none"
    /\ result' = [result EXCEPT ![c] = "failure"]
    /\ UNCHANGED handler

CallNext ==
    \/ \E c \in Calls : Run(c) \/ Refuse(c) \/ Finish(c) \/ Answer(c) \/ Fail(c)
    \/ \E C \in SUBSET Calls : Die(C)

CallSpec == CallInit /\ [][CallNext]_callVars
=============================================================================
