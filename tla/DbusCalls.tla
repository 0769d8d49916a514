------------------------------ MODULE DbusCalls ------------------------------
(***************************************************************************)
(* Method calls between processes: G_DbusClient::call_method and the       *)
(* libdbus DbusClient::callMethod, served by G_DbusServer's                *)
(* dispatch_method_call and DbusServer's dbus_message_dispatch.            *)
(*                                                                         *)
(* Every process has one loop, which dispatches a request or runs the      *)
(* program's own code (a ready or timer callback).  A call blocks the loop *)
(* until its answer or the libraries' default timeout; meanwhile requests  *)
(* queue up.  A handler may call, too, its caller and itself included.     *)
(* The daemon delivers what is sent to a process in order, and answers in  *)
(* the place of a process that is gone.                                    *)
(***************************************************************************)
EXTENDS Sequences, FiniteSets

CONSTANTS
    Procs,      \* the processes
    Libdbus,    \* those on DbusServer and DbusClient; the others use GLib
    Peers,      \* Peers[p]: the servers p calls
    Requests,   \* the kinds of requests made (see Kinds)
    Calls,      \* bound: the calls made in a run
    NoProc, NoCall

ASSUME LibdbusAssumption == Libdbus \subseteq Procs
ASSUME PeersAssumption   == Peers \in [Procs -> SUBSET Procs]
ASSUME NoProcAssumption  == NoProc \notin Procs
ASSUME NoCallAssumption  == NoCall \notin Calls /\ Calls \cap {"idle", "user"} = {}

VARIABLES
    up,        \* up[p]: p runs and its names are known to the daemon
    body,      \* body[p]: what the loop of p runs: nothing, the program, a call
    waits,     \* waits[p]: the call p is blocked in
    inbox,     \* inbox[p]: requests p has not dispatched
    from, to,  \* from[c], to[c]: caller and server
    asks,      \* asks[c]: what kind of request it is
    handler,   \* handler[c]: what became of its handler
    answer,    \* answer[c]: what the server, or the daemon, sent back
    told,      \* told[c]: what the call returned
    output     \* output[c]: the caller's reply was assigned

vars == <<up, body, waits, inbox, from, to, asks, handler, answer, told, output>>

\* A request with a JSON or an empty argument, for a known method; one with
\* an argument that is not JSON; one for an unknown object, interface, method.
Kinds == {"valid", "notJson", "unknown"}

ASSUME RequestsAssumption == Requests \subseteq Kinds

TypeOK ==
    /\ up \in [Procs -> BOOLEAN]
    /\ body \in [Procs -> Calls \cup {"idle", "user"}]
    /\ waits \in [Procs -> Calls \cup {NoCall}]
    /\ inbox \in [Procs -> Seq(Calls)]
    /\ from \in [Calls -> Procs \cup {NoProc}]
    /\ to \in [Calls -> Procs \cup {NoProc}]
    /\ asks \in [Calls -> Kinds]
    /\ handler \in [Calls -> {"none", "running", "refused", "done", "dead"}]
    /\ answer \in [Calls -> {"none", "json", "error"}]
    /\ told \in [Calls -> {"none", "true", "false"}]
    /\ output \in [Calls -> BOOLEAN]

Init ==
    /\ up = [p \in Procs |-> TRUE]
    /\ body = [p \in Procs |-> "idle"]
    /\ waits = [p \in Procs |-> NoCall]
    /\ inbox = [p \in Procs |-> << >>]
    /\ from = [c \in Calls |-> NoProc]
    /\ to = [c \in Calls |-> NoProc]
    /\ asks = [c \in Calls |-> "valid"]
    /\ handler = [c \in Calls |-> "none"]
    /\ answer = [c \in Calls |-> "none"]
    /\ told = [c \in Calls |-> "none"]
    /\ output = [c \in Calls |-> FALSE]

-----------------------------------------------------------------------------
(* The caller.                                                             *)

\* The loop enters a ready or timer callback of the program, and leaves it.
EnterUser(p) ==
    /\ up[p]
    /\ body[p] = "idle"
    /\ body' = [body EXCEPT ![p] = "user"]
    /\ UNCHANGED <<up, waits, inbox, from, to, asks, handler, answer, told, output>>

LeaveUser(p) ==
    /\ body[p] = "user"
    /\ waits[p] = NoCall
    /\ body' = [body EXCEPT ![p] = "idle"]
    /\ UNCHANGED <<up, waits, inbox, from, to, asks, handler, answer, told, output>>

\* call_method with a connection and a proxy: the request goes to q, or the
\* daemon answers that there is no such name.
Send(p, q, c, r) ==
    /\ body[p] # "idle"
    /\ waits[p] = NoCall
    /\ from[c] = NoProc
    /\ from' = [from EXCEPT ![c] = p]
    /\ to' = [to EXCEPT ![c] = q]
    /\ asks' = [asks EXCEPT ![c] = r]
    /\ waits' = [waits EXCEPT ![p] = c]
    /\ IF up[q]
       THEN /\ inbox' = [inbox EXCEPT ![q] = Append(@, c)]
            /\ UNCHANGED <<handler, answer>>
       ELSE /\ handler' = [handler EXCEPT ![c] = "dead"]
            /\ answer' = [answer EXCEPT ![c] = "error"]
            /\ UNCHANGED inbox
    /\ UNCHANGED <<up, body, told, output>>

\* The call of p returns v, with the reply assigned or not.
Return(p, v, assigned) ==
    LET c == waits[p] IN
    /\ waits' = [waits EXCEPT ![p] = NoCall]
    /\ told' = [told EXCEPT ![c] = v]
    /\ output' = [output EXCEPT ![c] = assigned]

\* Mutant: G_DbusClient goes on after an error.
OnErrorIgnored(p) == Return(p, "true", FALSE)

\* An error is a failure for GLib.  libdbus hands it over as a message whose
\* text is not JSON: callMethod logs that and returns a handler result that
\* converts to true, with the reply unchanged.
OnError(p) == Return(p, IF p \in Libdbus THEN "true" ELSE "false", FALSE)

Receive(p) ==
    /\ waits[p] # NoCall
    /\ \/ answer[waits[p]] = "json" /\ Return(p, "true", TRUE)
       \/ answer[waits[p]] = "error" /\ OnError(p)
    /\ UNCHANGED <<up, body, inbox, from, to, asks, handler, answer>>

\* Mutant: calls are made with no timeout.
TimeoutNever(p) == FALSE /\ UNCHANGED vars

\* Mutant: a call that times out while its handler runs is sent again.
TimeoutResend(p) ==
    LET c == waits[p] IN
    /\ c # NoCall
    /\ answer[c] = "none"
    /\ handler[c] = "running"
    /\ \A i \in DOMAIN inbox[to[c]] : inbox[to[c]][i] # c
    /\ inbox' = [inbox EXCEPT ![to[c]] = Append(@, c)]
    /\ UNCHANGED <<up, body, waits, from, to, asks, handler, answer, told, output>>

\* The default timeout: the library makes up an error, and the request stays
\* where it is.
Timeout(p) ==
    /\ waits[p] # NoCall
    /\ answer[waits[p]] = "none"
    /\ OnError(p)
    /\ UNCHANGED <<up, body, inbox, from, to, asks, handler, answer>>

-----------------------------------------------------------------------------
(* The server.                                                             *)

\* Mutant: a blocking call runs the loop while it waits.
DispatchNested(p) ==
    /\ up[p]
    /\ body[p] = "idle" \/ waits[p] # NoCall
    /\ inbox[p] # << >>
    /\ inbox' = [inbox EXCEPT ![p] = Tail(@)]
    /\ handler' = [handler EXCEPT ![Head(inbox[p])] = "done"]
    /\ answer' = [answer EXCEPT ![Head(inbox[p])] = "json"]
    /\ UNCHANGED <<up, body, waits, from, to, asks, told, output>>

\* The request at the head of the queue of p is found: its handler starts.
\* Otherwise GLib's dispatch replies with a code to what is not JSON, and the
\* rest is answered by the libraries with an error.
Dispatch(p) ==
    /\ up[p]
    /\ body[p] = "idle"
    /\ inbox[p] # << >>
    /\ inbox' = [inbox EXCEPT ![p] = Tail(@)]
    /\ LET c == Head(inbox[p]) IN
       IF asks[c] = "valid"
       THEN /\ body' = [body EXCEPT ![p] = c]
            /\ handler' = [handler EXCEPT ![c] = "running"]
            /\ UNCHANGED answer
       ELSE /\ handler' = [handler EXCEPT ![c] = "refused"]
            /\ answer' = [answer EXCEPT ![c] =
                            IF asks[c] = "notJson" /\ p \notin Libdbus
                            THEN "json" ELSE "error"]
            /\ UNCHANGED body
    /\ UNCHANGED <<up, waits, from, to, asks, told, output>>

\* The handler returns true or false; both are answered in JSON.
HandlerReturns(p) ==
    /\ body[p] \in Calls
    /\ waits[p] = NoCall
    /\ body' = [body EXCEPT ![p] = "idle"]
    /\ handler' = [handler EXCEPT ![body[p]] = "done"]
    /\ answer' = [answer EXCEPT ![body[p]] = "json"]
    /\ UNCHANGED <<up, waits, inbox, from, to, asks, told, output>>

\* p ends in whatever it does; the daemon answers the requests it leaves.
Lost(p) == {c \in Calls : to[c] = p /\ answer[c] = "none"}

ProcEnd(p) ==
    /\ up[p]
    /\ up' = [up EXCEPT ![p] = FALSE]
    /\ body' = [body EXCEPT ![p] = "idle"]
    /\ waits' = [waits EXCEPT ![p] = NoCall]
    /\ inbox' = [inbox EXCEPT ![p] = << >>]
    /\ handler' = [c \in Calls |-> IF c \in Lost(p) THEN "dead" ELSE handler[c]]
    /\ answer' = [c \in Calls |-> IF c \in Lost(p) THEN "error" ELSE answer[c]]
    /\ UNCHANGED <<from, to, asks, told, output>>

ProcStart(p) ==
    /\ ~up[p]
    /\ up' = [up EXCEPT ![p] = TRUE]
    /\ UNCHANGED <<body, waits, inbox, from, to, asks, handler, answer, told, output>>

-----------------------------------------------------------------------------
Loop(p) == Dispatch(p) \/ HandlerReturns(p) \/ LeaveUser(p)

Next ==
    \E p \in Procs :
        \/ EnterUser(p) \/ Receive(p) \/ Timeout(p) \/ Loop(p)
        \/ \E q \in Peers[p], c \in Calls, r \in Requests : Send(p, q, c, r)
        \/ ProcEnd(p) \/ ProcStart(p)

Spec == Init /\ [][Next]_vars

\* Answers arrive, timers expire, handlers and callbacks return, and a loop
\* serves every source that is ready again and again, its requests included.
Fairness ==
    \A p \in Procs :
        /\ WF_vars(Receive(p)) /\ WF_vars(Timeout(p))
        /\ WF_vars(HandlerReturns(p)) /\ WF_vars(LeaveUser(p))
        /\ SF_vars(Dispatch(p))

FairSpec == Spec /\ Fairness

-----------------------------------------------------------------------------
(* Properties.                                                             *)

\* A call that G_DbusClient reports as a success has an answer of its server.
\* DbusClient promises less: its true says nothing.
TrueMeansAnswered ==
    \A c \in Calls :
        told[c] = "true" /\ from[c] \notin Libdbus
            => output[c] /\ handler[c] \in {"done", "refused"}

\* p waits for q: its request is queued at q or in q's handler.
WaitsFor(p, q) == waits[p] # NoCall /\ answer[waits[p]] = "none" /\ to[waits[p]] = q

\* p waits for itself, for a process that waits for p, or for one of a ring
\* of three.
InCycle(p) ==
    \/ WaitsFor(p, p)
    \/ \E q \in Procs : WaitsFor(p, q) /\ WaitsFor(q, p)
    \/ \E q, r \in Procs : WaitsFor(p, q) /\ WaitsFor(q, r) /\ WaitsFor(r, p)

\* Processes that wait for each other answer none of each other's calls: only
\* a timeout, or the end of one of them, gets them out.
CyclesBlock ==
    [][\A p \in Procs : InCycle(p) /\ up' = up => answer'[waits[p]] = "none"]_vars

\* Every call returns or ends with its process, and every request is
\* dispatched or ends with its server, although processes may wait for each
\* other: the timeouts break the cycles.
CallsSettle ==
    /\ \A p \in Procs, c \in Calls : waits[p] = c ~> waits[p] # c
    /\ \A p \in Procs : inbox[p] # << >> ~> inbox[p] = << >>

Abstract == INSTANCE RemoteCall WITH
    result <- [c \in Calls |-> IF output[c] THEN "answer"
                               ELSE IF told[c] # "none" THEN "failure" ELSE "none"]

\* Calls are remote calls: at most one run of the handler, and an answer only
\* after it.
ImplementsCalls == Abstract!CallSpec
=============================================================================
