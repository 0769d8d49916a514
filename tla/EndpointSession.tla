-------------------------- MODULE EndpointSession ---------------------------
(***************************************************************************)
(* What a toolkit endpoint promises its program, whatever the bus does:    *)
(* after own_name it is always joining, online or about to retry; it can   *)
(* use the connection (get_bus_ready) only between being handed it and     *)
(* losing the name; and it never gives up retrying.                        *)
(***************************************************************************)
CONSTANT Endpoints

VARIABLES
    phase,   \* phase[e]: where the endpoint is in its life
    ready    \* ready[e]: get_bus_ready()

sessions == <<phase, ready>>

Phases == {"absent", "built", "joining", "online", "backoff"}

SessionTypeOK ==
    /\ phase \in [Endpoints -> Phases]
    /\ ready \in [Endpoints -> BOOLEAN]

SessionInit ==
    /\ phase = [e \in Endpoints |-> "absent"]
    /\ ready = [e \in Endpoints |-> FALSE]

\* Endpoint e goes from one of the phases in from to phase to.
Move(e, from, to) ==
    /\ phase[e] \in from
    /\ phase' = [phase EXCEPT ![e] = to]
    /\ UNCHANGED ready

Build(e)  == Move(e, {"absent"}, "built")
Join(e)   == Move(e, {"built"}, "joining")
Enter(e)  == ready[e] /\ Move(e, {"joining"}, "online")
Retry(e)  == Move(e, {"backoff"}, "joining")

Acquire(e) ==
    /\ phase[e] = "joining"
    /\ ready' = [ready EXCEPT ![e] = TRUE]
    /\ UNCHANGED phase

\* The endpoints S of one process leave together, for backoff (they lost the
\* name or the bus) or for good (the process ended).
Leave(S, to) ==
    /\ phase' = [e \in Endpoints |-> IF e \in S THEN to ELSE phase[e]]
    /\ ready' = [e \in Endpoints |-> ready[e] /\ e \notin S]

Lose(S) == (\A e \in S : phase[e] \in {"joining", "online"}) /\ Leave(S, "backoff")

SessionNext ==
    \/ \E e \in Endpoints : Build(e) \/ Join(e) \/ Acquire(e) \/ Enter(e) \/ Retry(e)
    \/ \E S \in SUBSET Endpoints : Lose(S) \/ Leave(S, "absent")

SessionSpec == SessionInit /\ [][SessionNext]_sessions

NeverGivesUp == \A e \in Endpoints : WF_sessions(Retry(e))

FairSession == SessionSpec /\ NeverGivesUp
=============================================================================
