------------------------------ MODULE G_Timer -------------------------------
(***************************************************************************)
(* G_Timer (src/src/lib/g_timer): one-shot and periodic timers, each over  *)
(* a GLib timeout source that it knows by the number sourceId_.  Timers    *)
(* and callbacks share one main loop; a callback may start, stop, create   *)
(* and destroy any timer, its own included.  GLib's sources are external.  *)
(*                                                                         *)
(* A one-shot source is removed by what its callback returns, and then     *)
(* sourceId_ keeps the number of a source that is gone.  GLib hands out    *)
(* fresh numbers until the 32-bit counter wraps, which is not modelled.    *)
(***************************************************************************)
EXTENDS Naturals

CONSTANTS Timers,   \* the G_Timer objects
          NoTimer,  \* no timer
          MaxId     \* bound: sources made in a run

ASSUME NoTimerAssumption == NoTimer \notin Timers
ASSUME MaxIdAssumption   == MaxId \in Nat

VARIABLES
    alive,     \* alive[t]: the object exists
    sourceId,  \* sourceId[t]: sourceId_, or 0
    target,    \* target[i]: the timer source i calls back, or NoTimer
    kind,      \* kind[i]: what its callback returns (once removes it)
    nextId,    \* the last number GLib gave a source
    current,   \* the timer whose callback runs, or NoTimer
    firing     \* the source that runs it, or 0 once it was removed

vars == <<alive, sourceId, target, kind, nextId, current, firing>>

Ids   == 1 .. MaxId
Kinds == {"once", "cycle"}

TypeOK ==
    /\ alive \in [Timers -> BOOLEAN]
    /\ sourceId \in [Timers -> Ids \cup {0}]
    /\ target \in [Ids -> Timers \cup {NoTimer}]
    /\ kind \in [Ids -> Kinds]
    /\ nextId \in 0 .. MaxId
    /\ current \in Timers \cup {NoTimer}
    /\ firing \in Ids \cup {0}

Init ==
    /\ alive = [t \in Timers |-> FALSE]
    /\ sourceId = [t \in Timers |-> 0]
    /\ target = [i \in Ids |-> NoTimer]
    /\ kind = [i \in Ids |-> "once"]
    /\ nextId = 0
    /\ current = NoTimer
    /\ firing = 0

\* g_source_remove(sourceId_), if it is not 0: the sources left, and the one
\* in dispatch if it is still there.
Without(t)    == [i \in Ids |-> IF i = sourceId[t] THEN NoTimer ELSE target[i]]
StillFiring(t) == IF firing = sourceId[t] THEN 0 ELSE firing

-----------------------------------------------------------------------------
\* Mutant: the constructor does not initialise sourceId_.
CreateGarbage(t) ==
    /\ ~alive[t]
    /\ alive' = [alive EXCEPT ![t] = TRUE]
    /\ \E i \in Ids : sourceId' = [sourceId EXCEPT ![t] = i]
    /\ UNCHANGED <<target, kind, nextId, current, firing>>

Create(t) ==
    /\ ~alive[t]
    /\ alive' = [alive EXCEPT ![t] = TRUE]
    /\ sourceId' = [sourceId EXCEPT ![t] = 0]
    /\ UNCHANGED <<target, kind, nextId, current, firing>>

\* Mutant: start_once and start_cycle do not stop the timer first.
StartUnstopped(t, k) ==
    /\ alive[t]
    /\ nextId < MaxId
    /\ nextId' = nextId + 1
    /\ target' = [target EXCEPT ![nextId'] = t]
    /\ kind' = [kind EXCEPT ![nextId'] = k]
    /\ sourceId' = [sourceId EXCEPT ![t] = nextId']
    /\ UNCHANGED <<alive, current, firing>>

\* start_once and start_cycle: stop, then a new source.
Start(t, k) ==
    /\ alive[t]
    /\ nextId < MaxId
    /\ nextId' = nextId + 1
    /\ target' = [Without(t) EXCEPT ![nextId'] = t]
    /\ kind' = [kind EXCEPT ![nextId'] = k]
    /\ sourceId' = [sourceId EXCEPT ![t] = nextId']
    /\ firing' = StillFiring(t)
    /\ UNCHANGED <<alive, current>>

Clear(t) ==
    /\ sourceId' = [sourceId EXCEPT ![t] = 0]
    /\ target' = Without(t)
    /\ firing' = StillFiring(t)

Stop(t) ==
    /\ alive[t]
    /\ Clear(t)
    /\ UNCHANGED <<alive, kind, nextId, current>>

\* The destructor stops the timer.
Destroy(t) ==
    /\ alive[t]
    /\ alive' = [alive EXCEPT ![t] = FALSE]
    /\ Clear(t)
    /\ UNCHANGED <<kind, nextId, current>>

\* The main loop dispatches source i: once_callback and cycle_callback copy
\* cb_ and call it; from here on the user's calls are its body.
Fire(i) ==
    /\ current = NoTimer
    /\ target[i] # NoTimer
    /\ current' = target[i]
    /\ firing' = i
    /\ UNCHANGED <<alive, sourceId, target, kind, nextId>>

\* Mutant: once_callback returns G_SOURCE_CONTINUE.
ReturnContinue ==
    /\ current # NoTimer
    /\ current' = NoTimer
    /\ firing' = 0
    /\ UNCHANGED <<alive, sourceId, target, kind, nextId>>

\* The callback returns; G_SOURCE_REMOVE removes the source in dispatch, if
\* the callback has not removed it already, and leaves sourceId_ alone.
Return ==
    /\ current # NoTimer
    /\ current' = NoTimer
    /\ firing' = 0
    /\ target' = [i \in Ids |-> IF i = firing /\ kind[i] = "once" THEN NoTimer
                                ELSE target[i]]
    /\ UNCHANGED <<alive, sourceId, kind, nextId>>

FireTimer(t) == \E i \in Ids : target[i] = t /\ Fire(i)

Call(t) == Create(t) \/ Stop(t) \/ Destroy(t) \/ \E k \in Kinds : Start(t, k)

Next == Return \/ \E t \in Timers : Call(t) \/ FireTimer(t)

Spec == Init /\ [][Next]_vars

-----------------------------------------------------------------------------
(* Properties.                                                             *)

\* Every source that can fire is the one its timer would stop, and its timer
\* exists: a timer never has two sources, none survives a stop, a restart or
\* the destructor, and no callback gets a destroyed timer.
SourcesOwned ==
    \A i \in Ids : target[i] # NoTimer =>
        alive[target[i]] /\ sourceId[target[i]] = i

\* The number a timer keeps is 0, its own source's, or that of a source that
\* is gone: the stop that follows removes nobody else's source, although a
\* one-shot timer keeps the number of a source that has removed itself.
NoAlias ==
    \A t \in Timers :
        sourceId[t] # 0 => target[sourceId[t]] \in {t, NoTimer}

\* A call on one timer never takes away the source of another.
CallsSpareOthers ==
    [][\A t \in Timers : Call(t) =>
          \A i \in Ids : target[i] \notin {t, NoTimer} => target'[i] = target[i]]_vars

\* A timer is set while a source of its own will still call it: a one-shot
\* source in dispatch will not.
Pending(t) == {i \in Ids : target[i] = t /\ ~(i = firing /\ kind[i] = "once")}

modeOf(t) ==
    IF ~alive[t] THEN "gone"
    ELSE IF Pending(t) = {} THEN "off"
    ELSE kind[sourceId[t]]

Abstract == INSTANCE Timer WITH
    mode <- [t \in Timers |-> modeOf(t)],
    running <- current

\* Every step of a G_Timer is one of Timer: what a start or stop decides holds
\* also when it is called from a callback, the timer's own included.
ImplementsTimer == Abstract!TimerSpec
=============================================================================
