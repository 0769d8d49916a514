--------------------------- MODULE G_TimerProofs ----------------------------
(* Proofs about G_Timer, for any number of timers and sources.             *)
EXTENDS G_Timer, TLAPS

\* Numbers GLib has not given out belong to no source and to no timer.
Fresh ==
    /\ \A i \in Ids : i > nextId => target[i] = NoTimer
    /\ \A t \in Timers : sourceId[t] <= nextId

\* A source in dispatch is the running timer's, until it is removed.
Dispatching ==
    firing # 0 => current # NoTimer /\ target[firing] = current

IInv == TypeOK /\ SourcesOwned /\ NoAlias /\ Fresh /\ Dispatching

USE NoTimerAssumption, MaxIdAssumption

LEMMA InitInv == Init => IInv
  BY DEF Init, IInv, TypeOK, SourcesOwned, NoAlias, Fresh, Dispatching, Ids, Kinds

LEMMA StepInv == IInv /\ [Next]_vars => IInv'
<1> SUFFICES ASSUME IInv, [Next]_vars PROVE IInv'
  OBVIOUS
<1> USE DEF IInv, TypeOK, SourcesOwned, NoAlias, Fresh, Dispatching, Ids, Kinds
<1>1. CASE Return
  BY <1>1 DEF Return
<1>2. ASSUME NEW t \in Timers, Create(t) PROVE IInv'
  BY <1>2 DEF Create
<1>3. ASSUME NEW t \in Timers, Stop(t) PROVE IInv'
  BY <1>3 DEF Stop, Clear, Without, StillFiring
<1>4. ASSUME NEW t \in Timers, Destroy(t) PROVE IInv'
  BY <1>4 DEF Destroy, Clear, Without, StillFiring
<1>5. ASSUME NEW t \in Timers, NEW k \in Kinds, Start(t, k) PROVE IInv'
  <2>. DEFINE n == nextId + 1
  <2>1. /\ n \in Ids /\ nextId' = n /\ alive[t] /\ alive' = alive /\ current' = current
        /\ target' = [Without(t) EXCEPT ![n] = t]
        /\ kind' = [kind EXCEPT ![n] = k]
        /\ sourceId' = [sourceId EXCEPT ![t] = n]
        /\ firing' = StillFiring(t)
    BY <1>5 DEF Start
  <2>2. \A i \in Ids : target'[i] = IF i = n THEN t
                                     ELSE IF i = sourceId[t] THEN NoTimer ELSE target[i]
    BY <2>1 DEF Without
  <2>3. TypeOK'
    BY <2>1, <2>2 DEF Without, StillFiring
  <2>4. SourcesOwned'
    BY <2>1, <2>2
  <2>5. NoAlias'
    BY <2>1, <2>2
  <2>6. Fresh'
    BY <2>1, <2>2
  <2>7. Dispatching'
    BY <2>1, <2>2 DEF StillFiring
  <2>. QED
    BY <2>3, <2>4, <2>5, <2>6, <2>7
<1>6. ASSUME NEW t \in Timers, FireTimer(t) PROVE IInv'
  BY <1>6 DEF FireTimer, Fire
<1>7. CASE UNCHANGED vars
  BY <1>7 DEF vars
<1>. QED
  BY <1>1, <1>2, <1>3, <1>4, <1>5, <1>6, <1>7 DEF Next, Call

LEMMA Invariance == Spec => []IInv
  BY InitInv, StepInv, PTL DEF Spec

\* Every variable of G_Timer keeps its type in every run.
THEOREM TypeCorrect == Spec => []TypeOK
  BY Invariance, PTL DEF IInv

\* A source that can fire belongs to a timer that exists and would stop it.
THEOREM EverySourceOwned == Spec => []SourcesOwned
  BY Invariance, PTL DEF IInv

\* A stop with a number that is out of date hits no other timer's source.
THEOREM NoNumberAliased == Spec => []NoAlias
  BY Invariance, PTL DEF IInv

\* No call on one timer takes away the source of another.
THEOREM CallsAreLocal == Spec => CallsSpareOthers
<1>. USE DEF Ids, Kinds
<1>1. ASSUME IInv, NEW t \in Timers, Call(t),
             NEW i \in Ids, target[i] \notin {t, NoTimer}
      PROVE  target'[i] = target[i]
  <2>1. i # sourceId[t] /\ i <= nextId
    BY <1>1 DEF IInv, TypeOK, NoAlias, Fresh
  <2>2. CASE Create(t)
    BY <2>2 DEF Create
  <2>3. CASE Stop(t) \/ Destroy(t)
    BY <2>1, <2>3 DEF Stop, Destroy, Clear, Without
  <2>4. ASSUME NEW k \in Kinds, Start(t, k) PROVE target'[i] = target[i]
    BY <2>1, <2>4, <1>1 DEF Start, Without, IInv, TypeOK
  <2>. QED
    BY <1>1, <2>2, <2>3, <2>4 DEF Call
<1>2. IInv /\ [Next]_vars =>
        [\A t \in Timers : Call(t) =>
            \A i \in Ids : target[i] \notin {t, NoTimer} => target'[i] = target[i]]_vars
  BY <1>1
<1>. QED
  BY <1>2, Invariance, PTL DEF Spec, CallsSpareOthers

-----------------------------------------------------------------------------
(* G_Timer implements Timer.                                               *)

\* Of all sources, only the one a timer knows can be pending for it.
Armed(t) ==
    /\ sourceId[t] # 0
    /\ target[sourceId[t]] = t
    /\ ~(sourceId[t] = firing /\ kind[sourceId[t]] = "once")

Mode(t) ==
    IF ~alive[t] THEN "gone" ELSE IF Armed(t) THEN kind[sourceId[t]] ELSE "off"

LEMMA ModeIsOf == IInv => \A t \in Timers : modeOf(t) = Mode(t)
<1> SUFFICES ASSUME IInv, NEW t \in Timers PROVE modeOf(t) = Mode(t)
  OBVIOUS
<1>1. sourceId[t] # 0 => sourceId[t] \in Ids
  BY DEF IInv, TypeOK
<1>2. \A i \in Ids : target[i] = t => sourceId[t] = i /\ i # 0
  BY DEF IInv, SourcesOwned, Ids
<1>3. Pending(t) # {} <=> Armed(t)
  BY <1>1, <1>2 DEF Pending, Armed
<1>. QED
  BY <1>3 DEF modeOf, Mode

LEMMA ModeIsOfNext == (IInv => \A t \in Timers : modeOf(t) = Mode(t))'
  BY ModeIsOf, PTL

LEMMA ModeKept ==
    ASSUME IInv, NEW t \in Timers, NEW u \in Timers, u # t,
           alive'[u] = alive[u], sourceId'[u] = sourceId[u],
           sourceId[u] # 0 => kind'[sourceId[u]] = kind[sourceId[u]],
           sourceId[u] # 0 => target'[sourceId[u]] = Without(t)[sourceId[u]],
           firing' = StillFiring(t)
    PROVE  Mode(u)' = Mode(u)
<1>1. sourceId[u] # 0 /\ target[sourceId[u]] = u => sourceId[u] # sourceId[t]
  BY DEF IInv, TypeOK, NoAlias
<1>2. sourceId[u] # 0 => sourceId[u] \in Ids
  BY DEF IInv, TypeOK
<1>3. Armed(u)' <=> Armed(u)
  BY <1>1, <1>2 DEF Armed, Without, StillFiring
<1>. QED
  BY <1>3, <1>2 DEF Mode, Armed

\* What a step does to the abstract modes, from what it does to one timer's.
LEMMA ModeStep ==
    ASSUME IInv, IInv', NEW t \in Timers, NEW m,
           Mode(t)' = m, \A u \in Timers \ {t} : Mode(u)' = Mode(u)
    PROVE  [u \in Timers |-> modeOf(u)]' = [[u \in Timers |-> modeOf(u)] EXCEPT ![t] = m]
<1>1. \A u \in Timers : modeOf(u) = Mode(u)
  BY ModeIsOf
<1>2. \A u \in Timers : modeOf(u)' = Mode(u)'
  BY ModeIsOfNext
<1>. QED
  BY <1>1, <1>2

\* A step that leaves every Mode as it is leaves the abstract modes.
LEMMA ModeSame ==
    ASSUME IInv, IInv', \A u \in Timers : Mode(u)' = Mode(u)
    PROVE  [u \in Timers |-> modeOf(u)]' = [u \in Timers |-> modeOf(u)]
<1>1. \A u \in Timers : modeOf(u) = Mode(u)
  BY ModeIsOf
<1>2. \A u \in Timers : modeOf(u)' = Mode(u)'
  BY ModeIsOfNext
<1>. QED
  BY <1>1, <1>2

LEMMA StepRefines == IInv /\ IInv' /\ [Next]_vars => [Abstract!TimerNext]_(Abstract!timerState)
<1> SUFFICES ASSUME IInv, IInv', [Next]_vars
             PROVE  [Abstract!TimerNext]_(Abstract!timerState)
  OBVIOUS
<1> DEFINE modes == [u \in Timers |-> modeOf(u)]
<1>1. CASE Return
  <2>1. \A u \in Timers : Mode(u)' = Mode(u)
    BY <1>1 DEF Return, Mode, Armed, IInv, TypeOK, NoAlias, Dispatching
  <2>2. modes' = modes
    BY <2>1, ModeSame
  <2>. QED
    BY <1>1, <2>2 DEF Return, Abstract!TimerNext, Abstract!Finish
<1>2. ASSUME NEW t \in Timers, Create(t) PROVE Abstract!New(t)
  <2>1. Mode(t) = "gone" /\ Mode(t)' = "off"
    BY <1>2 DEF Create, Mode, Armed, IInv, TypeOK
  <2>2. \A u \in Timers \ {t} : Mode(u)' = Mode(u)
    BY <1>2 DEF Create, Mode, Armed, IInv, TypeOK
  <2>3. modes[t] = "gone"
    BY <2>1, ModeIsOf
  <2>4. modes' = [modes EXCEPT ![t] = "off"]
    BY <2>1, <2>2, ModeStep
  <2>. QED
    BY <1>2, <2>3, <2>4 DEF Create, Abstract!New, Abstract!Set
<1>3. ASSUME NEW t \in Timers, Stop(t) PROVE Abstract!Off(t)
  <2>1. Mode(t) # "gone" /\ Mode(t)' = "off"
    BY <1>3 DEF Stop, Clear, Mode, Armed, IInv, TypeOK, Kinds
  <2>2. \A u \in Timers \ {t} : Mode(u)' = Mode(u)
    BY <1>3, ModeKept DEF Stop, Clear, IInv, TypeOK
  <2>3. modes[t] # "gone"
    BY <2>1, ModeIsOf
  <2>4. modes' = [modes EXCEPT ![t] = "off"]
    BY <2>1, <2>2, ModeStep
  <2>. QED
    BY <1>3, <2>3, <2>4 DEF Stop, Abstract!Off, Abstract!Set
<1>4. ASSUME NEW t \in Timers, Destroy(t) PROVE Abstract!Delete(t)
  <2>1. Mode(t) # "gone" /\ Mode(t)' = "gone"
    BY <1>4 DEF Destroy, Clear, Mode, Armed, IInv, TypeOK, Kinds
  <2>2. \A u \in Timers \ {t} : Mode(u)' = Mode(u)
    BY <1>4, ModeKept DEF Destroy, Clear, IInv, TypeOK
  <2>3. modes[t] # "gone"
    BY <2>1, ModeIsOf
  <2>4. modes' = [modes EXCEPT ![t] = "gone"]
    BY <2>1, <2>2, ModeStep
  <2>. QED
    BY <1>4, <2>3, <2>4 DEF Destroy, Abstract!Delete, Abstract!Set
<1>5. ASSUME NEW t \in Timers, NEW k \in Kinds, Start(t, k) PROVE Abstract!SetTo(t, k)
  <2>1. nextId + 1 \in Ids /\ nextId' = nextId + 1 /\ firing # nextId + 1
    BY <1>5 DEF Start, IInv, TypeOK, Fresh, Dispatching, Ids
  <2>2. Mode(t) # "gone" /\ Mode(t)' = k
    BY <1>5, <2>1 DEF Start, Without, StillFiring, Mode, Armed, IInv, TypeOK, Kinds, Ids
  <2>3. \A u \in Timers \ {t} : sourceId[u] # nextId + 1
    BY DEF IInv, TypeOK, Fresh, Ids
  <2>4. \A u \in Timers \ {t} : Mode(u)' = Mode(u)
    <3> SUFFICES ASSUME NEW u \in Timers \ {t} PROVE Mode(u)' = Mode(u)
      OBVIOUS
    <3>1. alive'[u] = alive[u] /\ sourceId'[u] = sourceId[u] /\ firing' = StillFiring(t)
      BY <1>5 DEF Start, IInv, TypeOK
    <3>2. sourceId[u] # 0 => /\ kind'[sourceId[u]] = kind[sourceId[u]]
                             /\ target'[sourceId[u]] = Without(t)[sourceId[u]]
      BY <1>5, <2>1, <2>3 DEF Start, IInv, TypeOK, Without
    <3>. QED
      BY <3>1, <3>2, ModeKept
  <2>5. modes[t] # "gone"
    BY <2>2, ModeIsOf
  <2>6. modes' = [modes EXCEPT ![t] = k]
    BY <2>2, <2>4, ModeStep
  <2>. QED
    BY <1>5, <2>5, <2>6 DEF Start, Abstract!SetTo, Abstract!Set
<1>6. ASSUME NEW t \in Timers, FireTimer(t) PROVE Abstract!Expire(t)
  <2>1. PICK i \in Ids : target[i] = t /\ Fire(i)
    BY <1>6 DEF FireTimer
  <2>2. i # 0 /\ sourceId[t] = i /\ alive[t] /\ firing = 0
    BY <2>1 DEF Fire, IInv, SourcesOwned, Dispatching, Ids
  <2>3. Mode(t) = kind[i] /\ kind[i] \in Kinds
    BY <2>1, <2>2 DEF Mode, Armed, IInv, TypeOK
  <2>4. Mode(t)' = IF kind[i] = "once" THEN "off" ELSE kind[i]
    BY <2>1, <2>2 DEF Fire, Mode, Armed
  <2>5. \A u \in Timers \ {t} : Mode(u)' = Mode(u)
    BY <2>1, <2>2 DEF Fire, Mode, Armed
  <2>6. modes[t] = kind[i]
    BY <2>3, ModeIsOf
  <2>7. modes' = [modes EXCEPT ![t] = IF kind[i] = "once" THEN "off" ELSE kind[i]]
    BY <2>4, <2>5, ModeStep
  <2>. QED
    BY <2>1, <2>3, <2>6, <2>7 DEF Fire, Abstract!Expire, Abstract!Kinds, Kinds
<1>7. CASE UNCHANGED vars
  <2>1. \A u \in Timers : Mode(u)' = Mode(u)
    BY <1>7 DEF vars, Mode, Armed
  <2>2. modes' = modes
    BY <2>1, ModeSame
  <2>. QED
    BY <1>7, <2>2 DEF vars, Abstract!timerState
<1>. QED
  BY <1>1, <1>2, <1>3, <1>4, <1>5, <1>6, <1>7
  DEF Next, Call, Abstract!TimerNext, Abstract!Kinds, Kinds

\* Whatever is called, and from whatever callback, G_Timer does what Timer
\* promises.
THEOREM Refinement == Spec => ImplementsTimer
<1>1. Init => Abstract!TimerInit
  <2> SUFFICES ASSUME Init PROVE Abstract!TimerInit
    OBVIOUS
  <2>1. \A t \in Timers : modeOf(t) = "gone"
    BY DEF Init, modeOf
  <2>. QED
    BY <2>1 DEF Init, Abstract!TimerInit
<1>. QED
  BY <1>1, StepRefines, Invariance, PTL DEF Spec, ImplementsTimer, Abstract!TimerSpec
=============================================================================
