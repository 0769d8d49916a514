------------------------------- MODULE Timer --------------------------------
(***************************************************************************)
(* What a G_Timer promises: it is off, or set to run its callback once or  *)
(* in a cycle; the last start or stop decides, also when it is made from a *)
(* callback, the timer's own included; nothing runs after it is destroyed. *)
(***************************************************************************)
CONSTANTS Timers, NoTimer

VARIABLES
    mode,      \* mode[t]: gone, off, or set to once or cycle
    running    \* the timer whose callback runs, or NoTimer

timerState == <<mode, running>>

Kinds == {"once", "cycle"}

TimerInit ==
    /\ mode = [t \in Timers |-> "gone"]
    /\ running = NoTimer

Set(t, m) == mode' = [mode EXCEPT ![t] = m] /\ UNCHANGED running

New(t)       == mode[t] = "gone" /\ Set(t, "off")
SetTo(t, k)  == mode[t] # "gone" /\ Set(t, k)
Off(t)       == mode[t] # "gone" /\ Set(t, "off")
Delete(t)    == mode[t] # "gone" /\ Set(t, "gone")

\* The callback runs; a timer set to once is off from then on.
Expire(t) ==
    /\ running = NoTimer
    /\ mode[t] \in Kinds
    /\ running' = t
    /\ mode' = [mode EXCEPT ![t] = IF @ = "once" THEN "off" ELSE @]

Finish == running # NoTimer /\ running' = NoTimer /\ UNCHANGED mode

TimerNext ==
    \/ \E t \in Timers : New(t) \/ Off(t) \/ Delete(t) \/ Expire(t)
    \/ \E t \in Timers, k \in Kinds : SetTo(t, k)
    \/ Finish

TimerSpec == TimerInit /\ [][TimerNext]_timerState
=============================================================================
