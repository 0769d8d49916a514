-------------------------------- MODULE Fifo --------------------------------
(* What a BlockingQueue promises: a FIFO queue from which threads that ask  *)
(* take one item each, as long as there are items and threads that ask.     *)
EXTENDS Sequences

CONSTANTS Threads, Items

VARIABLES items,    \* the queue
          asking,   \* the threads inside pop
          taken     \* taken[t]: what t's last pop returned

fifoVars == <<items, asking, taken>>

FifoInit ==
    /\ items = << >>
    /\ asking = {}
    /\ taken \in [Threads -> Items]

Put(x) ==
    /\ items' = Append(items, x)
    /\ UNCHANGED <<asking, taken>>

Ask(t) ==
    /\ t \notin asking
    /\ asking' = asking \cup {t}
    /\ UNCHANGED <<items, taken>>

Take(t) ==
    /\ t \in asking
    /\ items # << >>
    /\ items' = Tail(items)
    /\ taken' = [taken EXCEPT ![t] = Head(items)]
    /\ asking' = asking \ {t}

FifoNext ==
    \/ \E x \in Items : Put(x)
    \/ \E t \in Threads : Ask(t) \/ Take(t)

FifoSpec == FifoInit /\ [][FifoNext]_fifoVars

\* While there are items and threads that ask, some thread takes one.
FairFifo == FifoSpec /\ WF_fifoVars(\E t \in Threads : Take(t))
=============================================================================
