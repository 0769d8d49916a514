------------------------------ MODULE MCCalls --------------------------------
(* Processes that call each other, for TLC.                                *)
EXTENDS DbusCalls

CONSTANTS g, l,     \* processes; l is on libdbus
          c1, c2    \* calls

\* Everyone calls everyone, itself included.
AllPeers == [p \in {g, l} |-> {g, l}]
AllKinds == Kinds
=============================================================================
