------------------------------ MODULE MCServer ------------------------------
(* Deployments of the endpoints of G_DbusServer for TLC.                   *)
EXTENDS G_DbusServer

CONSTANTS c, s,         \* a client and a server
          P, Q,         \* processes
          cn, sn,       \* bus names
          d,            \* a destination
          a, b, z       \* interfaces, in the registry's order

TheEndpoints == {c, s}

\* The client and the server in one process, under names of their own.
SharedProcOf == [e \in TheEndpoints |-> P]
SharedNameOf == [e \in TheEndpoints |-> IF e = c THEN cn ELSE sn]

\* Each in a process of its own, claiming the same name.
RivalProcOf == [e \in TheEndpoints |-> IF e = c THEN Q ELSE P]
RivalNameOf == [e \in TheEndpoints |-> sn]

\* a and b are interfaces of the first object, z of the second.
TheRank    == [i \in Ifaces |-> CASE i = a -> 1 [] i = b -> 2 [] i = z -> 3]
TheObjRank == [i \in Ifaces |-> IF i = z THEN 2 ELSE 1]
TheWants   == [e \in {c} |-> {a}]

\* The names without a foreign owner, seen by endpoint e.
Served(e) == busUp /\ life[e] = "started" /\ owner[NameOf[e]] # Foreign

\* With the bus up from some time on and no other program holding its name,
\* an endpoint ends up owning its name for good.  The processes' loops are
\* assumed to find, again and again, a moment without a closed connection:
\* requests on it fail at once, retries take a second.
Recovers ==
    \A e \in Endpoints :
        <>[]Served(e) /\ []<>(link[ProcOf[e]] # "closed")
            => <>[](own[e] = "named" /\ owner[NameOf[e]] = e)

\* Two endpoints that claim one name take it from each other for ever, one
\* retry after the other: neither keeps it and neither is shut out.
RivalsAlternate ==
    <>[](\A e \in Endpoints : Served(e))
        => \A e \in Endpoints : []<>(owner[NameOf[e]] = e) /\ []<>(own[e] = "none")
=============================================================================
