---------------------------- MODULE G_DbusServer ----------------------------
(***************************************************************************)
(* What the endpoints put on their connection (src/src/lib/g_dbusServer,   *)
(* subscribe_signal of g_dbusConnection): the interfaces a server exports  *)
(* and the signals servers and clients subscribe to, each time GLib hands  *)
(* them the connection, over the life G_DbusConnection gives it.           *)
(*                                                                         *)
(* An interface stands for an (object path, interface) pair of the         *)
(* registry with its signal handlers, and for a client for the signals its *)
(* ready callback subscribes to.                                           *)
(***************************************************************************)
EXTENDS G_DbusConnection, Naturals

CONSTANTS
    Ifaces,   \* what can be exported or subscribed to
    Rank,     \* the place of an interface in the registry's order
    ObjRank,  \* the place of its object
    Broken,   \* interfaces whose introspection XML GLib cannot parse
    Wants     \* Wants[e]: what the ready callback of client e subscribes to

ASSUME RankAssumption ==
    /\ Rank \in [Ifaces -> Nat] /\ ObjRank \in [Ifaces -> Nat]
    /\ \A i, j \in Ifaces : Rank[i] = Rank[j] => i = j
    /\ \A i, j \in Ifaces : ObjRank[i] < ObjRank[j] => Rank[i] < Rank[j]
ASSUME BrokenAssumption == Broken \subseteq Ifaces
ASSUME WantsAssumption  == Wants \in [Clients -> SUBSET Ifaces]

VARIABLES
    lut,       \* lut[e]: lut_, the interfaces added to server e
    exported,  \* exported[p][i]: the server that exports i on the link of p
    subs,      \* subs[e][i]: GLib's subscriptions of e to the signals of i
    atStart,   \* atStart[e]: what lut_ held when start was called
    offered    \* offered[e]: what lut_ held when e last got the connection

serverVars == <<lut, exported, subs, atStart, offered>>
allVars    == <<vars, serverVars>>

\* Subscriptions are counted up to Many.
Many    == 2
Servers == Endpoints \ Clients

NothingExported == [i \in Ifaces |-> NoOwner]
NoSubscription  == [i \in Ifaces |-> 0]

ServerTypeOK ==
    /\ lut \in [Endpoints -> SUBSET Ifaces]
    /\ exported \in [Procs -> [Ifaces -> Servers \cup {NoOwner}]]
    /\ subs \in [Endpoints -> [Ifaces -> 0 .. Many]]
    /\ atStart \in [Endpoints -> SUBSET Ifaces]
    /\ offered \in [Endpoints -> SUBSET Ifaces]

ServerInit ==
    /\ Init
    /\ lut = [e \in Endpoints |-> {}]
    /\ exported = [p \in Procs |-> NothingExported]
    /\ subs = [e \in Endpoints |-> NoSubscription]
    /\ atStart = [e \in Endpoints |-> {}]
    /\ offered = [e \in Endpoints |-> {}]

-----------------------------------------------------------------------------
\* add_interface only fills the registry, at any time.
AddInterface(e, i) ==
    /\ e \in Servers
    /\ life[e] # "absent"
    /\ lut' = [lut EXCEPT ![e] = @ \cup {i}]
    /\ UNCHANGED <<vars, exported, subs, atStart, offered>>

\* No object up to that of i fails in g_dbus_node_info_new_for_xml.
Parsable(e, i) == \A j \in lut[e] : ObjRank[j] <= ObjRank[i] => j \notin Broken

\* Mutant: the loop steps over a pair that is exported already.
ReachesPast(e, i) ==
    /\ i \in lut[e]
    /\ Parsable(e, i)

\* Mutant: the loop returns after the first interface it registered.
ReachesFirst(e, i) ==
    /\ i \in lut[e]
    /\ Parsable(e, i)
    /\ \A j \in lut[e] : Rank[j] <= Rank[i] => j = i /\ exported[ProcOf[e]][j] = NoOwner

\* Mutant: the loop runs over a copy of the registry made by start.
ReachesStarted(e, i) ==
    /\ i \in atStart[e]
    /\ Parsable(e, i)
    /\ \A j \in atStart[e] : Rank[j] <= Rank[i] => exported[ProcOf[e]][j] = NoOwner

\* The loop of on_bus_acquired gets through to interface i and registers it:
\* it returns at the first object it cannot parse and at the first interface
\* the connection already exports.
Reaches(e, i) ==
    /\ i \in lut[e]
    /\ Parsable(e, i)
    /\ \A j \in lut[e] : Rank[j] <= Rank[i] => exported[ProcOf[e]][j] = NoOwner

\* subscribe_signal for the interfaces I: conn_ is set, and every call adds a
\* subscription of its own.
SubscribeSignals(e, I) ==
    subs' = [subs EXCEPT ![e] =
               [i \in Ifaces |-> IF i \in I /\ @[i] < Many THEN @[i] + 1 ELSE @[i]]]

ServerBusAcquired(e) ==
    LET p == ProcOf[e]
        I == {i \in Ifaces : Reaches(e, i)}
    IN  /\ e \in Servers
        /\ OnBusAcquired(e)
        /\ exported' = [exported EXCEPT ![p] =
                          [i \in Ifaces |-> IF i \in I THEN e ELSE @[i]]]
        /\ SubscribeSignals(e, I)
        /\ offered' = [offered EXCEPT ![e] = lut[e]]
        /\ UNCHANGED <<lut, atStart>>

\* The client's ready callback, which subscribes to what it wants.
ClientBusAcquired(e) ==
    /\ e \in Clients
    /\ OnBusAcquired(e)
    /\ SubscribeSignals(e, Wants[e])
    /\ UNCHANGED <<lut, exported, atStart, offered>>

\* Exports and subscriptions live and die with the connection, the registry
\* with its process; losing the name takes nothing off a connection that
\* another endpoint of the process keeps.
Follow ==
    /\ exported' = [p \in Procs |-> IF link'[p] = "none" THEN NothingExported
                                    ELSE exported[p]]
    /\ subs' = [e \in Endpoints |-> IF link'[ProcOf[e]] = "none" THEN NoSubscription
                                    ELSE subs[e]]
    /\ offered' = [e \in Endpoints |-> IF link'[ProcOf[e]] = "none" THEN {}
                                       ELSE offered[e]]
    /\ lut' = [e \in Endpoints |-> IF life'[e] = "absent" THEN {} ELSE lut[e]]
    /\ atStart' = [e \in Endpoints |->
                     IF life'[e] = "absent" THEN {}
                     ELSE IF life[e] = "built" /\ life'[e] = "started" THEN lut[e]
                     ELSE atStart[e]]

ServerNext ==
    \/ Others /\ Follow
    \/ \E e \in Endpoints : ServerBusAcquired(e) \/ ClientBusAcquired(e)
    \/ \E e \in Endpoints, i \in Ifaces : AddInterface(e, i)

ServerSpec == ServerInit /\ [][ServerNext]_allVars

\* With the fairness of the main loops and the daemon.
FairServerSpec == ServerSpec /\ Fairness

-----------------------------------------------------------------------------
(* Properties.                                                             *)

Ready(e) == e \in Servers /\ conn[e] = "live"

\* What the program added before start is exported whenever the server holds
\* the connection, whatever was added later and however often the name was
\* lost and won back, unless an object up to it cannot be introspected: the
\* early returns of on_bus_acquired hide no interface for good.
StartedExports ==
    \A e \in Endpoints : Ready(e) =>
        \A i \in atStart[e] : Parsable(e, i) => exported[ProcOf[e]][i] = e

\* For a process with one endpoint, so is everything added before the server
\* last got its connection: late additions wait for the next reconnection.
ExportsComplete ==
    \A e \in Endpoints : Ready(e) =>
        \A i \in offered[e] :
            (\A j \in offered[e] : ObjRank[j] <= ObjRank[i] => j \notin Broken)
                => exported[ProcOf[e]][i] = e

\* dispatch_method_call finds every object and interface it is called for:
\* replies 1 and 2 (unknown object, unknown interface) cannot happen.
DispatchFinds ==
    \A p \in Procs, i \in Ifaces :
        exported[p][i] # NoOwner => i \in lut[exported[p][i]]

\* A server hears a signal of an interface it exports exactly once, and no
\* other signal, however often on_bus_acquired ran on the same connection.
ServerHearsOnce ==
    \A e \in Servers, i \in Ifaces :
        subs[e][i] = IF exported[ProcOf[e]][i] = e THEN 1 ELSE 0

\* In a process with one endpoint a client's callback, too, runs once for
\* each signal, although subscribe_signal never unsubscribes.
ClientHearsOnce ==
    \A e \in Clients, i \in Ifaces : subs[e][i] <= 1
=============================================================================
