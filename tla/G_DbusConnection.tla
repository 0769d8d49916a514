-------------------------- MODULE G_DbusConnection --------------------------
(***************************************************************************)
(* The life of the toolkit's GLib endpoints (src/src/lib/g_dbusConnection, *)
(* with the hooks of g_dbusClient): how a G_DbusConnection claims its bus  *)
(* name, loses it, and retries one second later, for ever.                 *)
(*                                                                         *)
(* All endpoints of a process run on one main loop, so a callback is one   *)
(* atomic step; what interleaves is the order of the callbacks, the bus    *)
(* daemon, the processes and the user's calls.  GLib (g_bus_own_name, the  *)
(* shared session GDBusConnection and its reference count) and the daemon  *)
(* (name owners and waiting lists) are external: they are modelled by what *)
(* the toolkit relies on when it calls them.                               *)
(***************************************************************************)
EXTENDS FiniteSets

CONSTANTS
    Endpoints,        \* the G_DbusConnection objects
    Clients,          \* those that are G_DbusClient objects
    Procs,            \* the processes
    ProcOf,           \* the process of each endpoint
    Names,            \* the well-known bus names
    NameOf,           \* busName_ of each endpoint
    Dests,            \* what a client can call: destBus-objName-intfName keys
    NoOwner,          \* a name nobody owns
    Foreign,          \* an owner that did not allow its replacement
    ReleaseOnQueued   \* does g_bus_unown_name, called while the name-lost
                      \* callback reports IN_QUEUE, leave the waiting list?

ASSUME ClientsAssumption == Clients \subseteq Endpoints
ASSUME ProcOfAssumption  == ProcOf \in [Endpoints -> Procs]
ASSUME NameOfAssumption  == NameOf \in [Endpoints -> Names]
ASSUME NoOwnerAssumption == NoOwner \notin Endpoints /\ Foreign \notin Endpoints
ASSUME ReleaseAssumption == ReleaseOnQueued \in BOOLEAN

\* The daemon knows a claim by its connection and its name: two endpoints of
\* one process share the connection, so they must not share the name.
ASSUME DistinctNames ==
    \A e, f \in Endpoints : ProcOf[e] = ProcOf[f] /\ NameOf[e] = NameOf[f] => e = f

VARIABLES
    busUp,     \* the bus daemon runs
    owner,     \* owner[n]: who owns name n, for the daemon
    queue,     \* queue[n]: who waits for name n, for the daemon
    handler,   \* handler[p]: SIGTERM handler installed in process p
    link,      \* link[p]: the session GDBusConnection shared by process p
    life,      \* life[e]: constructed?  own_name called?
    own,       \* own[e]: what g_bus_own_name is doing for e
    orphan,    \* orphan[e]: a registration runs that ownerId_ does not name
    ownerId,   \* ownerId[e]: ownerId_ is not 0
    conn,      \* conn[e]: conn_
    timer,     \* timer[e]: reconnTimer_ is armed
    lost,      \* lost[e]: a NameLost signal is on its way to e
    proxies    \* proxies[e]: the keys of proxy_cache_

daemon == <<busUp, owner, queue>>
vars   == <<busUp, owner, queue, handler, link, life, own, orphan, ownerId,
            conn, timer, lost, proxies>>

Owners    == Endpoints \cup {NoOwner, Foreign}
Connected == {"requesting", "granted", "refused", "named"}

Members(p) == {e \in Endpoints : ProcOf[e] = p}

TypeOK ==
    /\ busUp \in BOOLEAN
    /\ owner \in [Names -> Owners]
    /\ queue \in [Names -> SUBSET Endpoints]
    /\ handler \in [Procs -> BOOLEAN]
    /\ link \in [Procs -> {"none", "open", "closing", "closed"}]
    /\ life \in [Endpoints -> {"absent", "built", "started"}]
    /\ own \in [Endpoints -> {"none", "getting"} \cup Connected]
    /\ orphan \in [Endpoints -> BOOLEAN]
    /\ ownerId \in [Endpoints -> BOOLEAN]
    /\ conn \in [Endpoints -> {"null", "live", "dangling"}]
    /\ timer \in [Endpoints -> BOOLEAN]
    /\ lost \in [Endpoints -> BOOLEAN]
    /\ proxies \in [Endpoints -> SUBSET Dests]

Init ==
    /\ busUp \in BOOLEAN
    /\ owner = [n \in Names |-> NoOwner]
    /\ queue = [n \in Names |-> {}]
    /\ handler = [p \in Procs |-> FALSE]
    /\ link = [p \in Procs |-> "none"]
    /\ life = [e \in Endpoints |-> "absent"]
    /\ own = [e \in Endpoints |-> "none"]
    /\ orphan = [e \in Endpoints |-> FALSE]
    /\ ownerId = [e \in Endpoints |-> FALSE]
    /\ conn = [e \in Endpoints |-> "null"]
    /\ timer = [e \in Endpoints |-> FALSE]
    /\ lost = [e \in Endpoints |-> FALSE]
    /\ proxies = [e \in Endpoints |-> {}]

-----------------------------------------------------------------------------
(* The daemon's side of names.                                             *)

\* The owners name n can get when the claims of the endpoints in gone are
\* withdrawn: an owner that stays, or anyone still waiting.
Heirs(n, gone) ==
    IF owner[n] \notin gone THEN {owner[n]}
    ELSE IF queue[n] \subseteq gone THEN {NoOwner}
    ELSE queue[n] \ gone

Withdraw(gone) ==
    /\ owner' \in {f \in [Names -> Owners] : \A n \in Names : f[n] \in Heirs(n, gone)}
    /\ queue' = [n \in Names |-> (queue[n] \ gone) \ {owner'[n]}]
    /\ UNCHANGED busUp

\* Name n passes to o; an owner that allowed its replacement (every endpoint
\* asks with ALLOW_REPLACEMENT) goes back to waiting and is sent NameLost,
\* which GLib hands on when the registration listens for it.
Transfer(n, o) ==
    /\ owner' = [owner EXCEPT ![n] = o]
    /\ queue' = [queue EXCEPT ![n] = (@ \cup ({owner[n]} \cap Endpoints)) \ {o}]
    /\ lost' = [e \in Endpoints |->
                  lost[e] \/ (e = owner[n] /\ e # o /\ own[e] \in {"granted", "named"})]

-----------------------------------------------------------------------------
(* Losing the name: on_name_lost, and what g_bus_unown_name does in it.    *)

\* GLib asks the daemon to release a claim it knows it holds.
Releases(e) ==
    ownerId[e] /\ link[ProcOf[e]] = "open"
               /\ (own[e] = "named" \/ ReleaseOnQueued)

\* Mutant: set_bus_conn takes a reference that fini(true) does not give up.
HeldForEver(p) == TRUE

\* The GDBusConnection of process p lives while a registration or a cached
\* proxy holds it; fini(true) forgets conn_ without giving up a reference,
\* because set_bus_conn never took one.
Held(p) ==
    \E e \in Members(p) : own'[e] # "none" \/ orphan[e] \/ proxies'[e] # {}

\* Mutant: G_DbusClient's on_name_lost does not clear the cache.
ClearProxyCacheNot(S) == UNCHANGED proxies

ClearProxyCache(S) ==
    proxies' = [e \in Endpoints |-> IF e \in S \cap Clients THEN {} ELSE proxies[e]]

\* g_bus_unown_name, for those whose ownerId_ names a registration.
Unown(S) ==
    /\ own' = [e \in Endpoints |-> IF e \in S /\ ownerId[e] THEN "none" ELSE own[e]]
    /\ lost' = [e \in Endpoints |-> lost[e] /\ ~(e \in S /\ ownerId[e])]
    /\ ownerId' = [e \in Endpoints |-> ownerId[e] /\ e \notin S]

\* Mutant: fini keeps conn_.
DropConnNot(p, S) == UNCHANGED conn

\* conn_ = nullptr for S; the conn_ of another endpoint of p dangles if the
\* connection goes away under it.
DropConn(p, S) ==
    conn' = [e \in Endpoints |->
               IF e \in S THEN "null"
               ELSE IF ProcOf[e] = p /\ conn[e] = "live" /\ ~Held(p)
                    THEN "dangling" ELSE conn[e]]

\* Mutant: no retry when the bus could not be reached at all.
SetReconnTimerConnected(S) ==
    timer' = [e \in Endpoints |-> timer[e] \/ (e \in S /\ conn[e] # "null")]

SetReconnTimer(S) == timer' = [e \in Endpoints |-> timer[e] \/ e \in S]

\* on_name_lost for the endpoints S of process p, whose link is l by then:
\* the subclass's callback, fini(true), set_reconn_timer.  Dropping the last
\* reference closes the connection, and the daemon then forgets every claim
\* the process still had.
OnNameLost(p, S, l) ==
    /\ ClearProxyCache(S)
    /\ Unown(S)
    /\ link' = [link EXCEPT ![p] = IF Held(p) THEN l ELSE "none"]
    /\ DropConn(p, S)
    /\ Withdraw(IF Held(p) THEN {e \in S : Releases(e)} ELSE Members(p))
    /\ SetReconnTimer(S)
    /\ UNCHANGED <<handler, life, orphan>>

-----------------------------------------------------------------------------
(* The user's calls.                                                       *)

\* The constructor; the first one of a process installs the SIGTERM handler.
Construct(e) ==
    /\ life[e] = "absent"
    /\ life' = [life EXCEPT ![e] = "built"]
    /\ handler' = [handler EXCEPT ![ProcOf[e]] = TRUE]
    /\ UNCHANGED <<daemon, link, own, orphan, ownerId, conn, timer, lost, proxies>>

\* own_name registers a claim with GLib, whatever ownerId_ named before.
OwnName(e) ==
    /\ orphan' = [orphan EXCEPT ![e] = @ \/ own[e] # "none"]
    /\ own' = [own EXCEPT ![e] = "getting"]
    /\ ownerId' = [ownerId EXCEPT ![e] = TRUE]

\* G_DbusServer::start and G_DbusClient::init, which programs call once.
Start(e) ==
    /\ life[e] = "built"
    /\ life' = [life EXCEPT ![e] = "started"]
    /\ OwnName(e)
    /\ UNCHANGED <<daemon, handler, link, conn, timer, lost, proxies>>

\* G_DbusClient::call_method to a destination without a proxy: it needs
\* conn_, and keeps the proxy only when GLib could build one (over an open
\* connection; it may also fail there).
CallMethod(e, d) ==
    /\ e \in Clients
    /\ conn[e] # "null"
    /\ d \notin proxies[e]
    /\ link[ProcOf[e]] = "open"
    /\ proxies' = [proxies EXCEPT ![e] = @ \cup {d}]
    /\ UNCHANGED <<daemon, handler, link, life, own, orphan, ownerId, conn, timer, lost>>

-----------------------------------------------------------------------------
(* The main loop's callbacks.                                              *)

\* g_bus_get reached the daemon: the process has its shared connection.
BusConnect(p) ==
    /\ busUp
    /\ link[p] = "none"
    /\ \E e \in Members(p) : own[e] = "getting"
    /\ link' = [link EXCEPT ![p] = "open"]
    /\ UNCHANGED <<daemon, handler, life, own, orphan, ownerId, conn, timer, lost, proxies>>

\* g_bus_get failed: on_name_lost with a null connection.
GetFailed(e) ==
    /\ ~busUp
    /\ own[e] = "getting"
    /\ link[ProcOf[e]] = "none"
    /\ OnNameLost(ProcOf[e], {e}, "none")

\* on_bus_acquired: set_bus_conn, the subclass's callback; GLib then sends
\* RequestName.  While anything holds a closed connection, g_bus_get returns
\* that one.
OnBusAcquired(e) ==
    /\ own[e] = "getting"
    /\ link[ProcOf[e]] # "none"
    /\ conn' = [conn EXCEPT ![e] = "live"]
    /\ own' = [own EXCEPT ![e] = "requesting"]
    /\ UNCHANGED <<daemon, handler, link, life, orphan, ownerId, timer, lost, proxies>>

\* on_name_acquired only logs.
OnNameAcquired(e) ==
    /\ own[e] = "granted"
    /\ own' = [own EXCEPT ![e] = "named"]
    /\ UNCHANGED <<daemon, handler, link, life, orphan, ownerId, conn, timer, lost, proxies>>

\* RequestName answered IN_QUEUE or ALREADY_OWNER, or the connection failed.
RequestRefused(e) ==
    /\ own[e] = "refused" \/ (own[e] = "requesting" /\ link[ProcOf[e]] # "open")
    /\ OnNameLost(ProcOf[e], {e}, link[ProcOf[e]])

\* Mutant: own_name passes no name-lost callback.
NameLostSignalIgnored(e) ==
    /\ lost[e]
    /\ own[e] = "named"
    /\ lost' = [lost EXCEPT ![e] = FALSE]
    /\ UNCHANGED <<daemon, handler, link, life, own, orphan, ownerId, conn, timer, proxies>>

\* The NameLost signal, behind the answer to RequestName.
NameLostSignal(e) ==
    /\ lost[e]
    /\ own[e] = "named"
    /\ OnNameLost(ProcOf[e], {e}, link[ProcOf[e]])

\* reconn_timeout: the one-shot timer calls own_name again.
ReconnTimeout(e) ==
    /\ timer[e]
    /\ timer' = [timer EXCEPT ![e] = FALSE]
    /\ OwnName(e)
    /\ UNCHANGED <<daemon, handler, link, life, conn, lost, proxies>>

\* All of process p ends: a crash, an exit, or an unhandled SIGTERM.
Vanish(p) ==
    LET M == Members(p) IN
    /\ handler' = [handler EXCEPT ![p] = FALSE]
    /\ link' = [link EXCEPT ![p] = "none"]
    /\ life' = [e \in Endpoints |-> IF e \in M THEN "absent" ELSE life[e]]
    /\ own' = [e \in Endpoints |-> IF e \in M THEN "none" ELSE own[e]]
    /\ orphan' = [e \in Endpoints |-> orphan[e] /\ e \notin M]
    /\ ownerId' = [e \in Endpoints |-> ownerId[e] /\ e \notin M]
    /\ conn' = [e \in Endpoints |-> IF e \in M THEN "null" ELSE conn[e]]
    /\ timer' = [e \in Endpoints |-> timer[e] /\ e \notin M]
    /\ lost' = [e \in Endpoints |-> lost[e] /\ e \notin M]
    /\ proxies' = [e \in Endpoints |-> IF e \in M THEN {} ELSE proxies[e]]
    /\ Withdraw(M)

\* The "closed" signal of the shared connection reaches every registration
\* that uses it, in one emission; GLib then raises SIGTERM in the process.
OnClosed(p) ==
    /\ link[p] = "closing"
    /\ IF handler[p]
       THEN OnNameLost(p, {e \in Members(p) : own[e] \in Connected}, "closed")
       ELSE Vanish(p)

-----------------------------------------------------------------------------
(* The environment.                                                        *)

\* Mutant: own_name asks without G_BUS_NAME_OWNER_FLAGS_REPLACE.
GrantedIfFree(e) == owner[NameOf[e]] = NoOwner

\* The flags of own_name, REPLACE and ALLOW_REPLACEMENT: e gets its name from
\* nobody or from another endpoint.
Granted(e) == owner[NameOf[e]] \notin {e, Foreign}

\* The daemon handles RequestName(ALLOW_REPLACEMENT | REPLACE_EXISTING).
DaemonRequestName(e) ==
    LET n == NameOf[e] IN
    /\ own[e] = "requesting"
    /\ link[ProcOf[e]] = "open"
    /\ \/ /\ Granted(e)
          /\ Transfer(n, e)
          /\ own' = [own EXCEPT ![e] = "granted"]
       \/ /\ ~Granted(e)
          /\ queue' = [queue EXCEPT ![n] = @ \cup ({e} \ {owner[n]})]
          /\ own' = [own EXCEPT ![e] = "refused"]
          /\ UNCHANGED <<owner, lost>>
    /\ UNCHANGED <<busUp, handler, link, life, orphan, ownerId, conn, timer, proxies>>

\* Another program takes name n and does not allow its replacement, as the
\* toolkit's own libdbus DbusServer does.
ForeignTake(n) ==
    /\ busUp
    /\ owner[n] # Foreign
    /\ Transfer(n, Foreign)
    /\ UNCHANGED <<busUp, handler, link, life, own, orphan, ownerId, conn, timer, proxies>>

ForeignRelease(n) ==
    /\ owner[n] = Foreign
    /\ owner' \in {[owner EXCEPT ![n] = o] :
                     o \in IF queue[n] = {} THEN {NoOwner} ELSE queue[n]}
    /\ queue' = [queue EXCEPT ![n] = @ \ {owner'[n]}]
    /\ UNCHANGED <<busUp, handler, link, life, own, orphan, ownerId, conn, timer, lost, proxies>>

BusDown ==
    /\ busUp
    /\ busUp' = FALSE
    /\ owner' = [n \in Names |-> NoOwner]
    /\ queue' = [n \in Names |-> {}]
    /\ link' = [p \in Procs |-> IF link[p] = "open" THEN "closing" ELSE link[p]]
    /\ UNCHANGED <<handler, life, own, orphan, ownerId, conn, timer, lost, proxies>>

BusUp ==
    /\ ~busUp
    /\ busUp' = TRUE
    /\ UNCHANGED <<owner, queue, handler, link, life, own, orphan, ownerId, conn,
                   timer, lost, proxies>>

ProcEnd(p) ==
    /\ \E e \in Members(p) : life[e] # "absent"
    /\ Vanish(p)

-----------------------------------------------------------------------------
\* What the main loop does for e once GLib has its connection, or not.
Callback(e) ==
    \/ GetFailed(e) \/ OnNameAcquired(e) \/ RequestRefused(e)
    \/ NameLostSignal(e) \/ ReconnTimeout(e)

User(e) == Construct(e) \/ Start(e) \/ \E d \in Dests : CallMethod(e, d)

Env ==
    \/ BusDown \/ BusUp
    \/ \E n \in Names : ForeignTake(n) \/ ForeignRelease(n)
    \/ \E p \in Procs : ProcEnd(p)

\* Everything but on_bus_acquired, which the subclasses extend.
Others ==
    \/ \E e \in Endpoints : User(e) \/ Callback(e) \/ DaemonRequestName(e)
    \/ \E p \in Procs : BusConnect(p) \/ OnClosed(p)
    \/ Env

Next == Others \/ \E e \in Endpoints : OnBusAcquired(e)

Spec == Init /\ [][Next]_vars

\* Main loops and the daemon keep running; nothing is asked of the users, of
\* the other programs, or of what makes the bus or a process go away.
Fairness ==
    /\ \A e \in Endpoints :
          WF_vars(OnBusAcquired(e)) /\ WF_vars(Callback(e)) /\ WF_vars(DaemonRequestName(e))
    /\ \A p \in Procs : WF_vars(BusConnect(p)) /\ WF_vars(OnClosed(p))

FairSpec == Spec /\ Fairness
-----------------------------------------------------------------------------
(* Properties.                                                             *)

\* conn_ is set exactly while GLib runs a registration that was handed the
\* connection, and never points to a connection that is gone: publish_signal,
\* subscribe_signal and call_method test nothing else before they use it.
ConnUsable ==
    \A e \in Endpoints :
        /\ conn[e] # "dangling"
        /\ conn[e] = "live" <=> own[e] \in Connected
        /\ conn[e] = "live" => link[ProcOf[e]] # "none"

\* Every registration with g_bus_own_name is the one ownerId_ names, so that
\* fini can always withdraw it: a retry never leaves a second one running.
OneRegistration ==
    \A e \in Endpoints : ~orphan[e] /\ (ownerId[e] <=> own[e] # "none")

\* A started endpoint either has a registration or has its retry timer armed,
\* never both and never neither.
RetryArmed ==
    \A e \in Endpoints : timer[e] <=> life[e] = "started" /\ own[e] = "none"

\* A cached proxy belongs to the connection in use: no proxy survives the
\* loss of its connection, where it would also keep the closed connection
\* alive and have g_bus_get return it for ever.
ProxiesFresh ==
    \A e \in Endpoints : proxies[e] # {} =>
        conn[e] = "live" /\ link[ProcOf[e]] \in {"open", "closing"}

\* An endpoint that was told it owns its name owns it, or a callback that
\* tells it otherwise is on its way: nobody serves a name silently lost.
NoSilentLoss ==
    \A e \in Endpoints : own[e] \in {"granted", "named"} =>
        owner[NameOf[e]] = e \/ lost[e] \/ link[ProcOf[e]] = "closing"

\* The daemon knows no claim that its endpoint has given up: who owns a name
\* or waits for it has a registration, which still has to hear the answer.
NoGhostClaim ==
    \A e \in Endpoints :
        /\ owner[NameOf[e]] = e => own[e] \in {"granted", "refused", "named"}
        /\ e \in queue[NameOf[e]] => own[e] = "refused" \/ lost[e]

\* Losing the bus makes GLib raise SIGTERM in the process; the process lives.
BusLossSurvived ==
    [][\A p \in Procs : OnClosed(p) => \A e \in Members(p) : life'[e] = life[e]]_vars

\* The endpoints promise their programs an EndpointSession.
phaseOf(e) ==
    IF life[e] # "started" THEN life[e]
    ELSE CASE own[e] = "none"  -> "backoff"
           [] own[e] = "named" -> "online"
           [] OTHER            -> "joining"

Session == INSTANCE EndpointSession WITH
    phase <- [e \in Endpoints |-> phaseOf(e)],
    ready <- [e \in Endpoints |-> conn[e] # "null"]

\* Every step of the endpoints is a step of their abstract sessions, and no
\* endpoint stays in backoff.
ImplementsSession == Session!FairSession
=============================================================================
