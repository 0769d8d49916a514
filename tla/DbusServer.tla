------------------------------ MODULE DbusServer ------------------------------
(***************************************************************************)
(* DbusServer (src/src/lib/dbusServer.cpp), the server over libdbus, in the *)
(* order in which the programs use it: init, whose result they ignore, then *)
(* add_interface any number of times, then run.  Each program has one       *)
(* thread: handlers run in its loop and may call add_interface.             *)
(*                                                                          *)
(* Names are requested with REPLACE_EXISTING only: an owner is replaced if  *)
(* it allows that, otherwise the request waits in the daemon's queue.       *)
(* libdbus ends a process whose loop meets the end of its connection.       *)
(***************************************************************************)
EXTENDS Sequences, FiniteSets

CONSTANTS
    Servers,     \* server processes
    Names, BusName,   \* BusName[p]: the name p asks for
    Foreign,     \* other programs that may claim the names
    Lenders,     \* those that allow replacement, like the GLib endpoints
    Intfs,       \* the interfaces programs add
    Intro,       \* ipc.toolkit.DBus.Introspectable, which init adds
    Handlers,    \* the programs' handlers
    Introspect,  \* the handler of Intro's method
    NoHandler,
    Offers,      \* the tables of handlers that programs add
    Msgs,        \* bound: method calls and signals sent in a run
    NoOwner, NoMsg

ASSUME NameAssumption    == BusName \in [Servers -> Names]
ASSUME ForeignAssumption == Foreign \cap Servers = {} /\ Lenders \subseteq Foreign
ASSUME IntroAssumption   == Intro \notin Intfs
ASSUME NoOwnerAssumption == NoOwner \notin Servers \cup Foreign
ASSUME HandlersAssumption == NoHandler \notin Handlers \cup {Introspect}

VARIABLES
    pc,        \* pc[p]: how far the program is
    conn,      \* conn[p]: conn_
    filter,    \* filter[p]: dbus_message_dispatch is a filter of conn_
    initOk,    \* initOk[p]: what init returned
    lut,       \* lut[p]: lut_, from interfaces to their handlers
    matched,   \* matched[p]: interfaces whose match rules the daemon has
    failed,    \* failed[p]: interfaces for which add_interface has returned false
    received,  \* received[p]: messages p has received and not dispatched
    what,      \* what[m]: the message m
    ran,       \* ran[m]: who ran which handler for m
    busUp, owner, queue    \* the daemon, and its names

prog == <<pc, initOk>>
names == <<owner, queue>>
rules == <<matched, failed>>
mail == <<received, what, ran>>
serverVars ==
    <<pc, conn, filter, initOk, lut, matched, failed, received, what, ran, busUp, owner, queue>>

Clients == Servers \cup Foreign
AllIntfs == Intfs \cup {Intro}

\* An interface has one method and one signal here.
Members == {"method", "signal"}
Tables  == [Members -> Handlers \cup {NoHandler}]

ASSUME OffersAssumption == Offers \subseteq Tables

\* json: the argument is absent, empty or a JSON text in a string.
Message == [intf : AllIntfs, member : Members, json : BOOLEAN]

ServersTypeOK ==
    /\ pc \in [Servers -> {"down", "started", "adding", "running"}]
    /\ conn \in [Servers -> {"null", "open", "closed"}]
    /\ filter \in [Servers -> BOOLEAN]
    /\ initOk \in [Servers -> BOOLEAN]
    /\ \A p \in Servers : \A i \in DOMAIN lut[p] :
          i \in AllIntfs /\ lut[p][i] \in [Members -> Handlers \cup {NoHandler, Introspect}]
    /\ DOMAIN lut = Servers
    /\ matched \in [Servers -> SUBSET AllIntfs]
    /\ failed \in [Servers -> SUBSET AllIntfs]
    /\ received \in [Servers -> Seq(Msgs)]
    /\ what \in [Msgs -> Message \cup {NoMsg}]
    /\ ran \in [Msgs -> SUBSET (Servers \X (Handlers \cup {Introspect}))]
    /\ busUp \in BOOLEAN
    /\ owner \in [Names -> Clients \cup {NoOwner}]
    /\ queue \in [Names -> Seq(Clients)]

Empty == [i \in {} |-> NoHandler]

ServersInit ==
    /\ pc = [p \in Servers |-> "down"]
    /\ conn = [p \in Servers |-> "null"]
    /\ filter = [p \in Servers |-> FALSE]
    /\ initOk = [p \in Servers |-> FALSE]
    /\ lut = [p \in Servers |-> Empty]
    /\ matched = [p \in Servers |-> {}]
    /\ failed = [p \in Servers |-> {}]
    /\ received = [p \in Servers |-> << >>]
    /\ what = [m \in Msgs |-> NoMsg]
    /\ ran = [m \in Msgs |-> {}]
    /\ busUp = TRUE
    /\ owner = [n \in Names |-> NoOwner]
    /\ queue = [n \in Names |-> << >>]

-----------------------------------------------------------------------------
(* The daemon's names.                                                     *)

Claims(x, n) == owner[n] = x \/ \E k \in DOMAIN queue[n] : queue[n][k] = x

\* x leaves name n: the first of the waiting clients becomes the owner.
Leave(x) ==
    LET quit(n) == SelectSeq(queue[n], LAMBDA y : y # x) IN
    /\ owner' = [n \in Names |-> IF owner[n] # x THEN owner[n]
                                 ELSE IF quit(n) = << >> THEN NoOwner
                                 ELSE Head(quit(n))]
    /\ queue' = [n \in Names |-> IF owner[n] = x /\ quit(n) # << >>
                                 THEN Tail(quit(n)) ELSE quit(n)]

\* Mutant: the servers allow their replacement.
ObtainableAlways(n) == owner[n] \in Lenders \cup Servers \cup {NoOwner}

\* Mutant: names are requested with no flags.
ObtainableIfFree(n) == owner[n] = NoOwner

\* REPLACE_EXISTING gets free names, and those of clients that allow it.
Obtainable(n) == owner[n] \in Lenders \cup {NoOwner}

\* The replaced owner waits in front.
Obtain(p, n) ==
    /\ owner' = [owner EXCEPT ![n] = p]
    /\ queue' = [queue EXCEPT ![n] = IF owner[n] = NoOwner THEN @ ELSE <<owner[n]>> \o @]

Queue(p, n) ==
    /\ queue' = [queue EXCEPT ![n] = Append(@, p)]
    /\ UNCHANGED owner

ForeignRequest(f, n) ==
    /\ busUp
    /\ ~Claims(f, n)
    /\ IF owner[n] = NoOwner THEN Obtain(f, n) ELSE Queue(f, n)
    /\ UNCHANGED <<prog, conn, filter, lut, rules, mail, busUp>>

ForeignRelease(f) ==
    /\ \E n \in Names : Claims(f, n)
    /\ Leave(f)
    /\ UNCHANGED <<prog, conn, filter, lut, rules, mail, busUp>>

-----------------------------------------------------------------------------
(* The server.                                                             *)

IntroTable == [x \in Members |-> IF x = "method" THEN Introspect ELSE NoHandler]

\* The match rules of interface i, the signals' rule last.  If one of them is
\* refused, add_interface returns false, which no program looks at.
Match(p, i) == matched' = [matched EXCEPT ![p] = @ \cup {i}] /\ UNCHANGED failed
NoMatch(p, i) == failed' = [failed EXCEPT ![p] = @ \cup {i}] /\ UNCHANGED matched
AskMatch(p, i) == Match(p, i) \/ NoMatch(p, i)

Unregistered == UNCHANGED <<filter, initOk, lut, rules>>

\* init: without a bus conn_ stays null; whose name is refused, or who does not
\* become the primary owner, returns before the filter is added; the second stays
\* in the daemon's queue.
InitServer(p) ==
    LET n == BusName[p] IN
    /\ pc[p] = "started"
    /\ pc' = [pc EXCEPT ![p] = "adding"]
    /\ \/ UNCHANGED <<conn, names>> /\ Unregistered
       \/ /\ busUp
          /\ conn' = [conn EXCEPT ![p] = "open"]
          /\ \/ UNCHANGED names /\ Unregistered
             \/ ~Obtainable(n) /\ Queue(p, n) /\ Unregistered
             \/ /\ Obtainable(n)
                /\ Obtain(p, n)
                /\ filter' = [filter EXCEPT ![p] = TRUE]
                /\ initOk' = [initOk EXCEPT ![p] = TRUE]
                /\ lut' = [lut EXCEPT ![p] = [i \in {Intro} |-> IntroTable]]
                /\ AskMatch(p, Intro)
    /\ UNCHANGED <<mail, busUp>>

\* insert keeps what is there.
Merged(old, new) == [x \in Members |-> IF old[x] # NoHandler THEN old[x] ELSE new[x]]

Entered(p, i, table) ==
    [j \in DOMAIN lut[p] \cup {i} |->
        IF j # i THEN lut[p][j]
        ELSE IF i \in DOMAIN lut[p] THEN Merged(lut[p][i], table) ELSE table]

\* Mutant: the match rules are asked for with the first interface only.
AddInterfaceMatchedOnce(p, i, table) ==
    /\ pc[p] \in {"adding", "running"}
    /\ conn[p] # "null"
    /\ lut' = [lut EXCEPT ![p] = Entered(p, i, table)]
    /\ IF DOMAIN lut[p] # {} THEN UNCHANGED rules ELSE AskMatch(p, i)
    /\ UNCHANGED <<prog, conn, filter, mail, busUp, names>>

\* add_interface, before run or from a handler.  The interface is entered first.
\* The match rules are asked for with its first handlers only: not again for one
\* whose rules were refused.
AddInterface(p, i, table) ==
    /\ pc[p] \in {"adding", "running"}
    /\ conn[p] # "null"
    /\ lut' = [lut EXCEPT ![p] = Entered(p, i, table)]
    /\ IF i \in DOMAIN lut[p] THEN UNCHANGED rules
       ELSE IF conn[p] = "closed" THEN NoMatch(p, i)
       ELSE AskMatch(p, i)
    /\ UNCHANGED <<prog, conn, filter, mail, busUp, names>>

\* run enters the loop.
Run(p) ==
    /\ pc[p] = "adding"
    /\ conn[p] # "null"
    /\ pc' = [pc EXCEPT ![p] = "running"]
    /\ UNCHANGED <<conn, filter, initOk, lut, rules, mail, busUp, names>>

\* Mutant: signals are looked up among the methods.
FoundAmongMethods(p, msg) ==
    /\ filter[p]
    /\ msg.intf \in DOMAIN lut[p]
    /\ msg.json
    /\ lut[p][msg.intf]["method"] # NoHandler

\* dbus_message_dispatch is asked, can read the argument and finds a handler.
Found(p, msg) ==
    /\ filter[p]
    /\ msg.intf \in DOMAIN lut[p]
    /\ msg.json
    /\ lut[p][msg.intf][msg.member] # NoHandler

\* One round of the loop.  What is not found, or has an argument that is not
\* JSON, is refused: libdbus answers a method call with an error and drops a
\* signal.  The reply of a handler that has run is part of DbusCalls.
DispatchMessage(p) ==
    /\ pc[p] = "running"
    /\ received[p] # << >>
    /\ received' = [received EXCEPT ![p] = Tail(@)]
    /\ LET m == Head(received[p]) msg == what[m] IN
       ran' = IF Found(p, msg)
              THEN [ran EXCEPT ![m] = @ \cup {<<p, lut[p][msg.intf][msg.member]>>}]
              ELSE ran
    /\ UNCHANGED <<prog, conn, filter, lut, rules, what, busUp, names>>

-----------------------------------------------------------------------------
(* Clients, processes and the bus.                                         *)

Receivers(i) == {p \in Servers : conn[p] = "open" /\ i \in matched[p]}

\* A method call goes to the owner of the name, a signal to those who match.
SendMessage(m, i, x, json, to) ==
    /\ busUp
    /\ what[m] = NoMsg
    /\ what' = [what EXCEPT ![m] = [intf |-> i, member |-> x, json |-> json]]
    /\ received' = [p \in Servers |-> IF p \in to THEN Append(received[p], m) ELSE received[p]]
    /\ UNCHANGED <<prog, conn, filter, lut, rules, ran, busUp, names>>

SendCall(m, i, json, n) == SendMessage(m, i, "method", json, {owner[n]} \cap Servers)
SendSignal(m, i, json)  == SendMessage(m, i, "signal", json, Receivers(i))

ServerStart(p) ==
    /\ pc[p] = "down"
    /\ pc' = [pc EXCEPT ![p] = "started"]
    /\ UNCHANGED <<conn, filter, initOk, lut, rules, mail, busUp, names>>

End(p) ==
    /\ pc' = [pc EXCEPT ![p] = "down"]
    /\ conn' = [conn EXCEPT ![p] = "null"]
    /\ filter' = [filter EXCEPT ![p] = FALSE]
    /\ initOk' = [initOk EXCEPT ![p] = FALSE]
    /\ lut' = [lut EXCEPT ![p] = Empty]
    /\ matched' = [matched EXCEPT ![p] = {}]
    /\ failed' = [failed EXCEPT ![p] = {}]
    /\ received' = [received EXCEPT ![p] = << >>]
    /\ Leave(p)
    /\ UNCHANGED <<what, ran, busUp>>

ServerEnd(p) == pc[p] # "down" /\ End(p)

\* libdbus ends a program that uses a null connection, and one whose loop has
\* dispatched everything up to the end of its connection.
LibdbusExit(p) ==
    /\ \/ pc[p] = "adding" /\ conn[p] = "null"
       \/ pc[p] = "running" /\ conn[p] = "closed" /\ received[p] = << >>
    /\ End(p)

BusDown ==
    /\ busUp
    /\ busUp' = FALSE
    /\ conn' = [p \in Servers |-> IF conn[p] = "open" THEN "closed" ELSE conn[p]]
    /\ matched' = [p \in Servers |-> {}]
    /\ owner' = [n \in Names |-> NoOwner]
    /\ queue' = [n \in Names |-> << >>]
    /\ UNCHANGED <<prog, filter, lut, failed, mail>>

BusUp ==
    /\ ~busUp
    /\ busUp' = TRUE
    /\ UNCHANGED <<prog, conn, filter, lut, rules, mail, names>>

-----------------------------------------------------------------------------
ServersNext ==
    \/ \E p \in Servers :
          \/ InitServer(p) \/ Run(p) \/ DispatchMessage(p)
          \/ \E i \in Intfs, table \in Offers : AddInterface(p, i, table)
          \/ ServerStart(p) \/ ServerEnd(p) \/ LibdbusExit(p)
    \/ \E m \in Msgs, i \in AllIntfs, json \in BOOLEAN :
          SendSignal(m, i, json) \/ \E n \in Names : SendCall(m, i, json, n)
    \/ \E f \in Foreign : ForeignRelease(f) \/ \E n \in Names : ForeignRequest(f, n)
    \/ BusDown \/ BusUp

ServersSpec == ServersInit /\ [][ServersNext]_serverVars

\* A program that has started reaches its loop, and the loop goes on.
GoesOn(p) == InitServer(p) \/ Run(p) \/ DispatchMessage(p) \/ LibdbusExit(p)
FairServersSpec == ServersSpec /\ \A p \in Servers : WF_serverVars(GoesOn(p))

-----------------------------------------------------------------------------
(* Properties.                                                             *)

\* A server whose init succeeded owns its name as long as it is connected:
\* nobody can replace it, whoever asks.
OwnerKept ==
    \A p \in Servers : initOk[p] /\ conn[p] = "open" => owner[BusName[p]] = p

\* While a server is connected, the daemon sends it the signals of exactly the
\* interfaces in its registry for which add_interface has never returned false,
\* however they were added, merged and added again.
RegistryMatched ==
    \A p \in Servers : conn[p] = "open" => matched[p] = DOMAIN lut[p] \ failed[p]

\* A handler, once added, is the one that runs until the process ends.
HandlersKept ==
    [][\A p \in Servers : \A i \in DOMAIN lut[p], x \in Members :
         lut[p][i][x] # NoHandler /\ pc'[p] # "down"
             => i \in DOMAIN lut'[p] /\ lut'[p][i][x] = lut[p][i][x]]_serverVars

\* What reaches a server whose init succeeded, with an argument that is JSON and
\* for an interface and member it has a handler for, is handled by that handler,
\* unless the process ends.
Served ==
    \A p \in Servers, m \in Msgs :
        LET waits   == \E k \in DOMAIN received[p] : received[p][k] = m
            has     == /\ what[m] # NoMsg
                       /\ what[m].intf \in DOMAIN lut[p]
                       /\ lut[p][what[m].intf][what[m].member] # NoHandler
            handled == has /\ <<p, lut[p][what[m].intf][what[m].member]>> \in ran[m]
        IN  initOk[p] /\ waits /\ what[m].json /\ has ~> handled \/ pc[p] = "down"

\* What the tool calls listening (listen_method and listen_signal in tool/dbus.cpp)
\* is serving: a program in its loop that owns its name serves the requests for
\* it.  Not so for one that became the owner after its init.
OwnerServes ==
    \A p \in Servers : pc[p] = "running" /\ owner[BusName[p]] = p => filter[p]
=============================================================================
