----------------------------- MODULE UdsServer ------------------------------
(***************************************************************************)
(* HTTP over a unix socket: UdsServer and UdsClient (src/src/lib), as the  *)
(* program test/uds_server.cpp uses them.  Processes of that program share *)
(* the ini file (Config) and the path of the socket.  A process may be     *)
(* killed at any step and be started again; nothing then removes the file  *)
(* of its socket, which keeps the path and refuses every connection.       *)
(*                                                                         *)
(* The path of the program fits sun_path.  httplib (external) serves from  *)
(* listen_after_bind on, for as long as the process lives.                 *)
(***************************************************************************)
EXTENDS Config

CONSTANTS NoSocket,  \* the path does not exist
          Dead       \* the path is that of a socket whose process is gone

ASSUME SocketAssumption == NoSocket \notin Procs /\ Dead \notin Procs /\ NoSocket # Dead

VARIABLE path   \* the process whose socket the path names, NoSocket or Dead

vars == <<file, config, size, pc, path>>

\* main has not begun; it has returned because bind failed, because there was
\* no socket to be had, or because of the configuration; it was killed.
Down == {"off", "quit", "failed", "rejected", "killed"}

Places == Down \cup {"init", "create", "write", "open", "read", "configured",
                     "remove", "bind", "listen", "serve"}

TypeOK ==
    /\ pc \in [Procs -> Places]
    /\ path \in Procs \cup {NoSocket, Dead}
    /\ file \in Seq(Lines) \cup {NoFile}
    /\ size \in [Procs -> Nat]
    /\ DOMAIN config = Procs /\ \A p \in Procs : IsMap(config[p])

Init ==
    /\ ConfigInit
    /\ pc = [p \in Procs |-> "off"]
    /\ path = NoSocket

Goto(p, place) == pc' = [pc EXCEPT ![p] = place]

Start(p) ==
    /\ pc[p] \in Down
    /\ \E m \in Presets : config' = [config EXCEPT ![p] = m]
    /\ Goto(p, "init")
    /\ UNCHANGED <<file, size, path>>

\* remove_unixsock: fileExists, then remove.  run_service does not look at
\* what it returns.
CheckSocket(p) ==
    /\ pc[p] = "configured"
    /\ Goto(p, IF path = NoSocket THEN "bind" ELSE "remove")
    /\ UNCHANGED <<configVars, path>>

\* Mutant: remove_unixsock is left out.
KeepSocket(p) ==
    /\ pc[p] = "remove"
    /\ Goto(p, "bind")
    /\ UNCHANGED <<configVars, path>>

RemoveSocket(p) ==
    /\ pc[p] = "remove"
    /\ path' = NoSocket
    /\ Goto(p, "bind")
    /\ UNCHANGED configVars

\* listen_unixsock: socket, which may fail, and bind, which fails if the path
\* exists again; then it returns false, and main 0.
SocketFails(p) ==
    /\ pc[p] = "bind"
    /\ config' = [config EXCEPT ![p] = NoConfig]
    /\ Goto(p, "failed")
    /\ UNCHANGED <<file, size, path>>

Bind(p) ==
    /\ pc[p] = "bind"
    /\ path = NoSocket
    /\ path' = p
    /\ Goto(p, "listen")
    /\ UNCHANGED configVars

\* Mutant: the error path also removes the socket file.
BindFailsTidily(p) ==
    /\ pc[p] = "bind"
    /\ path # NoSocket
    /\ config' = [config EXCEPT ![p] = NoConfig]
    /\ path' = NoSocket
    /\ Goto(p, "quit")
    /\ UNCHANGED <<file, size>>

BindFails(p) ==
    /\ pc[p] = "bind"
    /\ path # NoSocket
    /\ config' = [config EXCEPT ![p] = NoConfig]
    /\ Goto(p, "quit")
    /\ UNCHANGED <<file, size, path>>

\* listen, svr_sock_ and listen_after_bind.
Listen(p) ==
    /\ pc[p] = "listen"
    /\ Goto(p, "serve")
    /\ UNCHANGED <<configVars, path>>

\* The process ends without a word.
Kill(p) ==
    /\ pc[p] \notin Down
    /\ path' = IF path = p THEN Dead ELSE path
    /\ config' = [config EXCEPT ![p] = NoConfig]
    /\ size' = [size EXCEPT ![p] = 0]
    /\ Goto(p, "killed")
    /\ UNCHANGED file

Serve(p) ==
    \/ CheckSocket(p) \/ RemoveSocket(p)
    \/ SocketFails(p) \/ Bind(p) \/ BindFails(p) \/ Listen(p)

Run(p) == (InitConfig(p) /\ UNCHANGED path) \/ Serve(p)

Next ==
    \/ \E p \in Procs : Start(p) \/ Run(p) \/ Kill(p)
    \/ Edit /\ UNCHANGED path

Spec == Init /\ [][Next]_vars

\* A process that runs goes on running.
FairSpec == Spec /\ \A p \in Procs : WF_vars(Run(p))

-----------------------------------------------------------------------------
(* Properties.                                                             *)

\* UdsClient::create_and_connect_socket: connect, which is refused unless the
\* path names a socket somebody listens on.
Connects == \E p \in Procs : path = p /\ pc[p] = "serve"

\* However several starts interleave (each removes the file of the one before,
\* or of the one that has just bound it), they do not leave a server that
\* listens on a socket no client can reach: if somebody serves, and everybody
\* else serves, was told that the path is taken, or was never started, a client
\* connects.  A process that is killed or fails between the removal and bind, or
\* is killed after bind, leaves older servers deaf.
Covered ==
    /\ \E p \in Procs : pc[p] = "serve"
    /\ \A p \in Procs : pc[p] \in {"off", "quit", "serve"}
    => Connects

\* A server that is started while no other one runs comes to serve, whatever
\* ended the one before and whatever it left: the file of its socket, or an ini
\* file half written; unless it is killed too, a rival is started, there is no
\* socket to be had, or the configuration is rejected.
Alone(p) == \A q \in Procs \ {p} : pc[q] \in Down

RestartServes ==
    \A p \in Procs :
        pc[p] = "init" /\ Alone(p) ~>
            Connects \/ ~Alone(p) \/ pc[p] \in {"killed", "failed", "rejected"}
=============================================================================
