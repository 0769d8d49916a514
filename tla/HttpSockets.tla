----------------------------- MODULE HttpSockets -----------------------------
(***************************************************************************)
(* The stream sockets between httplib's clients and its server: what the   *)
(* kernel promises of a connection, and the calls of namespace detail that *)
(* ask for it (src/src/lib/httplib.h: close_socket, shutdown_socket,       *)
(* select_read, is_socket_alive).                                          *)
(*                                                                         *)
(* A connection carries whole pieces of messages, in order: the head of a  *)
(* request or a response, or its body.  Its ends are descriptors; once     *)
(* both are closed the numbers are used again for the next connection.     *)
(***************************************************************************)
EXTENDS Naturals, Sequences

CONSTANTS
    Conns,    \* the connections there can be at a time
    NoConn    \* INVALID_SOCKET

ASSUME ConnsAssumption == NoConn \notin Conns

VARIABLES
    up,         \* up[c]: sent by the client of c, not yet received
    down,       \* down[c]: sent by the server, not yet received
    cliEnd,     \* cliEnd[c]: the client's end: "none", "open", "shut", "closed"
    srvEnd,     \* srvEnd[c]: the server's end
    listening,  \* the listening socket is open
    backlog,    \* connections that wait to be accepted
    left        \* history: left[c]: the server left a body unread in c

sockVars == <<up, down, cliEnd, srvEnd, listening, backlog, left>>

SocketsInit ==
    /\ up = [c \in Conns |-> <<>>]
    /\ down = [c \in Conns |-> <<>>]
    /\ cliEnd = [c \in Conns |-> "none"]
    /\ srvEnd = [c \in Conns |-> "none"]
    /\ listening = FALSE
    /\ backlog = <<>>
    /\ left = [c \in Conns |-> FALSE]

InUse(c) == cliEnd[c] \in {"open", "shut"}

\* Nothing more will come up (down) than what is in the stream.
NoMoreUp(c)   == cliEnd[c] # "open" \/ srvEnd[c] = "shut"
NoMoreDown(c) == srvEnd[c] # "open" \/ cliEnd[c] = "shut"

\* is_socket_alive, at the client's end: data to read, or nothing at all; not
\* the end of the stream.
Alive(c) == down[c] # <<>> \/ ~NoMoreDown(c)

\* The server closes its ends of the connections C: what they have not read
\* is lost, what they have sent can still be read.
CloseServerEnds(C) ==
    /\ srvEnd' = [c \in Conns |-> IF c \notin C THEN srvEnd[c]
                                  ELSE IF cliEnd[c] = "closed" THEN "none" ELSE "closed"]
    /\ cliEnd' = [c \in Conns |-> IF c \in C /\ cliEnd[c] = "closed" THEN "none"
                                  ELSE cliEnd[c]]
    /\ up' = [c \in Conns |-> IF c \in C THEN <<>> ELSE up[c]]
    /\ down' = [c \in Conns |-> IF c \in C /\ cliEnd[c] = "closed" THEN <<>> ELSE down[c]]
    /\ UNCHANGED left

\* The client closes its end of c, if it has one, and opens n, if it is one.
ReplaceClientEnd(c, n) ==
    /\ cliEnd' = [k \in Conns |-> IF k = n THEN "open"
                                  ELSE IF k # c THEN cliEnd[k]
                                  ELSE IF srvEnd[c] = "closed" THEN "none" ELSE "closed"]
    /\ srvEnd' = [k \in Conns |-> IF k = n THEN "open"
                                  ELSE IF k = c /\ srvEnd[c] = "closed" THEN "none"
                                  ELSE srvEnd[k]]
    /\ down' = [k \in Conns |-> IF k = c THEN <<>> ELSE down[k]]
    /\ up' = [k \in Conns |-> IF k = c /\ srvEnd[c] = "closed" THEN <<>> ELSE up[k]]
    /\ left' = [k \in Conns |-> IF k = n THEN FALSE ELSE left[k]]

CloseClientEnd(c) == ReplaceClientEnd(c, NoConn)

\* A new connection has the first pair of descriptors that is free; without
\* one there is no connection.
Free(c)   == cliEnd[c] = "none" /\ srvEnd[c] = "none"
Fresh     == CHOOSE c \in Conns : Free(c)
Exhausted == \A c \in Conns : ~Free(c)
=============================================================================
