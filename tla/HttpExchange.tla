---------------------------- MODULE HttpExchange -----------------------------
(***************************************************************************)
(* httplib's clients and its server over the sockets between them.  The    *)
(* two sides share nothing but the connections, and each sees the other    *)
(* through its own reads, writes and timeouts only.                        *)
(***************************************************************************)
EXTENDS HttpServer, HttpClient

\* What the clients send, closing or not and redirected or not, is what the
\* server can be sent.
ASSUME RequestsAssumption ==
    /\ Requests \subseteq RequestRecords
    /\ \A k \in Clients : Sends[k] \subseteq Requests
    /\ \A r \in Requests : [r EXCEPT !.close = TRUE] \in Requests
    /\ \A r \in Requests, path \in Locations : Redirected(r, path) \in Requests

vars == <<sockVars, poolVars, serverVars, clientVars>>

Init == SocketsInit /\ ServerInit /\ ClientInit

\* A step of the listening thread or of a caller of the server's methods.
ServerSide ==
    \/ ListenUnixsock \/ ListenInternal \/ Accept \/ AcceptFails
    \/ LoopEnds \/ ListenReturns \/ ServerStop
    \/ \E w \in Workers : Worker(w)

ClientSide ==
    \E k \in Clients :
        \/ \E r \in Sends[k] : Call(k, r)
        \/ Requester(k) \/ ReadTimeout(k)
        \/ k \in Stoppable /\ ClientStop(k)

Next ==
    \/ ServerSide /\ UNCHANGED clientVars
    \/ ClientSide /\ UNCHANGED <<poolVars, serverVars>>

\* The scheduler runs every thread that can go on, and the server's timeouts
\* come to pass.  Nothing makes anybody call, start, stop or fail, and the
\* clients' read timeout may be as long as one likes.
Fairness ==
    /\ \A w \in Workers : WF_vars(UNCHANGED clientVars /\ Worker(w))
    /\ WF_vars(UNCHANGED clientVars /\ Listener)
    /\ \A k \in Clients : WF_vars(UNCHANGED <<poolVars, serverVars>> /\ Requester(k))

Spec == Init /\ [][Next]_vars /\ Fairness

-----------------------------------------------------------------------------
\* The requests and answers that are somewhere between the two ends of c.
Heads(c) == {i \in DOMAIN up[c] : up[c][i].kind = "head"}
InService(c) == {w \in Workers : job[w] = c /\ phase[w] \in {"body", "answer"}}
Pending(c) == Cardinality(Heads(c)) + Cardinality(InService(c)) + Len(down[c])

\* A client that sends a request on a kept connection takes the answer to that
\* request and no other: before it, nothing is under way on the connection,
\* and after it one request or answer.  Excepted are connections on which the
\* server has answered without reading the body, which it then reads as a
\* request of its own.  (No number or name ties an answer to its request.)
InStep ==
    \A k \in Clients : sock[k] # NoConn /\ ~left[sock[k]] =>
        /\ pc[k] \in {"idle", "redirect", "head"} => Pending(sock[k]) = 0
        /\ pc[k] \in {"body", "wait"} => Pending(sock[k]) <= 1

\* Who has the server's end of c.
Owners(c) ==
    Cardinality({i \in DOMAIN backlog : backlog[i] = c})
    + Cardinality({i \in DOMAIN jobs : jobs[i] = c})
    + Cardinality({w \in Workers : job[w] = c})

\* No descriptor is lost, closed twice or closed under its user: an open end
\* of the server is in exactly one place, and a client's request keeps its
\* socket until its own end, whoever calls stop.
SocketsOwned ==
    /\ \A c \in Conns : Owners(c) = IF srvEnd[c] = "open" THEN 1 ELSE 0
    /\ \A k \in Clients : pc[k] \in {"head", "body", "wait"} =>
          sock[k] # NoConn /\ InUse(sock[k])
    /\ \A c \in Conns : InUse(c) => Cardinality({k \in Clients : sock[k] = c}) = 1

\* No connection keeps its worker for ever, so that every queued one is taken
\* up: the keep-alive count and the timeouts end what the client does not.
WorkersReturn == \A w \in Workers : []<>(at[w] # "busy")

\* Once the server's loop has ended, by stop or a failing accept, the workers
\* finish what was accepted and listen returns, which is all that ends the drain.
ListenEnds == []<>(main # "drain")

\* Every request returns to its caller, even if no read timeout of the client
\* ever fires: the server closes every connection it does not answer on, the
\* ones it refuses and the ones it has not accepted included.
CallsEnd == \A k \in Clients : []<>(pc[k] = "idle")

\* Once stop has told the client to close the socket when the request is
\* done, the order is not forgotten while the request runs.
StopHolds ==
    [][\A k \in Clients :
          inFlight[k] > 0 /\ mustClose[k] /\ ~mustClose'[k] => sock'[k] = NoConn]_vars
=============================================================================
