----------------------------- MODULE HttpClient -----------------------------
(***************************************************************************)
(* httplib's ClientImpl with UdsClient's connect (src/src/lib/httplib.h,   *)
(* udsClient.h): one request after the other under request_mutex_, on a    *)
(* connection that is kept, redirects as nested calls of send_, and stop,  *)
(* which any thread may call while a request runs.  A critical section of  *)
(* socket_mutex_ is one step.  A request has its content in memory; what   *)
(* becomes of a content provider is in ClientRequests.                     *)
(***************************************************************************)
EXTENDS HttpSockets

CONSTANTS
    Clients,        \* the client objects
    Persistent,     \* those with set_keep_alive(true)
    Followers,      \* those with set_follow_location(true)
    NoRequest,      \* no request
    Sends,          \* Sends[k]: the requests of k (see HttpRequest)
    Locations,      \* the paths a redirect may lead to
    MaxRedirects,   \* redirect_count_ of a new request
    Stoppable       \* the clients that some thread calls stop on

ASSUME ClientsAssumption == Persistent \subseteq Clients /\ Followers \subseteq Clients
ASSUME RedirectsAssumption == MaxRedirects \in Nat

VARIABLES
    pc,         \* pc[k]: where the thread that holds request_mutex_ is
    sock,       \* socket_.sock
    inFlight,   \* socket_requests_in_flight_: send_, and the sends it redirects to
    mustClose,  \* socket_should_be_closed_when_request_is_done_
    request,    \* the request of the innermost send_
    ret         \* what the innermost send_ is going to return

clientVars == <<pc, sock, inFlight, mustClose, request, ret>>

ClientInit ==
    /\ pc = [k \in Clients |-> "idle"]
    /\ sock = [k \in Clients |-> NoConn]
    /\ inFlight = [k \in Clients |-> 0]
    /\ mustClose = [k \in Clients |-> FALSE]
    /\ request = [k \in Clients |-> NoRequest]
    /\ ret = [k \in Clients |-> FALSE]

Lives(k) == sock[k] # NoConn /\ Alive(sock[k])

\* The prologue of send_ for r: the connection is kept if it is alive, else
\* closed and made anew; only then does the request count as in flight.
Begin(k, r) ==
    /\ mustClose' = [mustClose EXCEPT ![k] = FALSE]
    /\ ret' = [ret EXCEPT ![k] = FALSE]
    /\ \/ /\ Lives(k)
          /\ UNCHANGED <<sock, sockVars>>
       \/ /\ ~Lives(k)
          /\ listening /\ ~Exhausted
          /\ ReplaceClientEnd(sock[k], Fresh)
          /\ backlog' = Append(backlog, Fresh)
          /\ sock' = [sock EXCEPT ![k] = Fresh]
          /\ UNCHANGED listening
    /\ inFlight' = [inFlight EXCEPT ![k] = @ + 1]
    /\ pc' = [pc EXCEPT ![k] = "head"]
    /\ request' = [request EXCEPT ![k] = r]

\* No connection can be made: send_ returns false to whoever called it.
BeginFails(k) ==
    /\ ~Lives(k)
    /\ ~listening \/ Exhausted
    /\ mustClose' = [mustClose EXCEPT ![k] = FALSE]
    /\ CloseClientEnd(sock[k])
    /\ sock' = [sock EXCEPT ![k] = NoConn]
    /\ pc' = [pc EXCEPT ![k] = IF inFlight[k] = 0 THEN "idle" ELSE "end"]
    /\ ret' = [ret EXCEPT ![k] = FALSE]
    /\ UNCHANGED <<inFlight, request, listening, backlog>>

\* Get, Post, ...: send takes request_mutex_ and calls send_.
Call(k, r) == pc[k] = "idle" /\ (Begin(k, r) \/ BeginFails(k))

\* send_, called by the redirect of a send_, with what that has made of the
\* request.
Follow(k) == pc[k] = "redirect" /\ (Begin(k, request[k]) \/ BeginFails(k))

\* send_ goes on to the end of its scope with ret = value.
Finish(k, value) ==
    /\ ret' = [ret EXCEPT ![k] = value]
    /\ pc' = [pc EXCEPT ![k] = "end"]

Writable(c) == cliEnd[c] = "open" /\ srvEnd[c] = "open"

\* write_request: request line and headers, then the body; either may fail.
\* A client that does not keep connections says so.
Sent(k) == [request[k] EXCEPT !.close = @ \/ k \notin Persistent]

WriteHead(k) ==
    /\ pc[k] = "head"
    /\ \/ /\ Writable(sock[k])
          /\ up' = [up EXCEPT ![sock[k]] = Append(@, [kind |-> "head", request |-> Sent(k)])]
          /\ pc' = [pc EXCEPT ![k] = IF request[k].body = "none" THEN "wait" ELSE "body"]
          /\ UNCHANGED ret
       \/ ~Writable(sock[k]) /\ Finish(k, FALSE) /\ UNCHANGED up
    /\ UNCHANGED <<sock, inFlight, mustClose, request,
                   down, cliEnd, srvEnd, listening, backlog, left>>

WriteBody(k) ==
    /\ pc[k] = "body"
    /\ \/ /\ Writable(sock[k])
          /\ up' = [up EXCEPT ![sock[k]] = Append(@, [kind |-> "body"])]
          /\ pc' = [pc EXCEPT ![k] = "wait"]
          /\ UNCHANGED ret
       \/ ~Writable(sock[k]) /\ Finish(k, FALSE) /\ UNCHANGED up
    /\ UNCHANGED <<sock, inFlight, mustClose, request,
                   down, cliEnd, srvEnd, listening, backlog, left>>

\* redirect after a See Other: what was no GET becomes one without a body and
\* without the headers.
Redirected(r, path) ==
    IF r.method \in {"GET", "HEAD"} THEN [r EXCEPT !.path = path]
    ELSE [r EXCEPT !.path = path, !.method = "GET", !.body = "none", !.type = "plain",
                   !.size = "fits", !.range = "none", !.expect = FALSE, !.close = FALSE]

\* The whole answer is there.  handle_request closes the connection if it
\* says so, and follows a redirect with a send of its own, unless there have
\* been too many.  A redirect without a location fails; one to another host is
\* the business of a client of its own, whatever comes of it.
TakeAnswer(k) ==
    LET c == sock[k]
        answer == Head(down[c])
        follows == answer.moved /\ k \in Followers
    IN  /\ pc[k] = "wait" /\ down[c] # <<>> /\ answer.whole
        /\ \/ /\ answer.close
              /\ CloseClientEnd(c)
              /\ sock' = [sock EXCEPT ![k] = NoConn]
           \/ /\ ~answer.close
              /\ down' = [down EXCEPT ![c] = Tail(@)]
              /\ UNCHANGED <<sock, up, cliEnd, srvEnd, left>>
        /\ \/ /\ ~follows
              /\ Finish(k, TRUE)
              /\ UNCHANGED request
           \/ /\ follows
              /\ \E value \in BOOLEAN :
                    /\ inFlight[k] > MaxRedirects => ~value
                    /\ Finish(k, value)
              /\ UNCHANGED request
           \/ \E path \in Locations :
                /\ follows /\ inFlight[k] <= MaxRedirects
                /\ request' = [request EXCEPT ![k] = Redirected(@, path)]
                /\ pc' = [pc EXCEPT ![k] = "redirect"]
                /\ UNCHANGED ret
        /\ UNCHANGED <<inFlight, mustClose, listening, backlog>>

\* What there is of an answer is not a whole one.
Incomplete(c) == \A i \in DOMAIN down[c] : i = 1 => ~down[c][i].whole

\* The read fails: nothing more will come or, in ReadTimeout, nothing came for
\* the read timeout.
ReadEnd(k) ==
    /\ pc[k] = "wait" /\ Incomplete(sock[k]) /\ NoMoreDown(sock[k])
    /\ Finish(k, FALSE)
    /\ UNCHANGED <<sock, inFlight, mustClose, request, sockVars>>

ReadTimeout(k) ==
    /\ pc[k] = "wait" /\ Incomplete(sock[k]) /\ ~NoMoreDown(sock[k])
    /\ Finish(k, FALSE)
    /\ UNCHANGED <<sock, inFlight, mustClose, request, sockVars>>

\* One send_ less in flight; with closes, its scope_exit closes the socket.
EndIf(k, closes) ==
    /\ pc[k] = "end"
    /\ inFlight' = [inFlight EXCEPT ![k] = @ - 1]
    /\ \/ /\ closes
          /\ CloseClientEnd(sock[k])
          /\ sock' = [sock EXCEPT ![k] = NoConn]
       \/ /\ ~closes
          /\ UNCHANGED <<sock, up, down, cliEnd, srvEnd, left>>
    /\ pc' = [pc EXCEPT ![k] = IF inFlight[k] = 1 THEN "idle" ELSE "end"]
    /\ request' = [request EXCEPT ![k] = IF inFlight[k] = 1 THEN NoRequest ELSE @]
    /\ ret' = [ret EXCEPT ![k] = @ /\ inFlight[k] > 1]
    /\ UNCHANGED <<mustClose, listening, backlog>>

\* Mutant: a failed request leaves its connection open.
EndKeeps(k) == EndIf(k, mustClose[k] \/ k \notin Persistent)

End(k) == EndIf(k, mustClose[k] \/ k \notin Persistent \/ ~ret[k])

\* Mutant: stop closes whatever is in flight.
ClientStopCloses(k) ==
    /\ sock[k] # NoConn
    /\ CloseClientEnd(sock[k])
    /\ sock' = [sock EXCEPT ![k] = NoConn]
    /\ UNCHANGED <<mustClose, pc, inFlight, request, ret, listening, backlog>>

\* stop, by any thread: under a request it only shuts the socket down and
\* leaves the closing to the request.
ClientStop(k) ==
    /\ \/ /\ inFlight[k] > 0
          /\ cliEnd' = [c \in Conns |-> IF c = sock[k] THEN "shut" ELSE cliEnd[c]]
          /\ mustClose' = [mustClose EXCEPT ![k] = TRUE]
          /\ UNCHANGED <<sock, up, down, srvEnd, left>>
       \/ /\ inFlight[k] = 0 /\ sock[k] # NoConn
          /\ CloseClientEnd(sock[k])
          /\ sock' = [sock EXCEPT ![k] = NoConn]
          /\ UNCHANGED mustClose
    /\ UNCHANGED <<pc, inFlight, request, ret, listening, backlog>>

Requester(k) ==
    Follow(k) \/ WriteHead(k) \/ WriteBody(k) \/ TakeAnswer(k) \/ ReadEnd(k) \/ End(k)
=============================================================================
