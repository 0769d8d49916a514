----------------------------- MODULE HttpServer -----------------------------
(***************************************************************************)
(* httplib's Server (src/src/lib/httplib.h) with the listening call of     *)
(* UdsServer (src/src/lib/udsServer.h): one thread that accepts, a pool of *)
(* workers that each serve one connection after the other, and stop, which *)
(* any thread may call.  What a request is answered is HttpRequest's; the  *)
(* requests that wait, break off or come late, the answers that cannot be  *)
(* written, the keep-alive count and the closing are here.                 *)
(***************************************************************************)
EXTENDS ThreadPool, HttpSockets, HttpRequest

CONSTANTS
    Requests,       \* the requests that clients can send (see HttpRequest)
    Strays,         \* those that the bytes of a body may look like
    Handlers,       \* the handlers, in the order of their registration
    KeepAliveMax    \* keep_alive_max_count_

ASSUME KeepAliveAssumption == KeepAliveMax \in Nat \ {0}
ASSUME StraysAssumption == Strays \subseteq Requests
ASSUME JobsAssumption == Jobs = Conns /\ NoJob = NoConn

VARIABLES
    main,       \* the thread of listen: "off", "bound", "accept" or "drain"
    svrSock,    \* svr_sock_ is not INVALID_SOCKET
    phase,      \* phase[w]: what w does with its connection
    count,      \* count[w]: the requests w may still take from it
    req,        \* req[w]: the request whose body w reads
    reply       \* reply[w]: what w is about to write

serverVars == <<main, svrSock, phase, count, req, reply>>

\* What cannot be parsed as a request.
BadRequest == [line |-> "bad", method |-> "GET", path |-> "none", body |-> "none",
               type |-> "plain", size |-> "fits", range |-> "none",
               expect |-> FALSE, close |-> FALSE]

NoReply == [moved |-> FALSE, close |-> FALSE]

ServerInit ==
    /\ PoolInit
    /\ main = "off"
    /\ svrSock = FALSE
    /\ phase = [w \in Workers |-> "idle"]
    /\ count = [w \in Workers |-> 0]
    /\ req = [w \in Workers |-> BadRequest]
    /\ reply = [w \in Workers |-> NoReply]

\* listen_unixsock, up to listen_after_bind.  Clients can connect from here on.
ListenUnixsock ==
    /\ main = "off" /\ ~listening
    /\ main' = "bound"
    /\ svrSock' = TRUE
    /\ listening' = TRUE
    /\ UNCHANGED <<poolVars, phase, count, req, reply,
                   up, down, cliEnd, srvEnd, backlog, left>>

\* is_running_ is set, the task queue and its threads are made.
ListenInternal ==
    /\ main = "bound"
    /\ main' = "accept"
    /\ PoolStarts
    /\ UNCHANGED <<svrSock, phase, count, req, reply, sockVars>>

\* Mutant: a refused connection is forgotten.
AcceptForgets ==
    /\ main = "accept" /\ svrSock /\ backlog # <<>>
    /\ backlog' = Tail(backlog)
    /\ \/ Enqueue(Head(backlog))
       \/ Full /\ UNCHANGED poolVars
    /\ UNCHANGED <<listening, serverVars, up, down, cliEnd, srvEnd, left>>

\* accept, and the connection goes to the pool or, if that is full, is closed.
Accept ==
    /\ main = "accept" /\ svrSock /\ backlog # <<>>
    /\ backlog' = Tail(backlog)
    /\ \/ Enqueue(Head(backlog)) /\ UNCHANGED <<up, down, cliEnd, srvEnd, left>>
       \/ Full /\ CloseServerEnds({Head(backlog)}) /\ UNCHANGED poolVars
    /\ UNCHANGED <<listening, serverVars>>

\* The listening socket closes; the kernel resets who was not accepted yet.
StopListening ==
    /\ listening' = FALSE
    /\ backlog' = <<>>
    /\ CloseServerEnds({backlog[i] : i \in DOMAIN backlog})

\* accept fails for good: the loop closes the socket and leaves svr_sock_.
AcceptFails ==
    /\ main = "accept" /\ svrSock
    /\ StopListening
    /\ main' = "drain"
    /\ PoolShutdown
    /\ UNCHANGED <<svrSock, phase, count, req, reply>>

\* The loop finds svr_sock_ invalid, on its condition or after accept failed.
LoopEnds ==
    /\ main = "accept" /\ ~svrSock
    /\ main' = "drain"
    /\ PoolShutdown
    /\ UNCHANGED <<svrSock, phase, count, req, reply, sockVars>>

\* shutdown has joined every thread: listen returns.
ListenReturns ==
    /\ main = "drain" /\ Joined
    /\ main' = "off"
    /\ UNCHANGED <<poolVars, svrSock, phase, count, req, reply, sockVars>>

\* stop, by any thread.  Before is_running_ is set it does nothing, and a
\* second one fails its assertion.
ServerStop ==
    /\ main \in {"accept", "drain"} /\ svrSock
    /\ svrSock' = FALSE
    /\ StopListening
    /\ UNCHANGED <<poolVars, main, phase, count, req, reply>>

-----------------------------------------------------------------------------
(* The worker's job: process_and_close_socket. *)

\* The condition of process_server_socket_core's loop with n requests to go.
Onward(goesOn, n) == IF goesOn /\ svrSock /\ n > 0 THEN "poll" ELSE "close"

\* w starts on the next connection of the queue.
TakeConnection(w) ==
    /\ main \in {"accept", "drain"}
    /\ WorkerTakes(w)
    /\ phase' = [phase EXCEPT ![w] = Onward(TRUE, KeepAliveMax)]
    /\ count' = [count EXCEPT ![w] = KeepAliveMax]
    /\ UNCHANGED <<main, svrSock, req, reply, sockVars>>

\* keep_alive gives up: nothing to read for the keep-alive timeout.
KeepAliveTimeout(w) ==
    /\ at[w] = "busy" /\ phase[w] = "poll" /\ up[job[w]] = <<>>
    /\ phase' = [phase EXCEPT ![w] = "close"]
    /\ UNCHANGED <<poolVars, main, svrSock, count, req, reply, sockVars>>

\* The outcome of a request; arrives says that its body can be read.
Outcomes == [r \in Requests \cup {BadRequest} |->
                [arrives \in BOOLEAN |-> ProcessRequest(Handlers, {}, 100, r, arrives)]]
Result(r, arrives) == Outcomes[r][arrives]

\* The request waits for its body.
NeedsBody(r) == r.body # "none" /\ Result(r, TRUE).read # "none"

\* The last answer of the count closes the connection, and one to a request
\* that asks for it in a head that has been parsed.
ReplyTo(w, r, arrives) ==
    [moved |-> Result(r, arrives).status = 303,
     close |-> (r.line = "ok" /\ r.close) \/ count[w] = 1]

\* What is read as a request: a head, or the bytes of a stray body.
ReadAs(piece) == IF piece.kind = "head" THEN {piece.request} ELSE Strays \cup {BadRequest}

\* What comes behind it: of a stray body there may be more.
Behind(s) == IF Head(s).kind = "head" THEN {Tail(s)} ELSE {s, Tail(s)}

\* keep_alive sees data or the end of the stream (then there is no line, as
\* after a timeout), and process_request reads up to the end of the headers.
\* A body that will not be read stays in the stream, or goes with the buffer of
\* this request's stream.
ReadHead(w) ==
    LET c == job[w] IN
    /\ at[w] = "busy" /\ phase[w] = "poll" /\ up[c] # <<>>
    /\ \E r \in ReadAs(Head(up[c])), rest \in Behind(up[c]) :
          \/ /\ NeedsBody(r)
             /\ up' = [up EXCEPT ![c] = rest]
             /\ req' = [req EXCEPT ![w] = r]
             /\ phase' = [phase EXCEPT ![w] = "body"]
             /\ UNCHANGED <<reply, left>>
          \/ /\ ~NeedsBody(r)
             /\ \E dropped \in 0..Len(rest) :
                   /\ dropped > 0 => r.body # "none"
                   /\ up' = [up EXCEPT ![c] = SubSeq(rest, dropped + 1, Len(rest))]
             /\ reply' = [reply EXCEPT ![w] = ReplyTo(w, r, TRUE)]
             /\ left' = [left EXCEPT ![c] = @ \/ r.body # "none"]
             /\ phase' = [phase EXCEPT ![w] = "answer"]
             /\ UNCHANGED req
    /\ UNCHANGED <<poolVars, main, svrSock, count,
                   down, cliEnd, srvEnd, listening, backlog>>

\* The body is there, or it is given up: after the read timeout, or because
\* nothing more will come.  The request is answered all the same.
ReadBody(w) ==
    LET c == job[w]
        answers(arrives) ==
            /\ reply' = [reply EXCEPT ![w] = ReplyTo(w, req[w], arrives)]
            /\ left' = [left EXCEPT ![c] = @ \/ Result(req[w], arrives).read # "whole"]
    IN  /\ at[w] = "busy" /\ phase[w] = "body"
        /\ \/ /\ up[c] # <<>>
              /\ up' = [up EXCEPT ![c] = Tail(@)]
              /\ answers(TRUE)
           \/ /\ up[c] = <<>>
              /\ answers(FALSE)
              /\ UNCHANGED up
        /\ req' = [req EXCEPT ![w] = BadRequest]
        /\ phase' = [phase EXCEPT ![w] = "answer"]
        /\ UNCHANGED <<poolVars, main, svrSock, count,
                       down, cliEnd, srvEnd, listening, backlog>>

\* Mutant: the loop does not count down.
AnswerUncounted(w) ==
    LET c == job[w]
    IN  /\ at[w] = "busy" /\ phase[w] = "answer"
        /\ ~NoMoreUp(c)
        /\ down' = [down EXCEPT ![c] = Append(@, [whole |-> TRUE, moved |-> reply[w].moved,
                                                  close |-> reply[w].close])]
        /\ phase' = [phase EXCEPT ![w] = Onward(TRUE, count[w])]
        /\ reply' = [reply EXCEPT ![w] = NoReply]
        /\ UNCHANGED <<poolVars, main, svrSock, count, req, left,
                       up, cliEnd, srvEnd, listening, backlog>>

\* The answer is written: all of it; in part, when a content provider or a
\* write fails; or not at all, when the client is gone.  The failures to write
\* the head and a chunk's end are not looked at, nor that a stop cut the
\* content short, so that returned, what write_response returns, may be true
\* even then.  The loop goes on unless this was the last answer:
\* the request asked to close, or it was the last one of the count.
Answer(w) ==
    LET c == job[w]
    IN  /\ at[w] = "busy" /\ phase[w] = "answer"
        /\ \E written \in {"whole", "part", "nothing"}, returned \in BOOLEAN :
              /\ written = "whole" => returned
              /\ (written = "nothing") = NoMoreUp(c)
              /\ down' = IF written = "nothing" THEN down
                         ELSE [down EXCEPT ![c] = Append(@,
                                  [whole |-> written = "whole", moved |-> reply[w].moved,
                                   close |-> reply[w].close])]
              /\ phase' = [phase EXCEPT ![w] =
                              Onward(returned /\ ~reply[w].close, count[w] - 1)]
              /\ count' = [count EXCEPT ![w] = @ - 1]
        /\ reply' = [reply EXCEPT ![w] = NoReply]
        /\ UNCHANGED <<poolVars, main, svrSock, req, left,
                       up, cliEnd, srvEnd, listening, backlog>>

\* The connection is closed and the job ends.
CloseConnection(w) ==
    /\ at[w] = "busy" /\ phase[w] = "close"
    /\ CloseServerEnds({job[w]})
    /\ phase' = [phase EXCEPT ![w] = "idle"]
    /\ count' = [count EXCEPT ![w] = 0]
    /\ WorkerDone(w)
    /\ UNCHANGED <<main, svrSock, req, reply, listening, backlog>>

\* The rest of a worker's life, once the pool is there.
Idles(w) ==
    /\ main \in {"accept", "drain"}
    /\ WorkerWaits(w) \/ WorkerLeaves(w)
    /\ UNCHANGED <<serverVars, sockVars>>

Worker(w) ==
    \/ TakeConnection(w) \/ Idles(w)
    \/ KeepAliveTimeout(w) \/ ReadHead(w) \/ ReadBody(w) \/ Answer(w)
    \/ CloseConnection(w)

Listener == ListenInternal \/ Accept \/ LoopEnds \/ ListenReturns
=============================================================================
