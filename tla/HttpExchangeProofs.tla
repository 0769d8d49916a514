------------------------- MODULE HttpExchangeProofs --------------------------
(***************************************************************************)
(* Proofs about HttpExchange, for any clients, workers, connections,       *)
(* handlers, requests and bounds.                                          *)
(***************************************************************************)
EXTENDS HttpExchange, FiniteSetTheorems, TLAPS

Pieces  == [kind : {"head"}, request : Requests] \cup [kind : {"body"}]
Answers == [whole : BOOLEAN, moved : BOOLEAN, close : BOOLEAN]

SockTypes ==
    /\ up \in [Conns -> Seq(Pieces)]
    /\ down \in [Conns -> Seq(Answers)]
    /\ cliEnd \in [Conns -> {"none", "open", "shut", "closed"}]
    /\ srvEnd \in [Conns -> {"none", "open", "closed"}]
    /\ listening \in BOOLEAN
    /\ backlog \in Seq(Conns)
    /\ left \in [Conns -> BOOLEAN]

ServerTypes ==
    /\ PoolTypeOK
    /\ main \in {"off", "bound", "accept", "drain"}
    /\ svrSock \in BOOLEAN
    /\ phase \in [Workers -> {"idle", "poll", "body", "answer", "close"}]
    /\ count \in [Workers -> 0..KeepAliveMax]
    /\ req \in [Workers -> Requests \cup {BadRequest}]
    /\ reply \in [Workers -> [moved : BOOLEAN, close : BOOLEAN]]

ClientTypes ==
    /\ pc \in [Clients -> {"idle", "redirect", "head", "body", "wait", "end"}]
    /\ sock \in [Clients -> Conns \cup {NoConn}]
    /\ inFlight \in [Clients -> 0..(MaxRedirects + 1)]
    /\ mustClose \in [Clients -> BOOLEAN]
    /\ request \in [Clients -> Requests \cup {NoRequest}]
    /\ ret \in [Clients -> BOOLEAN]

TypeOK == SockTypes /\ ServerTypes /\ ClientTypes

\* An end of the kernel's is there as long as the other one.
Ends ==
    \A c \in Conns :
        /\ cliEnd[c] = "none" <=> srvEnd[c] = "none"
        /\ cliEnd[c] = "closed" => srvEnd[c] = "open"
        /\ srvEnd[c] = "closed" => InUse(c)

\* The client's ends in use are the sockets of the clients, one of each.
OneClient ==
    /\ \A c \in Conns : InUse(c) <=> \E k \in Clients : sock[k] = c
    /\ \A k, l \in Clients : sock[k] = sock[l] /\ sock[k] # NoConn => k = l

\* Every element of s is there once.
Once(s) == \A i, j \in 1..Len(s) : s[i] = s[j] => i = j

\* An open end of the server waits to be accepted, is queued or is served, in
\* one place of one of these.
OnePlace ==
    /\ \A c \in Conns :
          srvEnd[c] = "open" <=>
              c \in Range(backlog) \/ c \in Range(jobs) \/ \E w \in Workers : job[w] = c
    /\ Range(backlog) \cap Range(jobs) = {}
    /\ \A w \in Workers : job[w] \notin Range(backlog) \cup Range(jobs)
    /\ Once(backlog) /\ Once(jobs)
    /\ \A v, w \in Workers : job[v] = job[w] /\ job[v] # NoConn => v = w

\* The listening thread and the pool.
PoolLife ==
    /\ ~listening => backlog = <<>>
    /\ \A w \in Workers :
          /\ at[w] = "busy" <=> job[w] # NoConn
          /\ at[w] = "busy" <=> phase[w] # "idle"
          /\ phase[w] \in {"poll", "body", "answer"} => count[w] > 0
    /\ main \in {"off", "bound"} => jobs = <<>> /\ \A w \in Workers : at[w] # "busy"
    /\ main = "accept" => ~shutdown /\ \A w \in Workers : at[w] # "out"
    /\ main = "drain" => \A w \in Workers : at[w] = "out" => jobs = <<>>

\* A request in flight has its socket until it ends.
ClientLife ==
    \A k \in Clients :
        /\ inFlight[k] = 0 <=> pc[k] = "idle"
        /\ pc[k] \in {"head", "body", "wait"} => sock[k] # NoConn
        /\ pc[k] # "idle" => request[k] \in Requests
        /\ pc[k] = "redirect" => inFlight[k] <= MaxRedirects

OwnInv == TypeOK /\ Ends /\ OneClient /\ OnePlace /\ PoolLife /\ ClientLife

-----------------------------------------------------------------------------
Serving(c, ph) == \E w \in Workers : job[w] = c /\ phase[w] = ph

\* Nothing is left in a stream that nobody will read.
Streams ==
    \A c \in Conns :
        /\ cliEnd[c] \in {"none", "closed"} => down[c] = <<>>
        /\ srvEnd[c] # "open" => up[c] = <<>>

\* A worker waits only for the body of a request that has one.
Bodies ==
    \A w \in Workers : phase[w] = "body" => req[w] \in Requests /\ req[w].body # "none"

Idle(c)  == ~Serving(c, "body") /\ ~Serving(c, "answer")
Quiet(c) == up[c] = <<>> /\ down[c] = <<>> /\ Idle(c)

HeadOf(piece, bodied) == piece.kind = "head" /\ (piece.request.body # "none") = bodied

\* The head of the request is on its way, read, or lost with the connection.
HeadSent(c) ==
    /\ down[c] = <<>> /\ ~Serving(c, "answer")
    /\ \/ Len(up[c]) = 1 /\ HeadOf(up[c][1], TRUE) /\ Idle(c)
       \/ up[c] = <<>> /\ Serving(c, "body")
       \/ Quiet(c) /\ srvEnd[c] # "open"

\* All of the request is on its way, or read, or answered.
Asked(c) ==
    \/ /\ down[c] = <<>> /\ Idle(c)
       /\ \/ Len(up[c]) = 2 /\ HeadOf(up[c][1], TRUE) /\ up[c][2].kind = "body"
          \/ Len(up[c]) = 1 /\ HeadOf(up[c][1], FALSE)
    \/ /\ down[c] = <<>> /\ Serving(c, "body") /\ ~Serving(c, "answer")
       /\ Len(up[c]) = 1 /\ up[c][1].kind = "body"
    \/ down[c] = <<>> /\ up[c] = <<>> /\ Serving(c, "answer") /\ ~Serving(c, "body")
    \/ up[c] = <<>> /\ Idle(c) /\ Len(down[c]) <= 1

Stage(k, c) ==
    /\ pc[k] \in {"idle", "redirect", "head"} => Quiet(c)
    /\ pc[k] = "end" /\ ret[k] => Quiet(c)
    /\ pc[k] = "body" => HeadSent(c)
    /\ pc[k] = "wait" => Asked(c)

\* Where each client is in its exchange, unless the server has left a body in
\* the stream.
Exchange ==
    \A k \in Clients, c \in Conns : sock[k] = c /\ ~left[c] => Stage(k, c)

StepInv == Streams /\ Bodies /\ Exchange

USE ConnsAssumption, JobsAssumption

-----------------------------------------------------------------------------
(* Sequences without repetition.                                           *)

\* A new last element.
LEMMA AppendFacts ==
    ASSUME NEW S, NEW s \in Seq(S), NEW x \in S
    PROVE  /\ Append(s, x) \in Seq(S) /\ Append(s, x) # <<>>
           /\ Range(Append(s, x)) = Range(s) \cup {x}
           /\ Once(s) /\ x \notin Range(s) => Once(Append(s, x))
<1>. DEFINE t == Append(s, x)
<1>1. /\ t \in Seq(S) /\ Len(t) = Len(s) + 1 /\ Len(s) \in Nat /\ t # <<>>
      /\ \A i \in 1..Len(s) : t[i] = s[i]
      /\ t[Len(s) + 1] = x
  OBVIOUS
<1>2. DOMAIN t = 1..(Len(s) + 1) /\ DOMAIN s = 1..Len(s)
  BY <1>1
<1>. HIDE DEF t
<1>3. Range(t) = Range(s) \cup {x}
  <2>1. \A y \in Range(t) : y \in Range(s) \cup {x}
    BY <1>1, <1>2 DEF Range
  <2>2. \A y \in Range(s) \cup {x} : y \in Range(t)
    BY <1>1, <1>2 DEF Range
  <2>. QED
    BY <2>1, <2>2
<1>4. Once(s) /\ x \notin Range(s) => Once(t)
  BY <1>1, <1>2 DEF Range, Once
<1>. QED
  BY <1>1, <1>3, <1>4 DEF t

\* The first element goes.
LEMMA TailFacts ==
    ASSUME NEW S, NEW s \in Seq(S), s # <<>>
    PROVE  /\ Head(s) \in S /\ Tail(s) \in Seq(S)
           /\ Range(s) = Range(Tail(s)) \cup {Head(s)}
           /\ Once(s) => Once(Tail(s)) /\ Head(s) \notin Range(Tail(s))
<1>. DEFINE t == Tail(s)
<1>1. /\ t \in Seq(S) /\ Len(t) = Len(s) - 1 /\ Len(s) \in Nat \ {0}
      /\ \A i \in 1..Len(t) : t[i] = s[i + 1]
      /\ Head(s) = s[1] /\ Head(s) \in S
  OBVIOUS
<1>2. DOMAIN t = 1..(Len(s) - 1) /\ DOMAIN s = 1..Len(s)
  BY <1>1
<1>. HIDE DEF t
<1>3. \A y \in Range(s) : y \in Range(t) \cup {Head(s)}
  <2> SUFFICES ASSUME NEW i \in 1..Len(s), i # 1 PROVE s[i] \in Range(t)
    BY <1>1, <1>2 DEF Range
  <2>1. i - 1 \in 1..(Len(s) - 1) /\ t[i - 1] = s[i]
    BY <1>1
  <2>. QED
    BY <1>2, <2>1 DEF Range
<1>4. \A y \in Range(t) \cup {Head(s)} : y \in Range(s)
  BY <1>1, <1>2 DEF Range
<1>5. Once(s) => Once(t)
  BY <1>1 DEF Once
<1>6. Once(s) => Head(s) \notin Range(t)
  BY <1>1, <1>2 DEF Range, Once
<1>. QED
  BY <1>1, <1>3, <1>4, <1>5, <1>6 DEF t

LEMMA LengthFacts ==
    ASSUME NEW S, NEW s \in Seq(S)
    PROVE  Len(s) \in Nat /\ (Len(s) = 0 <=> s = <<>>)
  OBVIOUS

\* Nothing comes after the only element.
LEMMA OnlyFacts ==
    ASSUME NEW S, NEW s \in Seq(S), Len(s) = 1
    PROVE  Tail(s) = <<>> /\ Head(s) = s[1]
<1>1. s # <<>>
  OBVIOUS
<1>2. Tail(s) \in Seq(S) /\ Len(Tail(s)) = 0
  BY <1>1
<1>3. \A t \in Seq(S) : Len(t) = 0 => t = <<>>
  OBVIOUS
<1>4. Tail(s) = <<>>
  BY <1>2, <1>3, Zenon
<1>5. Head(s) = s[1]
  BY <1>1
<1>. QED
  BY <1>4, <1>5, Zenon

LEMMA RangeFacts ==
    /\ Range(<<>>) = {} /\ Once(<<>>)
    /\ \A S, s : s \in Seq(S) => Range(s) \subseteq S
<1>1. \A S : \A s \in Seq(S) : Range(s) \subseteq S
  BY DEF Range
<1>. QED
  BY <1>1 DEF Range, Once

-----------------------------------------------------------------------------
(* What the sockets do.                                                    *)

\* The server closes ends that it has: nothing else changes, and who uses the
\* other ends goes on using them.
LEMMA CloseServerFacts ==
    ASSUME SockTypes, Ends, NEW C, \A c \in C : c \in Conns /\ srvEnd[c] = "open",
           CloseServerEnds(C)
    PROVE  /\ cliEnd' \in [Conns -> {"none", "open", "shut", "closed"}]
           /\ srvEnd' \in [Conns -> {"none", "open", "closed"}]
           /\ up' \in [Conns -> Seq(Pieces)]
           /\ down' \in [Conns -> Seq(Answers)]
           /\ left' = left
           /\ \A c \in Conns :
                 /\ srvEnd'[c] = "open" <=> srvEnd[c] = "open" /\ c \notin C
                 /\ InUse(c)' <=> InUse(c)
           /\ Ends'
  BY DEF SockTypes, Ends, CloseServerEnds, InUse

\* A client gives up the end c that it uses, if any, and gets the end n, if
\* any.
LEMMA ReplaceClientFacts ==
    ASSUME SockTypes, Ends, NEW c, c # NoConn => c \in Conns /\ InUse(c),
           NEW n, n # NoConn => n \in Conns /\ Free(n),
           ReplaceClientEnd(c, n)
    PROVE  /\ cliEnd' \in [Conns -> {"none", "open", "shut", "closed"}]
           /\ srvEnd' \in [Conns -> {"none", "open", "closed"}]
           /\ up' \in [Conns -> Seq(Pieces)]
           /\ down' \in [Conns -> Seq(Answers)]
           /\ left' \in [Conns -> BOOLEAN]
           /\ \A x \in Conns :
                 /\ srvEnd'[x] = "open" <=> srvEnd[x] = "open" \/ x = n
                 /\ InUse(x)' <=> x = n \/ (InUse(x) /\ x # c)
           /\ Ends'
<1>1. \A x \in Conns : x = n => x # c
  BY DEF InUse, Free
<1>2. /\ cliEnd' \in [Conns -> {"none", "open", "shut", "closed"}]
      /\ srvEnd' \in [Conns -> {"none", "open", "closed"}]
  BY DEF SockTypes, ReplaceClientEnd
<1>3. up' \in [Conns -> Seq(Pieces)] /\ down' \in [Conns -> Seq(Answers)]
  BY DEF SockTypes, ReplaceClientEnd
<1>4. left' \in [Conns -> BOOLEAN]
  BY DEF SockTypes, ReplaceClientEnd
<1>5. \A x \in Conns :
         /\ srvEnd'[x] = "open" <=> srvEnd[x] = "open" \/ x = n
         /\ InUse(x)' <=> x = n \/ (InUse(x) /\ x # c)
  BY <1>1 DEF SockTypes, Ends, ReplaceClientEnd, InUse, Free
<1>6. Ends'
  BY <1>1 DEF SockTypes, Ends, ReplaceClientEnd, InUse, Free
<1>. QED
  BY <1>2, <1>3, <1>4, <1>5, <1>6

\* A connection that is made is made of free descriptors.
LEMMA FreshIsFree == ASSUME ~Exhausted PROVE Fresh \in Conns /\ Free(Fresh)
  BY DEF Exhausted, Fresh

-----------------------------------------------------------------------------
(* The server's steps.                                                     *)

\* Steps that neither open nor close nor move an end leave every owner.
LEMMA OwnersKept ==
    ASSUME OwnInv, UNCHANGED <<cliEnd, srvEnd, backlog, jobs, job, sock>>
    PROVE  Ends' /\ OneClient' /\ OnePlace'
  BY DEF OwnInv, Ends, OneClient, OnePlace, InUse

\* A closing of the server leaves every client its socket.
LEMMA ClosingSparesClients ==
    ASSUME OwnInv, NEW C, \A c \in C : c \in Conns /\ srvEnd[c] = "open",
           CloseServerEnds(C), UNCHANGED sock
    PROVE  OneClient'
<1>1. \A c \in Conns : InUse(c)' <=> InUse(c)
  BY CloseServerFacts DEF OwnInv, TypeOK
<1>. QED
  BY <1>1 DEF OwnInv, OneClient

\* notify_one makes at most one waiting worker ready.
LEMMA NotifyFacts ==
    ASSUME PoolTypeOK, NotifyOne
    PROVE  /\ at' \in [Workers -> {"ready", "waiting", "busy", "out"}]
           /\ \A w \in Workers : \/ at'[w] = at[w]
                                 \/ at[w] = "waiting" /\ at'[w] = "ready"
  BY DEF PoolTypeOK, NotifyOne, Waiting

LEMMA ListenInv ==
    ASSUME OwnInv, UNCHANGED clientVars,
           ListenUnixsock \/ ListenInternal \/ LoopEnds \/ ListenReturns
    PROVE  OwnInv'
<1>1. ClientTypes' /\ ClientLife'
  BY DEF OwnInv, TypeOK, ClientTypes, ClientLife, clientVars
<1>2. CASE ListenUnixsock
  <2>1. SockTypes' /\ ServerTypes'
    BY <1>2 DEF ListenUnixsock, OwnInv, TypeOK, SockTypes, ServerTypes, PoolTypeOK, poolVars
  <2>2. Ends' /\ OneClient' /\ OnePlace'
    BY <1>2, OwnersKept DEF ListenUnixsock, poolVars, clientVars
  <2>3. PoolLife'
    BY <1>2 DEF ListenUnixsock, OwnInv, PoolLife, poolVars
  <2>. QED
    BY <1>1, <2>1, <2>2, <2>3 DEF OwnInv, TypeOK
<1>3. CASE ListenInternal
  <2>1. /\ jobs' = jobs /\ job' = job
    BY <1>3 DEF ListenInternal, PoolStarts, OwnInv, TypeOK, ServerTypes, PoolTypeOK, PoolLife
  <2>2. SockTypes' /\ ServerTypes'
    BY <1>3, <2>1, PoolAssumption
    DEF ListenInternal, PoolStarts, OwnInv, TypeOK, SockTypes, ServerTypes, PoolTypeOK, sockVars
  <2>3. Ends' /\ OneClient' /\ OnePlace'
    BY <1>3, <2>1, OwnersKept DEF ListenInternal, sockVars, clientVars
  <2>4. PoolLife'
    BY <1>3, <2>1 DEF ListenInternal, PoolStarts, OwnInv, PoolLife, sockVars
  <2>. QED
    BY <1>1, <2>2, <2>3, <2>4 DEF OwnInv, TypeOK
<1>4. CASE LoopEnds
  <2>1. SockTypes' /\ ServerTypes'
    BY <1>4 DEF LoopEnds, PoolShutdown, OwnInv, TypeOK, SockTypes, ServerTypes, PoolTypeOK,
                sockVars
  <2>2. Ends' /\ OneClient' /\ OnePlace'
    BY <1>4, OwnersKept DEF LoopEnds, PoolShutdown, sockVars, clientVars
  <2>3. PoolLife'
    BY <1>4 DEF LoopEnds, PoolShutdown, OwnInv, PoolLife, sockVars, TypeOK, ServerTypes,
                PoolTypeOK
  <2>. QED
    BY <1>1, <2>1, <2>2, <2>3 DEF OwnInv, TypeOK
<1>5. CASE ListenReturns
  <2>1. SockTypes' /\ ServerTypes'
    BY <1>5 DEF ListenReturns, OwnInv, TypeOK, SockTypes, ServerTypes, PoolTypeOK, sockVars,
                poolVars
  <2>2. Ends' /\ OneClient' /\ OnePlace'
    BY <1>5, OwnersKept DEF ListenReturns, sockVars, poolVars, clientVars
  <2>3. PoolLife'
    BY <1>5, WorkersAssumption DEF ListenReturns, Joined, OwnInv, PoolLife, sockVars, poolVars
  <2>. QED
    BY <1>1, <2>1, <2>2, <2>3 DEF OwnInv, TypeOK
<1>. QED
  BY <1>2, <1>3, <1>4, <1>5

\* accept: the connection moves from the backlog to the queue, or is closed.
LEMMA AcceptInv == ASSUME OwnInv, UNCHANGED clientVars, Accept PROVE OwnInv'
<1>. DEFINE c == Head(backlog)
<1>0. /\ main = "accept" /\ backlog # <<>> /\ backlog' = Tail(backlog)
      /\ UNCHANGED <<listening, serverVars, sock>>
  BY DEF Accept, clientVars
<1>1. ClientTypes' /\ ClientLife'
  BY DEF OwnInv, TypeOK, ClientTypes, ClientLife, clientVars
<1>2. /\ c \in Conns /\ backlog' \in Seq(Conns)
      /\ Range(backlog) = Range(backlog') \cup {c}
      /\ Once(backlog') /\ c \notin Range(backlog')
  BY <1>0, TailFacts DEF OwnInv, TypeOK, SockTypes, OnePlace
<1>3. /\ srvEnd[c] = "open" /\ c \notin Range(jobs)
      /\ \A w \in Workers : job[w] # c
  BY <1>2 DEF OwnInv, OnePlace
<1>4. CASE Enqueue(c) /\ UNCHANGED <<up, down, cliEnd, srvEnd, left>>
  <2>1. /\ jobs' = Append(jobs, c) /\ shutdown' = shutdown /\ job' = job
    BY <1>4 DEF Enqueue
  <2>2. /\ jobs' \in Seq(Jobs)
        /\ Range(jobs') = Range(jobs) \cup {c} /\ Once(jobs')
    BY <1>2, <1>3, <2>1, AppendFacts
    DEF OwnInv, OnePlace, TypeOK, ServerTypes, PoolTypeOK
  <2>3. /\ at' \in [Workers -> {"ready", "waiting", "busy", "out"}]
        /\ \A w \in Workers : at'[w] = at[w] \/ (at[w] = "waiting" /\ at'[w] = "ready")
    BY <1>4, NotifyFacts DEF Enqueue, OwnInv, TypeOK, ServerTypes
  <2>4. SockTypes' /\ ServerTypes'
    BY <1>0, <1>2, <1>4, <2>1, <2>2, <2>3
    DEF OwnInv, TypeOK, SockTypes, ServerTypes, PoolTypeOK, serverVars
  <2>5. Ends' /\ OneClient'
    BY <1>0, <1>4 DEF OwnInv, Ends, OneClient, InUse
  <2>6. OnePlace'
    <3>. HIDE DEF c
    <3>. QED
      BY <1>2, <1>3, <1>4, <2>1, <2>2 DEF OwnInv, OnePlace
  <2>7. PoolLife'
    BY <1>0, <2>1, <2>3 DEF OwnInv, PoolLife, serverVars
  <2>. QED
    BY <1>1, <2>4, <2>5, <2>6, <2>7 DEF OwnInv, TypeOK
<1>5. CASE CloseServerEnds({c}) /\ UNCHANGED poolVars
  <2>1. /\ cliEnd' \in [Conns -> {"none", "open", "shut", "closed"}]
        /\ srvEnd' \in [Conns -> {"none", "open", "closed"}]
        /\ up' \in [Conns -> Seq(Pieces)] /\ down' \in [Conns -> Seq(Answers)]
        /\ left' = left
        /\ \A x \in Conns : srvEnd'[x] = "open" <=> srvEnd[x] = "open" /\ x # c
        /\ Ends'
    BY <1>2, <1>3, <1>5, CloseServerFacts DEF OwnInv, TypeOK
  <2>2. SockTypes' /\ ServerTypes'
    BY <1>0, <1>2, <1>5, <2>1
    DEF OwnInv, TypeOK, SockTypes, ServerTypes, PoolTypeOK, serverVars, poolVars
  <2>3. OneClient'
    BY <1>0, <1>2, <1>3, <1>5, ClosingSparesClients
  <2>4. OnePlace'
    <3>. HIDE DEF c
    <3>. QED
      BY <1>2, <1>3, <1>5, <2>1 DEF OwnInv, OnePlace, poolVars
  <2>5. PoolLife'
    BY <1>0, <1>5 DEF OwnInv, PoolLife, serverVars, poolVars
  <2>. QED
    BY <1>1, <2>1, <2>2, <2>3, <2>4, <2>5 DEF OwnInv, TypeOK
<1>. QED
  BY <1>4, <1>5 DEF Accept

\* The end of listening: what was not accepted is closed.
LEMMA StopInv ==
    ASSUME OwnInv, UNCHANGED clientVars, AcceptFails \/ ServerStop
    PROVE  OwnInv'
<1>. DEFINE C == {backlog[i] : i \in DOMAIN backlog}
<1>1. ClientTypes' /\ ClientLife'
  BY DEF OwnInv, TypeOK, ClientTypes, ClientLife, clientVars
<1>2. /\ C = Range(backlog) /\ \A c \in C : c \in Conns /\ srvEnd[c] = "open"
  BY RangeFacts DEF OwnInv, OnePlace, TypeOK, SockTypes, Range
<1>3. /\ listening' = FALSE /\ backlog' = <<>> /\ CloseServerEnds(C)
      /\ UNCHANGED <<jobs, job, phase, count, req, reply, sock>>
  BY DEF AcceptFails, ServerStop, StopListening, PoolShutdown, poolVars, clientVars
<1>. HIDE DEF C
<1>4. /\ cliEnd' \in [Conns -> {"none", "open", "shut", "closed"}]
      /\ srvEnd' \in [Conns -> {"none", "open", "closed"}]
      /\ up' \in [Conns -> Seq(Pieces)] /\ down' \in [Conns -> Seq(Answers)]
      /\ left' = left
      /\ \A c \in Conns : srvEnd'[c] = "open" <=> srvEnd[c] = "open" /\ c \notin C
      /\ Ends'
  BY <1>2, <1>3, CloseServerFacts DEF OwnInv, TypeOK
<1>5. /\ at' \in [Workers -> {"ready", "waiting", "busy", "out"}]
      /\ \A w \in Workers : at'[w] = at[w] \/ (at[w] = "waiting" /\ at'[w] = "ready")
      /\ shutdown' \in BOOLEAN /\ svrSock' \in BOOLEAN
      /\ \/ main' = main /\ shutdown' = shutdown /\ main \in {"accept", "drain"}
         \/ main' = "drain" /\ main = "accept"
  BY DEF AcceptFails, ServerStop, PoolShutdown, OwnInv, TypeOK, ServerTypes, PoolTypeOK,
         poolVars
<1>6. SockTypes' /\ ServerTypes'
  <2>1. SockTypes'
    <3>1. listening' \in BOOLEAN
      BY <1>3
    <3>2. backlog' \in Seq(Conns)
      BY <1>3
    <3>3. left' \in [Conns -> BOOLEAN]
      BY <1>4 DEF OwnInv, TypeOK, SockTypes
    <3>. QED
      BY <1>4, <3>1, <3>2, <3>3 DEF SockTypes
  <2>2. ServerTypes'
    BY <1>3, <1>5 DEF OwnInv, TypeOK, ServerTypes, PoolTypeOK
  <2>. QED
    BY <2>1, <2>2
<1>7. OneClient'
  BY <1>2, <1>3, ClosingSparesClients
<1>8. OnePlace'
  BY <1>2, <1>3, <1>4, RangeFacts DEF OwnInv, OnePlace
<1>9. PoolLife'
  BY <1>3, <1>5 DEF OwnInv, PoolLife
<1>. QED
  BY <1>1, <1>4, <1>6, <1>7, <1>8, <1>9 DEF OwnInv, TypeOK

\* A worker takes the oldest connection of the queue.
LEMMA TakeInv ==
    ASSUME OwnInv, UNCHANGED clientVars, NEW w \in Workers, TakeConnection(w)
    PROVE  OwnInv'
<1>. DEFINE c == Head(jobs)
<1>0. /\ main \in {"accept", "drain"} /\ at[w] = "ready" /\ jobs # <<>>
      /\ job' = [job EXCEPT ![w] = c] /\ jobs' = Tail(jobs)
      /\ at' = [at EXCEPT ![w] = "busy"]
      /\ phase' = [phase EXCEPT ![w] = Onward(TRUE, KeepAliveMax)]
      /\ count' = [count EXCEPT ![w] = KeepAliveMax]
      /\ UNCHANGED <<shutdown, main, svrSock, req, reply, sockVars, sock>>
  BY DEF TakeConnection, WorkerTakes, clientVars
<1>1. ClientTypes' /\ ClientLife'
  BY DEF OwnInv, TypeOK, ClientTypes, ClientLife, clientVars
<1>2. /\ c \in Conns /\ jobs' \in Seq(Jobs)
      /\ Range(jobs) = Range(jobs') \cup {c}
      /\ Once(jobs') /\ c \notin Range(jobs')
  BY <1>0, TailFacts DEF OwnInv, TypeOK, ServerTypes, PoolTypeOK, OnePlace
<1>3. /\ c \notin Range(backlog) /\ job[w] = NoConn /\ phase[w] = "idle"
      /\ \A v \in Workers : job[v] # c
  BY <1>0, <1>2 DEF OwnInv, OnePlace, PoolLife
<1>. HIDE DEF c
<1>4. job \in [Workers -> Conns \cup {NoConn}]
  BY DEF OwnInv, TypeOK, ServerTypes, PoolTypeOK
<1>5. SockTypes'
  BY <1>0 DEF OwnInv, TypeOK, SockTypes, sockVars
<1>6. ServerTypes'
  <2>1. PoolTypeOK'
    BY <1>0, <1>2 DEF OwnInv, TypeOK, ServerTypes, PoolTypeOK
  <2>2. Onward(TRUE, KeepAliveMax) \in {"poll", "close"} /\ KeepAliveMax \in 0..KeepAliveMax
    BY KeepAliveAssumption DEF Onward
  <2>. QED
    BY <1>0, <2>1, <2>2 DEF OwnInv, TypeOK, ServerTypes
<1>7. Ends' /\ OneClient'
  BY <1>0 DEF OwnInv, Ends, OneClient, InUse, sockVars
<1>8. OnePlace'
  <2>1. \A v \in Workers : job'[v] = IF v = w THEN c ELSE job[v]
    BY <1>0, <1>4
  <2>. QED
    BY <1>0, <1>2, <1>3, <2>1 DEF OwnInv, OnePlace, sockVars
<1>9. PoolLife'
  <2>1. Onward(TRUE, KeepAliveMax) \in {"poll", "close"} /\ KeepAliveMax > 0
    BY KeepAliveAssumption DEF Onward
  <2>2. \A v \in Workers :
           /\ job'[v] = IF v = w THEN c ELSE job[v]
           /\ at'[v] = IF v = w THEN "busy" ELSE at[v]
           /\ phase'[v] = IF v = w THEN Onward(TRUE, KeepAliveMax) ELSE phase[v]
           /\ count'[v] = IF v = w THEN KeepAliveMax ELSE count[v]
    BY <1>0, <1>4 DEF OwnInv, TypeOK, ServerTypes, PoolTypeOK
  <2>. QED
    <3>1. (~listening => backlog = <<>>)'
      BY <1>0 DEF OwnInv, PoolLife, sockVars
    <3>2. ASSUME NEW v \in Workers
          PROVE  /\ at'[v] = "busy" <=> job'[v] # NoConn
                 /\ at'[v] = "busy" <=> phase'[v] # "idle"
                 /\ phase'[v] \in {"poll", "body", "answer"} => count'[v] > 0
      BY <1>2, <2>1, <2>2 DEF OwnInv, PoolLife
    <3>3. main \notin {"off", "bound"} /\ main' = main /\ shutdown' = shutdown
      BY <1>0
    <3>4. main = "accept" => ~shutdown /\ \A v \in Workers : at'[v] # "out"
      BY <2>2 DEF OwnInv, PoolLife
    <3>5. main = "drain" => \A v \in Workers : at'[v] # "out"
      BY <1>0, <2>2 DEF OwnInv, PoolLife
    <3>. QED
      BY <3>1, <3>2, <3>3, <3>4, <3>5 DEF PoolLife
<1>. QED
  BY <1>1, <1>5, <1>6, <1>7, <1>8, <1>9 DEF OwnInv, TypeOK

\* A worker closes its connection.
LEMMA CloseInv ==
    ASSUME OwnInv, UNCHANGED clientVars, NEW w \in Workers, CloseConnection(w)
    PROVE  OwnInv'
<1>. DEFINE c == job[w]
<1>0. /\ at[w] = "busy" /\ phase[w] = "close" /\ CloseServerEnds({c})
      /\ phase' = [phase EXCEPT ![w] = "idle"] /\ count' = [count EXCEPT ![w] = 0]
      /\ job' = [job EXCEPT ![w] = NoConn] /\ at' = [at EXCEPT ![w] = "ready"]
      /\ UNCHANGED <<jobs, shutdown, main, svrSock, req, reply, listening, backlog, sock>>
  BY DEF CloseConnection, WorkerDone, clientVars
<1>1. ClientTypes' /\ ClientLife'
  BY DEF OwnInv, TypeOK, ClientTypes, ClientLife, clientVars
<1>2. c \in Conns /\ srvEnd[c] = "open" /\ c \notin Range(backlog) /\ c \notin Range(jobs)
  BY <1>0 DEF OwnInv, PoolLife, OnePlace, TypeOK, ServerTypes, PoolTypeOK
<1>3. \A v \in Workers :
         /\ job'[v] = IF v = w THEN NoConn ELSE job[v]
         /\ at'[v] = IF v = w THEN "ready" ELSE at[v]
         /\ phase'[v] = IF v = w THEN "idle" ELSE phase[v]
         /\ count'[v] = IF v = w THEN 0 ELSE count[v]
  BY <1>0 DEF OwnInv, TypeOK, ServerTypes, PoolTypeOK
<1>4. /\ cliEnd' \in [Conns -> {"none", "open", "shut", "closed"}]
      /\ srvEnd' \in [Conns -> {"none", "open", "closed"}]
      /\ up' \in [Conns -> Seq(Pieces)] /\ down' \in [Conns -> Seq(Answers)]
      /\ left' = left
      /\ \A x \in Conns : srvEnd'[x] = "open" <=> srvEnd[x] = "open" /\ x # c
      /\ Ends'
  BY <1>0, <1>2, CloseServerFacts DEF OwnInv, TypeOK
<1>5. SockTypes'
  BY <1>0, <1>4 DEF OwnInv, TypeOK, SockTypes
<1>6. ServerTypes'
  BY <1>0, KeepAliveAssumption DEF OwnInv, TypeOK, ServerTypes, PoolTypeOK
<1>7. OneClient'
  BY <1>0, <1>2, ClosingSparesClients
<1>8. OnePlace'
  <2>1. \A v \in Workers : v # w => job[v] # c
    BY <1>2 DEF OwnInv, OnePlace
  <2>2. c # NoConn /\ jobs' = jobs /\ backlog' = backlog
    BY <1>0, <1>2
  <2>. HIDE DEF c
  <2>3. \A x \in Conns :
          (\E v \in Workers : job'[v] = x) <=> x # c /\ \E v \in Workers : job[v] = x
    BY <1>3, <2>1 DEF c
  <2>4. \A x \in Conns : srvEnd'[x] = "open" <=>
            x \in Range(backlog) \/ x \in Range(jobs) \/ \E v \in Workers : job'[v] = x
    <3>1. \A x \in Conns :
            srvEnd[x] = "open" <=>
                x \in Range(backlog) \/ x \in Range(jobs) \/ \E v \in Workers : job[v] = x
      BY DEF OwnInv, OnePlace
    <3>2. \A x \in Conns : srvEnd'[x] = "open" <=> srvEnd[x] = "open" /\ x # c
      BY <1>4
    <3>3. c \notin Range(backlog) /\ c \notin Range(jobs)
      BY <1>2
    <3>. QED
      BY ONLY <2>3, <3>1, <3>2, <3>3, Zenon
  <2>5. NoConn \notin Range(backlog) \cup Range(jobs)
    BY RangeFacts DEF OwnInv, TypeOK, SockTypes, ServerTypes, PoolTypeOK
  <2>. QED
    BY <1>3, <2>2, <2>4, <2>5 DEF OwnInv, OnePlace
<1>9. PoolLife'
  BY <1>0, <1>3 DEF OwnInv, PoolLife
<1>. QED
  BY <1>1, <1>4, <1>5, <1>6, <1>7, <1>8, <1>9 DEF OwnInv, TypeOK

\* What the server answers is an answer.
LEMMA ReplyFacts ==
    ASSUME NEW w, NEW r, NEW arrives
    PROVE  ReplyTo(w, r, arrives) \in [moved : BOOLEAN, close : BOOLEAN]
  BY DEF ReplyTo

\* What the server reads as a request, and what it finds behind it.
LEMMA ReadFacts ==
    ASSUME NEW s \in Seq(Pieces), s # <<>>, NEW r \in ReadAs(Head(s)), NEW rest \in Behind(s)
    PROVE  /\ r \in Requests \cup {BadRequest} /\ rest \in Seq(Pieces)
           /\ Head(s).kind = "head" => r = Head(s).request /\ rest = Tail(s)
<1>1. Head(s) \in Pieces /\ Tail(s) \in Seq(Pieces)
  OBVIOUS
<1>. QED
  BY <1>1, StraysAssumption DEF ReadAs, Behind, Pieces

\* The steps between the two: they read, count and write, and own as before.
LEMMA ServeInv ==
    ASSUME OwnInv, UNCHANGED clientVars, NEW w \in Workers,
           Idles(w) \/ KeepAliveTimeout(w) \/ ReadHead(w) \/ ReadBody(w) \/ Answer(w)
    PROVE  OwnInv'
<1>1. ClientTypes' /\ ClientLife'
  BY DEF OwnInv, TypeOK, ClientTypes, ClientLife, clientVars
<1>2. /\ UNCHANGED <<cliEnd, srvEnd, listening, backlog, jobs, job, shutdown, main, svrSock, sock>>
      /\ at' \in [Workers -> {"ready", "waiting", "busy", "out"}]
      /\ \A v \in Workers : (at'[v] = "busy") <=> (at[v] = "busy")
  BY DEF Idles, WorkerWaits, WorkerLeaves, KeepAliveTimeout, ReadHead, ReadBody, Answer,
         poolVars, sockVars, serverVars, clientVars, OwnInv, TypeOK, ServerTypes, PoolTypeOK
<1>3. Ends' /\ OneClient' /\ OnePlace'
  BY <1>2, OwnersKept
<1>. DEFINE Rest == /\ up' \in [Conns -> Seq(Pieces)] /\ down' \in [Conns -> Seq(Answers)]
                    /\ left' \in [Conns -> BOOLEAN]
                    /\ phase' \in [Workers -> {"idle", "poll", "body", "answer", "close"}]
                    /\ count' \in [Workers -> 0..KeepAliveMax]
                    /\ req' \in [Workers -> Requests \cup {BadRequest}]
                    /\ reply' \in [Workers -> [moved : BOOLEAN, close : BOOLEAN]]
                    /\ PoolLife'
<1>4. SUFFICES Rest
  <2>1. SockTypes' /\ ServerTypes'
    BY <1>2, <1>4 DEF OwnInv, TypeOK, SockTypes, ServerTypes, PoolTypeOK
  <2>. QED
    BY <1>1, <1>3, <1>4, <2>1 DEF OwnInv, TypeOK
<1>. DEFINE c == job[w]
<1>5. CASE Idles(w)
  <2>1. PoolLife'
    BY <1>2, <1>5
    DEF Idles, WorkerWaits, WorkerLeaves, serverVars, OwnInv, PoolLife, TypeOK, ServerTypes,
        PoolTypeOK
  <2>. QED
    BY <1>5, <2>1 DEF Idles, serverVars, sockVars, OwnInv, TypeOK, SockTypes, ServerTypes
\* While it serves a connection, a worker goes only from phase to phase.
<1>6. ASSUME UNCHANGED at, phase[w] # "idle", NEW p \in {"poll", "body", "answer", "close"},
             phase' = [phase EXCEPT ![w] = p],
             count' \in [Workers -> 0..KeepAliveMax],
             \A v \in Workers : v # w => count'[v] = count[v],
             p # "close" => count'[w] > 0
      PROVE  PoolLife'
  <2>1. \A v \in Workers : phase'[v] = IF v = w THEN p ELSE phase[v]
    BY <1>6 DEF OwnInv, TypeOK, ServerTypes
  <2>. QED
    BY <1>2, <1>6, <2>1 DEF OwnInv, PoolLife
<1>7. at[w] = "busy" => c \in Conns /\ phase[w] # "idle"
  BY DEF OwnInv, PoolLife, TypeOK, ServerTypes, PoolTypeOK
<1>8. CASE KeepAliveTimeout(w)
  <2>1. /\ phase' = [phase EXCEPT ![w] = "close"] /\ at[w] = "busy"
        /\ UNCHANGED <<at, count, req, reply, up, down, left>>
    BY <1>8 DEF KeepAliveTimeout, poolVars, sockVars
  <2>2. PoolLife'
    BY <1>6, <1>7, <2>1 DEF OwnInv, TypeOK, ServerTypes
  <2>. QED
    BY <2>1, <2>2 DEF OwnInv, TypeOK, SockTypes, ServerTypes
<1>9. CASE ReadHead(w)
  <2>1. /\ at[w] = "busy" /\ phase[w] = "poll" /\ up[c] # <<>>
        /\ UNCHANGED <<at, count, down>>
    BY <1>9 DEF ReadHead, poolVars
  <2>2. c \in Conns /\ up[c] \in Seq(Pieces) /\ count[w] > 0
    BY <1>7, <2>1 DEF OwnInv, PoolLife, TypeOK, SockTypes
  <2>. DEFINE awaited(r, rest) ==
                /\ up' = [up EXCEPT ![c] = rest]
                /\ req' = [req EXCEPT ![w] = r]
                /\ phase' = [phase EXCEPT ![w] = "body"]
                /\ UNCHANGED <<reply, left>>
              answered(r, rest) ==
                /\ \E dropped \in 0..Len(rest) :
                      up' = [up EXCEPT ![c] = SubSeq(rest, dropped + 1, Len(rest))]
                /\ reply' = [reply EXCEPT ![w] = ReplyTo(w, r, TRUE)]
                /\ left' = [left EXCEPT ![c] = @ \/ r.body # "none"]
                /\ phase' = [phase EXCEPT ![w] = "answer"]
                /\ UNCHANGED req
  <2>3. PICK r \in ReadAs(Head(up[c])), rest \in Behind(up[c]) :
               awaited(r, rest) \/ answered(r, rest)
    BY <1>9 DEF ReadHead
  <2>4. r \in Requests \cup {BadRequest} /\ rest \in Seq(Pieces)
    BY <2>1, <2>2, <2>3, ReadFacts
  <2>5. CASE /\ up' = [up EXCEPT ![c] = rest]
             /\ req' = [req EXCEPT ![w] = r]
             /\ phase' = [phase EXCEPT ![w] = "body"]
             /\ UNCHANGED <<reply, left>>
    <3>1. PoolLife'
      BY <1>6, <1>7, <2>1, <2>2, <2>5 DEF OwnInv, TypeOK, ServerTypes
    <3>2. up' \in [Conns -> Seq(Pieces)]
      BY <2>4, <2>5 DEF OwnInv, TypeOK, SockTypes
    <3>. QED
      BY <2>1, <2>4, <2>5, <3>1, <3>2 DEF OwnInv, TypeOK, SockTypes, ServerTypes
  <2>6. ASSUME NEW dropped \in 0..Len(rest),
               up' = [up EXCEPT ![c] = SubSeq(rest, dropped + 1, Len(rest))],
               reply' = [reply EXCEPT ![w] = ReplyTo(w, r, TRUE)],
               left' = [left EXCEPT ![c] = @ \/ r.body # "none"],
               phase' = [phase EXCEPT ![w] = "answer"],
               UNCHANGED req
        PROVE  Rest
    <3>1. PoolLife'
      BY <1>6, <1>7, <2>1, <2>2, <2>6 DEF OwnInv, TypeOK, ServerTypes
    <3>2. SubSeq(rest, dropped + 1, Len(rest)) \in Seq(Pieces)
      BY <2>4
    <3>3. up' \in [Conns -> Seq(Pieces)]
      BY <2>6, <3>2 DEF OwnInv, TypeOK, SockTypes
    <3>4. left' \in [Conns -> BOOLEAN]
      BY <2>6 DEF OwnInv, TypeOK, SockTypes
    <3>5. reply' \in [Workers -> [moved : BOOLEAN, close : BOOLEAN]]
      BY <2>6, ReplyFacts DEF OwnInv, TypeOK, ServerTypes
    <3>. QED
      BY <2>1, <2>6, <3>1, <3>3, <3>4, <3>5 DEF OwnInv, TypeOK, SockTypes, ServerTypes
  <2>. HIDE DEF Rest
  <2>. QED
    BY <2>3, <2>5, <2>6
<1>10. CASE ReadBody(w)
  <2>1. /\ at[w] = "busy" /\ phase[w] = "body"
        /\ req' = [req EXCEPT ![w] = BadRequest]
        /\ phase' = [phase EXCEPT ![w] = "answer"]
        /\ UNCHANGED <<at, count, down>>
    BY <1>10 DEF ReadBody, poolVars
  <2>2. /\ up' = up \/ (up[c] # <<>> /\ up' = [up EXCEPT ![c] = Tail(@)])
        /\ \E arrives \in BOOLEAN :
              /\ reply' = [reply EXCEPT ![w] = ReplyTo(w, req[w], arrives)]
              /\ left' = [left EXCEPT ![c] = @ \/ Result(req[w], arrives).read # "whole"]
    BY <1>10 DEF ReadBody
  <2>3. c \in Conns /\ up[c] \in Seq(Pieces) /\ count[w] > 0
    BY <1>7, <2>1 DEF OwnInv, PoolLife, TypeOK, SockTypes
  <2>4. PoolLife'
    BY <1>6, <1>7, <2>1, <2>3 DEF OwnInv, TypeOK, ServerTypes
  <2>5. up' \in [Conns -> Seq(Pieces)]
    <3>1. up[c] # <<>> => Tail(up[c]) \in Seq(Pieces)
      BY <2>3
    <3>. QED
      BY <2>2, <3>1 DEF OwnInv, TypeOK, SockTypes
  <2>6. left' \in [Conns -> BOOLEAN]
    BY <2>2 DEF OwnInv, TypeOK, SockTypes
  <2>7. reply' \in [Workers -> [moved : BOOLEAN, close : BOOLEAN]]
    BY <2>2, ReplyFacts DEF OwnInv, TypeOK, ServerTypes
  <2>. QED
    BY <2>1, <2>4, <2>5, <2>6, <2>7 DEF OwnInv, TypeOK, SockTypes, ServerTypes
<1>11. CASE Answer(w)
  <2>1. /\ at[w] = "busy" /\ phase[w] = "answer"
        /\ reply' = [reply EXCEPT ![w] = NoReply]
        /\ count' = [count EXCEPT ![w] = @ - 1]
        /\ UNCHANGED <<at, req, up, left>>
    BY <1>11 DEF Answer, poolVars
  <2>2. PICK written \in {"whole", "part", "nothing"}, returned \in BOOLEAN :
              /\ down' = IF written = "nothing" THEN down
                         ELSE [down EXCEPT ![c] = Append(@,
                                  [whole |-> written = "whole", moved |-> reply[w].moved,
                                   close |-> reply[w].close])]
              /\ phase' = [phase EXCEPT ![w] =
                              Onward(returned /\ ~reply[w].close, count[w] - 1)]
    BY <1>11 DEF Answer
  <2>. DEFINE p == Onward(returned /\ ~reply[w].close, count[w] - 1)
  <2>3. /\ p \in {"poll", "close"} /\ (p # "close" => count[w] - 1 > 0)
    BY DEF Onward
  <2>4. count[w] \in 1..KeepAliveMax /\ c \in Conns /\ phase[w] # "idle"
    BY <1>7, <2>1, KeepAliveAssumption DEF OwnInv, PoolLife, TypeOK, ServerTypes
  <2>5. /\ count' \in [Workers -> 0..KeepAliveMax] /\ count'[w] = count[w] - 1
        /\ \A v \in Workers : v # w => count'[v] = count[v]
    BY <2>1, <2>4, KeepAliveAssumption DEF OwnInv, TypeOK, ServerTypes
  <2>6. PoolLife'
    <3>1. phase' = [phase EXCEPT ![w] = p]
      BY <2>2
    <3>. HIDE DEF p
    <3>. QED
      BY <1>6, <2>1, <2>3, <2>4, <2>5, <3>1
  <2>7. down' \in [Conns -> Seq(Answers)]
    <3>1. [whole |-> written = "whole", moved |-> reply[w].moved, close |-> reply[w].close]
            \in Answers
      BY DEF Answers, OwnInv, TypeOK, ServerTypes
    <3>2. \A a \in Answers : Append(down[c], a) \in Seq(Answers)
      BY <2>4 DEF OwnInv, TypeOK, SockTypes
    <3>. QED
      BY <2>2, <3>1, <3>2 DEF OwnInv, TypeOK, SockTypes
  <2>8. /\ phase' \in [Workers -> {"idle", "poll", "body", "answer", "close"}]
        /\ reply' \in [Workers -> [moved : BOOLEAN, close : BOOLEAN]]
    BY <2>1, <2>2, <2>3 DEF NoReply, OwnInv, TypeOK, ServerTypes
  <2>. QED
    BY <2>1, <2>5, <2>6, <2>7, <2>8 DEF OwnInv, TypeOK, SockTypes, ServerTypes
<1>. QED
  BY <1>5, <1>8, <1>9, <1>10, <1>11

LEMMA ServerOwnInv == ASSUME OwnInv, ServerSide, UNCHANGED clientVars PROVE OwnInv'
  BY ListenInv, AcceptInv, StopInv, TakeInv, CloseInv, ServeInv DEF ServerSide, Worker

-----------------------------------------------------------------------------
(* The clients' steps.                                                     *)

\* Client k gives up its socket, if it has one, and goes on with n.
Swaps(k, n) ==
    /\ ReplaceClientEnd(sock[k], n)
    /\ sock' = [sock EXCEPT ![k] = n]
    /\ \/ n = NoConn /\ backlog' = backlog
       \/ n \in Conns /\ Free(n) /\ listening /\ backlog' = Append(backlog, n)
    /\ listening' = listening

LEMMA SwapFacts ==
    ASSUME OwnInv, NEW k \in Clients, NEW n, Swaps(k, n),
           UNCHANGED <<poolVars, serverVars>>
    PROVE  /\ SockTypes' /\ ServerTypes' /\ Ends' /\ OneClient' /\ OnePlace' /\ PoolLife'
           /\ sock' \in [Clients -> Conns \cup {NoConn}]
           /\ sock'[k] = n
<1>. DEFINE c == sock[k]
<1>1. /\ sock \in [Clients -> Conns \cup {NoConn}] /\ n \in Conns \cup {NoConn}
      /\ c # NoConn => c \in Conns /\ InUse(c)
      /\ n # NoConn => n \in Conns /\ Free(n)
  BY DEF OwnInv, TypeOK, ClientTypes, OneClient, Swaps
<1>2. ReplaceClientEnd(c, n) /\ sock' = [sock EXCEPT ![k] = n] /\ listening' = listening
  BY DEF Swaps
<1>3. \A l \in Clients : sock'[l] = IF l = k THEN n ELSE sock[l]
  BY <1>1, <1>2
<1>. HIDE DEF c
<1>4. /\ cliEnd' \in [Conns -> {"none", "open", "shut", "closed"}]
      /\ srvEnd' \in [Conns -> {"none", "open", "closed"}]
      /\ up' \in [Conns -> Seq(Pieces)]
      /\ down' \in [Conns -> Seq(Answers)]
      /\ left' \in [Conns -> BOOLEAN]
      /\ \A x \in Conns :
            /\ srvEnd'[x] = "open" <=> srvEnd[x] = "open" \/ x = n
            /\ InUse(x)' <=> x = n \/ (InUse(x) /\ x # c)
      /\ Ends'
  BY <1>1, <1>2, ReplaceClientFacts DEF OwnInv, TypeOK
<1>5. CASE n = NoConn
  <2>1. backlog' = backlog
    BY <1>1, <1>5 DEF Swaps
  <2>2. SockTypes' /\ ServerTypes'
    BY <1>2, <1>4, <2>1
    DEF OwnInv, TypeOK, SockTypes, ServerTypes, PoolTypeOK, poolVars, serverVars
  <2>3. OneClient'
    <3>1. \A x \in Conns : InUse(x)' <=> \E l \in Clients : sock[l] = x /\ l # k
      BY <1>1, <1>4, <1>5 DEF OwnInv, OneClient, c
    <3>. QED
      BY <1>3, <1>5, <3>1 DEF OwnInv, OneClient
  <2>4. OnePlace'
    BY <1>4, <1>5, <2>1 DEF OwnInv, OnePlace, poolVars
  <2>5. PoolLife'
    BY <1>2, <2>1 DEF OwnInv, PoolLife, poolVars, serverVars
  <2>. QED
    BY <1>1, <1>2, <1>3, <1>4, <2>2, <2>3, <2>4, <2>5
<1>6. CASE n \in Conns
  <2>1. n \in Conns /\ Free(n) /\ listening /\ backlog' = Append(backlog, n)
    BY <1>6 DEF Swaps
  <2>2. /\ ~InUse(n) /\ srvEnd[n] # "open"
        /\ n \notin Range(backlog) /\ n \notin Range(jobs)
        /\ \A w \in Workers : job[w] # n
    BY <2>1 DEF Free, InUse, OwnInv, OnePlace
  <2>3. backlog' \in Seq(Conns) /\ Range(backlog') = Range(backlog) \cup {n} /\ Once(backlog')
    BY <2>1, <2>2, AppendFacts DEF OwnInv, TypeOK, SockTypes, OnePlace
  <2>4. SockTypes' /\ ServerTypes'
    BY <1>2, <1>4, <2>3
    DEF OwnInv, TypeOK, SockTypes, ServerTypes, PoolTypeOK, poolVars, serverVars
  <2>5. OneClient'
    <3>1. \A x \in Conns \ {n} : InUse(x)' <=> \E l \in Clients : sock[l] = x /\ l # k
      BY <1>1, <1>4 DEF OwnInv, OneClient, c
    <3>2. \A l \in Clients : sock[l] # n
      BY <1>6, <2>2 DEF OwnInv, OneClient
    <3>3. \A x \in Conns \ {n} : InUse(x)' <=> \E l \in Clients : sock'[l] = x
      BY <1>3, <3>1
    <3>4. InUse(n)' /\ sock'[k] = n
      BY <1>3, <1>4, <2>1
    <3>. QED
      BY <1>3, <3>2, <3>3, <3>4 DEF OwnInv, OneClient
  <2>6. OnePlace'
    BY <1>4, <2>1, <2>2, <2>3 DEF OwnInv, OnePlace, poolVars
  <2>7. PoolLife'
    BY <1>2, <2>1 DEF OwnInv, PoolLife, poolVars, serverVars
  <2>. QED
    BY <1>1, <1>2, <1>3, <1>4, <2>4, <2>5, <2>6, <2>7
<1>. QED
  BY <1>1, <1>5, <1>6

\* The prologue of send_ keeps the connection or swaps it for a new one; when
\* it cannot make one it is left without.
LEMMA BeginCases ==
    ASSUME NEW k \in Clients, NEW r
    PROVE  /\ Begin(k, r) => \/ UNCHANGED <<sock, sockVars>> /\ sock[k] # NoConn
                             \/ \E n \in Conns : Swaps(k, n)
           /\ BeginFails(k) => Swaps(k, NoConn)
<1>1. ASSUME Begin(k, r), ~Lives(k) PROVE \E n \in Conns : Swaps(k, n)
  BY <1>1, FreshIsFree DEF Begin, Swaps
<1>2. ASSUME BeginFails(k) PROVE Swaps(k, NoConn)
  BY <1>2 DEF BeginFails, Swaps, CloseClientEnd
<1>3. ASSUME Begin(k, r), Lives(k) PROVE UNCHANGED <<sock, sockVars>> /\ sock[k] # NoConn
  BY <1>3 DEF Begin, Lives
<1>. QED
  BY <1>1, <1>2, <1>3

\* A step of k that opens, closes and moves no end, or swaps k's, keeps what
\* is owned.
LEMMA ClientOwners ==
    ASSUME OwnInv, NEW k \in Clients, UNCHANGED <<poolVars, serverVars>>,
           \/ /\ UNCHANGED <<sock, cliEnd, srvEnd, listening, backlog>>
              /\ up' \in [Conns -> Seq(Pieces)] /\ down' \in [Conns -> Seq(Answers)]
              /\ left' \in [Conns -> BOOLEAN]
           \/ \E n \in Conns \cup {NoConn} : Swaps(k, n)
    PROVE  /\ SockTypes' /\ ServerTypes' /\ Ends' /\ OneClient' /\ OnePlace' /\ PoolLife'
           /\ sock' \in [Clients -> Conns \cup {NoConn}]
<1>1. CASE \E n \in Conns \cup {NoConn} : Swaps(k, n)
  BY <1>1, SwapFacts
<1>2. CASE /\ UNCHANGED <<sock, cliEnd, srvEnd, listening, backlog>>
           /\ up' \in [Conns -> Seq(Pieces)] /\ down' \in [Conns -> Seq(Answers)]
           /\ left' \in [Conns -> BOOLEAN]
  <2>1. SockTypes' /\ ServerTypes'
    BY <1>2 DEF OwnInv, TypeOK, SockTypes, ServerTypes, PoolTypeOK, poolVars, serverVars
  <2>2. Ends' /\ OneClient' /\ OnePlace'
    BY <1>2, OwnersKept DEF poolVars
  <2>3. PoolLife'
    BY <1>2 DEF OwnInv, PoolLife, poolVars, serverVars
  <2>. QED
    BY <1>2, <2>1, <2>2, <2>3 DEF OwnInv, TypeOK, ClientTypes
<1>. QED
  BY <1>1, <1>2

\* What a client sends is a request.
LEMMA SentFacts ==
    ASSUME OwnInv, NEW k \in Clients, pc[k] # "idle"
    PROVE  Sent(k) \in Requests /\ Sent(k).body = request[k].body
<1>1. request[k] \in Requests /\ request[k] \in RequestRecords
  BY RequestsAssumption DEF OwnInv, ClientLife
<1>2. CASE k \in Persistent
  BY <1>1, <1>2 DEF Sent, RequestRecords
<1>3. CASE k \notin Persistent
  <2>1. Sent(k) = [request[k] EXCEPT !.close = TRUE]
    BY <1>1, <1>3 DEF Sent, RequestRecords
  <2>. QED
    BY <1>1, <2>1, RequestsAssumption DEF RequestRecords
<1>. QED
  BY <1>2, <1>3

LEMMA ClientOwnInv ==
    ASSUME OwnInv, NEW k \in Clients, UNCHANGED <<poolVars, serverVars>>,
           \/ \E r \in Sends[k] : Call(k, r)
           \/ Requester(k) \/ ReadTimeout(k) \/ ClientStop(k)
    PROVE  OwnInv'
<1>. USE RedirectsAssumption
<1>0. /\ pc[k] \in {"idle", "redirect", "head", "body", "wait", "end"}
      /\ inFlight[k] \in 0..(MaxRedirects + 1)
      /\ inFlight[k] = 0 <=> pc[k] = "idle"
      /\ request[k] \in Requests \cup {NoRequest}
      /\ pc[k] # "idle" => request[k] \in Requests
      /\ pc[k] = "redirect" => inFlight[k] <= MaxRedirects
      /\ pc[k] \in {"head", "body", "wait"} => sock[k] # NoConn
      /\ sock[k] \in Conns \cup {NoConn}
  BY DEF OwnInv, TypeOK, ClientTypes, ClientLife
<1>. DEFINE Owned == /\ SockTypes' /\ ServerTypes' /\ Ends' /\ OneClient' /\ OnePlace' /\ PoolLife'
                     /\ sock' \in [Clients -> Conns \cup {NoConn}]
\* k itself: where its thread p, its sends in flight m and its request q are.
<1>1. ASSUME Owned, \A l \in Clients : l # k => sock'[l] = sock[l],
             mustClose' \in [Clients -> BOOLEAN], ret' \in [Clients -> BOOLEAN],
             NEW p \in {"idle", "redirect", "head", "body", "wait", "end"},
             NEW m \in 0..(MaxRedirects + 1), NEW q \in Requests \cup {NoRequest},
             pc' = [pc EXCEPT ![k] = p],
             inFlight' = [inFlight EXCEPT ![k] = m],
             request' = [request EXCEPT ![k] = q],
             m = 0 <=> p = "idle",
             p # "idle" => q \in Requests,
             p = "redirect" => m <= MaxRedirects,
             p \in {"head", "body", "wait"} => sock'[k] # NoConn
      PROVE  OwnInv'
  <2>1. ClientTypes'
    BY <1>1 DEF OwnInv, TypeOK, ClientTypes
  <2>2. ClientLife'
    <3> SUFFICES ASSUME NEW l \in Clients
                 PROVE  /\ inFlight'[l] = 0 <=> pc'[l] = "idle"
                        /\ pc'[l] \in {"head", "body", "wait"} => sock'[l] # NoConn
                        /\ pc'[l] # "idle" => request'[l] \in Requests
                        /\ pc'[l] = "redirect" => inFlight'[l] <= MaxRedirects
      BY DEF ClientLife
    <3>1. CASE l = k
      BY <1>1, <3>1 DEF OwnInv, TypeOK, ClientTypes
    <3>2. CASE l # k
      BY <1>1, <3>2 DEF OwnInv, TypeOK, ClientTypes, ClientLife
    <3>. QED
      BY <3>1, <3>2
  <2>. QED
    BY <1>1, <2>1, <2>2 DEF OwnInv, TypeOK
<1>2. /\ pc = [pc EXCEPT ![k] = pc[k]] /\ inFlight = [inFlight EXCEPT ![k] = inFlight[k]]
      /\ request = [request EXCEPT ![k] = request[k]]
  BY DEF OwnInv, TypeOK, ClientTypes
<1>3. ASSUME NEW n \in Conns \cup {NoConn}, Swaps(k, n)
      PROVE  Owned /\ sock'[k] = n /\ \A l \in Clients : l # k => sock'[l] = sock[l]
  BY <1>3, SwapFacts DEF Swaps, OwnInv, TypeOK, ClientTypes
<1>4. ASSUME UNCHANGED <<sock, cliEnd, srvEnd, listening, backlog>>,
             up' \in [Conns -> Seq(Pieces)], down' \in [Conns -> Seq(Answers)],
             left' \in [Conns -> BOOLEAN]
      PROVE  Owned /\ sock' = sock
  BY <1>4, ClientOwners
<1>5. up \in [Conns -> Seq(Pieces)] /\ down \in [Conns -> Seq(Answers)] /\ left \in [Conns -> BOOLEAN]
  BY DEF OwnInv, TypeOK, SockTypes
<1>. HIDE DEF Owned
<1>6. ASSUME NEW r \in Requests, Begin(k, r), pc[k] \in {"idle", "redirect"}
      PROVE  OwnInv'
  <2>1. /\ Owned /\ sock'[k] # NoConn
        /\ \A l \in Clients : l # k => sock'[l] = sock[l]
    BY <1>3, <1>4, <1>5, <1>6, BeginCases, ConnsAssumption DEF sockVars
  <2>2. /\ mustClose' \in [Clients -> BOOLEAN] /\ ret' \in [Clients -> BOOLEAN]
        /\ pc' = [pc EXCEPT ![k] = "head"]
        /\ inFlight' = [inFlight EXCEPT ![k] = inFlight[k] + 1]
        /\ request' = [request EXCEPT ![k] = r]
    BY <1>6 DEF Begin, OwnInv, TypeOK, ClientTypes
  <2>3. inFlight[k] + 1 \in 0..(MaxRedirects + 1) /\ inFlight[k] + 1 # 0
    BY <1>0, <1>6
  <2>. QED
    BY <1>1, <2>1, <2>2, <2>3
<1>7. ASSUME BeginFails(k), pc[k] \in {"idle", "redirect"} PROVE OwnInv'
  <2>1. /\ Owned /\ \A l \in Clients : l # k => sock'[l] = sock[l]
    BY <1>3, <1>7, BeginCases
  <2>2. /\ mustClose' \in [Clients -> BOOLEAN] /\ ret' \in [Clients -> BOOLEAN]
        /\ pc' = [pc EXCEPT ![k] = IF inFlight[k] = 0 THEN "idle" ELSE "end"]
        /\ inFlight' = inFlight /\ request' = request
    BY <1>7 DEF BeginFails, OwnInv, TypeOK, ClientTypes
  <2>. QED
    BY <1>0, <1>1, <1>2, <2>1, <2>2
<1>8. CASE \E r \in Sends[k] : Call(k, r)
  BY <1>6, <1>7, <1>8, RequestsAssumption DEF Call
<1>9. CASE Follow(k)
  BY <1>0, <1>6, <1>7, <1>9 DEF Follow
<1>10. CASE WriteHead(k) \/ WriteBody(k)
  <2>1. /\ pc[k] \in {"head", "body"}
        /\ UNCHANGED <<sock, inFlight, mustClose, request, down, cliEnd, srvEnd, listening,
                       backlog, left>>
    BY <1>10 DEF WriteHead, WriteBody
  <2>2. sock[k] \in Conns /\ up[sock[k]] \in Seq(Pieces)
    BY <1>0, <1>5, <2>1
  <2>3. /\ [kind |-> "head", request |-> Sent(k)] \in Pieces
        /\ [kind |-> "body"] \in Pieces
    BY <1>0, <2>1, SentFacts DEF Pieces
  <2>4. up' = up \/ \E piece \in Pieces : up' = [up EXCEPT ![sock[k]] = Append(@, piece)]
    BY <1>10, <2>3 DEF WriteHead, WriteBody
  <2>5. up' \in [Conns -> Seq(Pieces)]
    <3>1. \A piece \in Pieces : Append(up[sock[k]], piece) \in Seq(Pieces)
      BY <2>2
    <3>. QED
      BY <1>5, <2>4, <3>1, ZenonT(30)
  <2>6. Owned /\ sock' = sock
    BY <1>4, <1>5, <2>1, <2>5
  <2>7. ret' \in [Clients -> BOOLEAN]
    BY <1>10 DEF WriteHead, WriteBody, Finish, OwnInv, TypeOK, ClientTypes
  <2>9. PICK p \in {"body", "wait", "end"} : pc' = [pc EXCEPT ![k] = p]
    BY <1>10 DEF WriteHead, WriteBody, Finish
  <2>8. mustClose' \in [Clients -> BOOLEAN]
    BY <2>1 DEF OwnInv, TypeOK, ClientTypes
  <2>. QED
    BY <1>0, <1>1, <1>2, <2>1, <2>6, <2>7, <2>8, <2>9
<1>11. CASE TakeAnswer(k)
  <2>1. /\ pc[k] = "wait" /\ down[sock[k]] # <<>>
        /\ UNCHANGED <<inFlight, mustClose, listening, backlog>>
    BY <1>11 DEF TakeAnswer
  <2>2. sock[k] \in Conns /\ down[sock[k]] \in Seq(Answers)
    BY <1>0, <1>5, <2>1
  <2>3. Owned /\ \A l \in Clients : l # k => sock'[l] = sock[l]
    <3>1. CASE Swaps(k, NoConn)
      BY <1>3, <3>1
    <3>2. CASE /\ down' = [down EXCEPT ![sock[k]] = Tail(@)]
               /\ UNCHANGED <<sock, up, cliEnd, srvEnd, left>>
      <4>1. Tail(down[sock[k]]) \in Seq(Answers)
        BY <2>1, <2>2
      <4>2. down' \in [Conns -> Seq(Answers)]
        BY <1>5, <3>2, <4>1
      <4>. QED
        BY <1>4, <1>5, <2>1, <3>2, <4>2
    <3>. QED
      BY <1>11, <2>1, <3>1, <3>2 DEF TakeAnswer, Swaps, CloseClientEnd
  <2>4. mustClose' \in [Clients -> BOOLEAN]
    BY <2>1 DEF OwnInv, TypeOK, ClientTypes
  <2>5. CASE request' = request /\ \E b \in BOOLEAN : Finish(k, b)
    <3>1. ret' \in [Clients -> BOOLEAN] /\ pc' = [pc EXCEPT ![k] = "end"]
      BY <2>5 DEF Finish, OwnInv, TypeOK, ClientTypes
    <3>. QED
      BY <1>0, <1>1, <1>2, <2>1, <2>3, <2>4, <2>5, <3>1
  <2>6. ASSUME NEW path \in Locations, inFlight[k] <= MaxRedirects,
               request' = [request EXCEPT ![k] = Redirected(@, path)],
               pc' = [pc EXCEPT ![k] = "redirect"], ret' = ret
        PROVE  OwnInv'
    <3>1. Redirected(request[k], path) \in Requests
      BY <1>0, <2>1, <2>6, RequestsAssumption
    <3>2. ret' \in [Clients -> BOOLEAN]
      BY <2>6 DEF OwnInv, TypeOK, ClientTypes
    <3>3. request' = [request EXCEPT ![k] = Redirected(request[k], path)]
      BY <2>6
    <3>. QED
      BY <1>0, <1>1, <1>2, <2>1, <2>3, <2>4, <2>6, <3>1, <3>2, <3>3
  <2>. QED
    BY <1>11, <2>5, <2>6 DEF TakeAnswer
<1>12. CASE ReadEnd(k) \/ ReadTimeout(k)
  <2>1. /\ pc[k] = "wait" /\ UNCHANGED <<sock, inFlight, mustClose, request, sockVars>>
        /\ pc' = [pc EXCEPT ![k] = "end"] /\ ret' = [ret EXCEPT ![k] = FALSE]
    BY <1>12 DEF ReadEnd, ReadTimeout, Finish
  <2>2. Owned /\ sock' = sock
    BY <1>4, <1>5, <2>1 DEF sockVars
  <2>3. mustClose' \in [Clients -> BOOLEAN] /\ ret' \in [Clients -> BOOLEAN]
    BY <2>1 DEF OwnInv, TypeOK, ClientTypes
  <2>. QED
    BY <1>0, <1>1, <1>2, <2>1, <2>2, <2>3
<1>13. CASE End(k)
  <2>1. /\ pc[k] = "end" /\ inFlight' = [inFlight EXCEPT ![k] = inFlight[k] - 1]
        /\ pc' = [pc EXCEPT ![k] = IF inFlight[k] = 1 THEN "idle" ELSE "end"]
        /\ request' = [request EXCEPT ![k] = IF inFlight[k] = 1 THEN NoRequest ELSE request[k]]
        /\ ret' = [ret EXCEPT ![k] = ret[k] /\ inFlight[k] > 1]
        /\ UNCHANGED <<mustClose, listening, backlog>>
    BY <1>13 DEF End, EndIf
  <2>2. Swaps(k, NoConn) \/ UNCHANGED <<sock, up, down, cliEnd, srvEnd, left>>
    BY <1>13 DEF End, EndIf, Swaps, CloseClientEnd
  <2>3. Owned /\ \A l \in Clients : l # k => sock'[l] = sock[l]
    BY <1>3, <1>4, <1>5, <2>1, <2>2
  <2>4. mustClose' \in [Clients -> BOOLEAN] /\ ret' \in [Clients -> BOOLEAN]
    BY <2>1 DEF OwnInv, TypeOK, ClientTypes
  <2>5. inFlight[k] # 0 /\ inFlight[k] - 1 \in 0..(MaxRedirects + 1)
    BY <1>0, <2>1
  <2>6. CASE inFlight[k] = 1
    <3>1. /\ pc' = [pc EXCEPT ![k] = "idle"] /\ inFlight' = [inFlight EXCEPT ![k] = 0]
          /\ request' = [request EXCEPT ![k] = NoRequest]
      BY <2>1, <2>6
    <3>2. 0 \in 0..(MaxRedirects + 1)
      OBVIOUS
    <3>. QED
      BY <1>1, <2>3, <2>4, <3>1, <3>2
  <2>7. CASE inFlight[k] # 1
    <3>1. inFlight[k] - 1 # 0 /\ request[k] \in Requests
      BY <1>0, <2>1, <2>5, <2>7
    <3>. QED
      BY <1>1, <2>1, <2>3, <2>4, <2>5, <2>7, <3>1
  <2>. QED
    BY <2>6, <2>7
<1>14. CASE ClientStop(k)
  <2>0. UNCHANGED <<pc, inFlight, request, ret, listening, backlog>>
    BY <1>14 DEF ClientStop
  <2>1. CASE /\ inFlight[k] > 0
             /\ cliEnd' = [c \in Conns |-> IF c = sock[k] THEN "shut" ELSE cliEnd[c]]
             /\ mustClose' = [mustClose EXCEPT ![k] = TRUE]
             /\ UNCHANGED <<sock, up, down, srvEnd, left>>
    <3>1. \A c \in Conns : /\ InUse(c)' <=> InUse(c)
                           /\ cliEnd'[c] = cliEnd[c] \/ (InUse(c) /\ cliEnd'[c] = "shut")
      BY <2>1 DEF OwnInv, OneClient, InUse
    <3>2. cliEnd' \in [Conns -> {"none", "open", "shut", "closed"}]
      BY <2>1 DEF OwnInv, TypeOK, SockTypes
    <3>3. SockTypes' /\ ServerTypes'
      BY <2>0, <2>1, <3>2
      DEF OwnInv, TypeOK, SockTypes, ServerTypes, PoolTypeOK, poolVars, serverVars
    <3>4. Ends'
      BY <2>1, <3>1 DEF OwnInv, Ends, InUse
    <3>5. OneClient'
      BY <2>1, <3>1 DEF OwnInv, OneClient
    <3>6. OnePlace' /\ PoolLife'
      BY <2>0, <2>1 DEF OwnInv, OnePlace, PoolLife, poolVars, serverVars
    <3>7. ClientTypes' /\ ClientLife'
      BY <2>0, <2>1 DEF OwnInv, TypeOK, ClientTypes, ClientLife
    <3>. QED
      BY <3>3, <3>4, <3>5, <3>6, <3>7 DEF OwnInv, TypeOK
  <2>2. CASE Swaps(k, NoConn) /\ mustClose' = mustClose /\ inFlight[k] = 0
    <3>1. Owned /\ \A l \in Clients : l # k => sock'[l] = sock[l]
      BY <1>3, <2>2
    <3>2. mustClose' \in [Clients -> BOOLEAN] /\ ret' \in [Clients -> BOOLEAN]
      BY <2>0, <2>2 DEF OwnInv, TypeOK, ClientTypes
    <3>. QED
      BY <1>0, <1>1, <1>2, <2>0, <2>2, <3>1, <3>2
  <2>. QED
    BY <1>14, <2>1, <2>2 DEF ClientStop, Swaps, CloseClientEnd
<1>. QED
  BY <1>8, <1>9, <1>10, <1>11, <1>12, <1>13, <1>14 DEF Requester

-----------------------------------------------------------------------------
(* The ownership of the sockets.                                           *)

LEMMA InitOwn == Init => OwnInv
<1> SUFFICES ASSUME Init PROVE OwnInv
  OBVIOUS
<1>. USE DEF Init, SocketsInit, ServerInit, PoolInit, ClientInit
<1>1. SockTypes
  <2>1. <<>> \in Seq(Pieces) /\ <<>> \in Seq(Answers) /\ <<>> \in Seq(Conns)
    OBVIOUS
  <2>. QED
    BY <2>1 DEF SockTypes
<1>2. ServerTypes
  <2>1. PoolTypeOK
    <3>1. jobs \in Seq(Jobs) /\ at \in [Workers -> {"ready", "waiting", "busy", "out"}]
      OBVIOUS
    <3>2. job \in [Workers -> Jobs \cup {NoJob}]
      OBVIOUS
    <3>. QED
      BY <3>1, <3>2 DEF PoolTypeOK
  <2>2. 0 \in 0..KeepAliveMax /\ NoReply \in [moved : BOOLEAN, close : BOOLEAN]
    BY KeepAliveAssumption DEF NoReply
  <2>. QED
    BY <2>1, <2>2 DEF ServerTypes
<1>3. ClientTypes
  BY RedirectsAssumption DEF ClientTypes
<1>4. Ends /\ PoolLife /\ ClientLife
  BY DEF Ends, InUse, PoolLife, ClientLife
<1>5. OneClient
  BY DEF OneClient, InUse
<1>6. OnePlace
  BY RangeFacts DEF OnePlace
<1>. QED
  BY <1>1, <1>2, <1>3, <1>4, <1>5, <1>6 DEF OwnInv, TypeOK

LEMMA NextOwn == OwnInv /\ [Next]_vars => OwnInv'
<1> SUFFICES ASSUME OwnInv, [Next]_vars PROVE OwnInv'
  OBVIOUS
<1>1. CASE ServerSide /\ UNCHANGED clientVars
  BY <1>1, ServerOwnInv
<1>2. CASE ClientSide /\ UNCHANGED <<poolVars, serverVars>>
  BY <1>2, ClientOwnInv DEF ClientSide
<1>3. CASE UNCHANGED vars
  <2>1. TypeOK' /\ Ends' /\ OneClient'
    BY <1>3 DEF vars, sockVars, poolVars, serverVars, clientVars, OwnInv, TypeOK, SockTypes,
                ServerTypes, PoolTypeOK, ClientTypes, Ends, OneClient, InUse
  <2>2. OnePlace' /\ PoolLife' /\ ClientLife'
    BY <1>3 DEF vars, sockVars, poolVars, serverVars, clientVars, OwnInv, OnePlace, PoolLife,
                ClientLife
  <2>. QED
    BY <2>1, <2>2 DEF OwnInv
<1>. QED
  BY <1>1, <1>2, <1>3 DEF Next

LEMMA OwnInvariance == Spec => []OwnInv
  BY InitOwn, NextOwn, PTL DEF Spec

\* Every variable of the sockets, the server and the clients keeps its type,
\* whatever the requests and handlers; the redirects and the keep-alive count
\* stay within their bounds.
THEOREM TypeCorrect == Spec => []TypeOK
  BY OwnInvariance, PTL DEF OwnInv

\* A set that is {} or has one element.
LEMMA OneOrNone ==
    ASSUME NEW S, \A x, y \in S : x = y
    PROVE  /\ Cardinality(S) \in {0, 1}
           /\ Cardinality(S) = 0 <=> S = {}
<1>1. CASE S = {}
  BY <1>1, FS_EmptySet
<1>2. CASE S # {}
  <2>1. PICK x : x \in S
    BY <1>2
  <2>2. S = {x}
    BY <2>1
  <2>3. Cardinality(S) = 1
    BY <2>2, FS_Singleton
  <2>. QED
    BY <1>2, <2>3
<1>. QED
  BY <1>1, <1>2

LEMMA OwnersCounted ==
    ASSUME OwnInv, NEW c \in Conns
    PROVE  Owners(c) = IF srvEnd[c] = "open" THEN 1 ELSE 0
<1>. DEFINE A == {i \in DOMAIN backlog : backlog[i] = c}
            B == {i \in DOMAIN jobs : jobs[i] = c}
            C == {w \in Workers : job[w] = c}
<1>1. /\ A # {} <=> c \in Range(backlog)
      /\ B # {} <=> c \in Range(jobs)
      /\ C # {} <=> \E w \in Workers : job[w] = c
  BY DEF Range
<1>2. /\ \A x, y \in A : x = y
      /\ \A x, y \in B : x = y
      /\ \A x, y \in C : x = y
  <2>1. DOMAIN backlog = 1..Len(backlog) /\ DOMAIN jobs = 1..Len(jobs)
    BY DEF OwnInv, TypeOK, SockTypes, ServerTypes, PoolTypeOK
  <2>. QED
    BY <2>1 DEF OwnInv, OnePlace, Once
<1>3. /\ ~(A # {} /\ B # {}) /\ ~(A # {} /\ C # {}) /\ ~(B # {} /\ C # {})
      /\ srvEnd[c] = "open" <=> A # {} \/ B # {} \/ C # {}
  BY <1>1 DEF OwnInv, OnePlace
<1>4. Owners(c) = Cardinality(A) + Cardinality(B) + Cardinality(C)
  BY DEF Owners
<1>. HIDE DEF A, B, C
<1>5. /\ Cardinality(A) = IF A = {} THEN 0 ELSE 1
      /\ Cardinality(B) = IF B = {} THEN 0 ELSE 1
      /\ Cardinality(C) = IF C = {} THEN 0 ELSE 1
  BY <1>2, OneOrNone
<1>. QED
  BY <1>3, <1>4, <1>5

\* No descriptor is lost, closed twice or closed under its user, whatever the
\* workers, clients and stops do.
THEOREM AlwaysOwned == Spec => []SocketsOwned
<1>1. OwnInv => SocketsOwned
  <2> SUFFICES ASSUME OwnInv PROVE SocketsOwned
    OBVIOUS
  <2>1. \A k \in Clients : pc[k] \in {"head", "body", "wait"} =>
           sock[k] # NoConn /\ InUse(sock[k])
    BY DEF OwnInv, ClientLife, OneClient, TypeOK, ClientTypes
  <2>2. ASSUME NEW c \in Conns, InUse(c)
        PROVE  Cardinality({k \in Clients : sock[k] = c}) = 1
    <3>. DEFINE S == {k \in Clients : sock[k] = c}
    <3>1. S # {} /\ \A k, l \in S : k = l
      BY <2>2 DEF OwnInv, OneClient
    <3>. HIDE DEF S
    <3>2. Cardinality(S) = 1
      BY <3>1, OneOrNone
    <3>. QED
      BY <3>2 DEF S
  <2>. QED
    BY <2>1, <2>2, OwnersCounted DEF SocketsOwned
<1>. QED
  BY <1>1, OwnInvariance, PTL

-----------------------------------------------------------------------------
(* What becomes of a request whose body does not come.                     *)

\* The first rule that applies, of rules the last of which always does.
LEMMA FirstRule ==
    ASSUME NEW rules, NEW n \in Nat \ {0}, DOMAIN rules = 1..n, rules[n][1]
    PROVE  \E i \in 1..n : /\ rules[i][1] /\ FirstOf(rules) = rules[i][2]
                           /\ \A j \in 1..n : j < i => ~rules[j][1]
<1>. DEFINE S == {i \in DOMAIN rules : rules[i][1]}
<1>1. \A i \in 1..n : i \in S <=> rules[i][1]
  OBVIOUS
<1>2. S \subseteq 1..n /\ S \subseteq Nat /\ S # {}
  OBVIOUS
<1>. HIDE DEF S
<1>3. \E x \in S : \A y \in S : ~(<<y, x>> \in OpToRel(<, Nat))
  BY <1>2, WFMin, NatLessThanWellFounded
<1>4. PICK x \in 1..n : x \in S /\ \A y \in 1..n : y \in S => x =< y
  <2>1. PICK x \in S : \A y \in S : ~(<<y, x>> \in OpToRel(<, Nat))
    BY <1>3
  <2>2. \A y \in 1..n : y \in S => ~(y < x)
    BY <1>2, <2>1 DEF OpToRel
  <2>3. x \in 1..n
    BY <1>2, <2>1
  <2>4. \A y \in 1..n : y \in S => x =< y
    BY <2>2, <2>3
  <2>. QED
    BY <2>1, <2>3, <2>4
<1>5. Min(S) \in S /\ \A y \in S : Min(S) =< y
  BY <1>2, <1>4 DEF Min
<1>6. Min(S) \in 1..n /\ \A y \in 1..n : y \in S => Min(S) =< y
  BY <1>2, <1>5
<1>7. FirstOf(rules) = rules[Min(S)][2]
  BY DEF FirstOf, S
<1>8. \A j \in 1..n : j < Min(S) => j \notin S
  BY <1>6
<1>. QED
  BY <1>1, <1>5, <1>6, <1>7, <1>8

\* read_content never takes all of a body that does not come.
LEMMA ContentUnread ==
    ASSUME NEW r, r.body # "none"
    PROVE  ReadContent(r, FALSE).read # "whole"
<1>. DEFINE rules == <<
      <<r.type = "unbounded", Content(400, "none")>>,
      <<r.method = "DELETE" /\ r.body # "length", Content(200, Untouched(r))>>,
      <<r.type = "encoded", Content(415, "none")>>,
      <<r.body = "none", Content(200, "whole")>>,
      <<r.body = "length" /\ r.size = "tooLong",
           Content(413, IF FALSE THEN "whole" ELSE "part")>>,
      <<~FALSE, Content(400, "part")>>,
      <<r.type = "malformed", Content(400, "part")>>,
      <<TRUE, Content(200, "whole")>> >>
<1>1. DOMAIN rules = 1..8 /\ rules[8][1]
  OBVIOUS
<1>2. PICK i \in 1..8 : /\ rules[i][1] /\ FirstOf(rules) = rules[i][2]
                        /\ \A j \in 1..8 : j < i => ~rules[j][1]
  <2>. HIDE DEF rules
  <2>1. 8 \in Nat \ {0}
    OBVIOUS
  <2>. QED
    BY <1>1, <2>1, FirstRule, Zenon
<1>3. i =< 6 /\ i # 4
  <2>1. rules[6][1] /\ ~rules[4][1]
    OBVIOUS
  <2>. HIDE DEF rules
  <2>. QED
    BY <1>2, <2>1
<1>4. rules[i][2].read # "whole"
  BY <1>3 DEF Content, Untouched
<1>. QED
  BY <1>2, <1>4 DEF ReadContent

LEMMA RoutingUnread ==
    ASSUME NEW handlers, NEW files, NEW r, r.body # "none"
    PROVE  Routing(handlers, files, r, FALSE).read # "whole"
<1>. DEFINE content == ReadContent(r, FALSE)
            given   == ReadForHandler(r, FALSE)
            eager   == Dispatch(handlers, r, TRUE)
            plain   == Dispatch(handlers, r, FALSE)
            read    == IF ExpectContent(r) THEN given.read ELSE Untouched(r)
            rules   == <<
          <<r.method \in {"GET", "HEAD"} /\ r.path \in files,
               Handled("answers", 200, Untouched(r))>>,
          <<ExpectContent(r) /\ eager \in {"ignores", "throws"},
               Handled(eager, 200, Untouched(r))>>,
          <<ExpectContent(r) /\ eager = "answers",
               Handled(eager, content.status, content.read)>>,
          <<ExpectContent(r) /\ given.status # 200,
               Outcome(given.status, given.read, FALSE)>>,
          <<r.method \in {"CONNECT", "TRACE", "PRI"}, Outcome(400, read, FALSE)>>,
          <<plain = "nothing", Outcome(404, read, FALSE)>>,
          <<TRUE, Handled(plain, 200, read)>> >>
<1>1. content.read # "whole" /\ given.read # "whole" /\ Untouched(r) # "whole"
  <2>1. content.read # "whole"
    BY ContentUnread
  <2>2. content # Content(200, "whole")
    <3>1. Content(200, "whole").read = "whole"
      BY DEF Content
    <3>. HIDE DEF content
    <3>. QED
      BY <2>1, <3>1
  <2>3. given = content
    BY <2>2 DEF ReadForHandler
  <2>4. Untouched(r) # "whole"
    BY DEF Untouched
  <2>. HIDE DEF content, given
  <2>. QED
    BY <2>1, <2>3, <2>4
<1>2. read # "whole"
  BY <1>1
<1>. HIDE DEF content, given, eager, plain, read
<1>3. DOMAIN rules = 1..7 /\ rules[7][1]
  OBVIOUS
<1>4. \A i \in 1..7 : rules[i][2].read # "whole"
  <2>1. /\ rules[1][2].read # "whole" /\ rules[2][2].read # "whole"
        /\ rules[3][2].read # "whole" /\ rules[4][2].read # "whole"
    BY <1>1, <1>2 DEF Outcome, Handled
  <2>2. /\ rules[5][2].read # "whole" /\ rules[6][2].read # "whole"
        /\ rules[7][2].read # "whole"
    BY <1>1, <1>2 DEF Outcome, Handled
  <2>. HIDE DEF rules
  <2>. QED
    BY <2>1, <2>2
<1>5. PICK i \in 1..7 : FirstOf(rules) = rules[i][2]
  <2>. HIDE DEF rules
  <2>1. 7 \in Nat \ {0}
    OBVIOUS
  <2>. QED
    BY <1>3, <2>1, FirstRule, Zenon
<1>6. FirstOf(rules).read # "whole"
  <2>. HIDE DEF rules
  <2>. QED
    BY <1>4, <1>5
<1>. QED
  BY <1>6 DEF Routing, content, given, eager, plain, read

\* A request whose body does not come leaves the body unread.
LEMMA BodyUnread ==
    ASSUME NEW r \in Requests, r.body # "none"
    PROVE  Result(r, FALSE).read # "whole"
<1>. DEFINE routed == Routing(Handlers, {}, r, FALSE)
            rules  == <<
          <<r.line = "long", Outcome(414, Untouched(r), FALSE)>>,
          <<r.line = "bad", Outcome(400, "none", FALSE)>>,
          <<r.range = "bad", Outcome(416, Untouched(r), FALSE)>>,
          <<r.expect /\ 100 \notin {100, 417}, Outcome(100, Untouched(r), FALSE)>>,
          <<routed.ran /\ routed.status = 200 /\ r.range = "beyond",
               [routed EXCEPT !.status = 416]>>,
          <<routed.ran /\ routed.status = 200 /\ r.range = "within",
               [routed EXCEPT !.status = 206]>>,
          <<TRUE, routed>> >>
<1>1. routed.read # "whole" /\ Untouched(r) # "whole"
  BY RoutingUnread DEF Untouched
<1>. HIDE DEF routed
<1>2. \A n : [routed EXCEPT !.status = n].read # "whole"
  BY <1>1
<1>3. DOMAIN rules = 1..7 /\ rules[7][1]
  OBVIOUS
<1>4. \A i \in 1..7 : rules[i][2].read # "whole"
  <2>1. /\ rules[1][2].read # "whole" /\ rules[2][2].read # "whole"
        /\ rules[3][2].read # "whole" /\ rules[4][2].read # "whole"
    BY <1>1, <1>2 DEF Outcome, Handled
  <2>2. /\ rules[5][2].read # "whole" /\ rules[6][2].read # "whole"
        /\ rules[7][2].read # "whole"
    BY <1>1, <1>2, ZenonT(30) DEF Outcome, Handled
  <2>. HIDE DEF rules
  <2>. QED
    BY <2>1, <2>2
<1>5. PICK i \in 1..7 : FirstOf(rules) = rules[i][2]
  <2>. HIDE DEF rules
  <2>1. 7 \in Nat \ {0}
    OBVIOUS
  <2>. QED
    BY <1>3, <2>1, FirstRule, Zenon
<1>6. FirstOf(rules).read # "whole"
  <2>. HIDE DEF rules
  <2>. QED
    BY <1>4, <1>5
<1>7. ProcessRequest(Handlers, {}, 100, r, FALSE).read # "whole"
  BY <1>6 DEF ProcessRequest, routed
<1>8. Outcomes[r][FALSE] = ProcessRequest(Handlers, {}, 100, r, FALSE)
  BY DEF Outcomes
<1>. QED
  BY <1>7, <1>8 DEF Result

-----------------------------------------------------------------------------
(* The exchange on a connection, step by step of the server.               *)

\* Of a connection that a worker has, the worker's phase tells everything.
LEMMA ServedBy ==
    ASSUME OwnInv, NEW w \in Workers, NEW c \in Conns, job[w] = c, NEW ph
    PROVE  Serving(c, ph) <=> phase[w] = ph
  BY DEF Serving, OwnInv, OnePlace

\* Nobody serves a connection whose server's end is closed, queued or waiting.
LEMMA Unserved ==
    ASSUME OwnInv, NEW c \in Conns,
           srvEnd[c] # "open" \/ c \in Range(jobs) \/ c \in Range(backlog)
    PROVE  \A w \in Workers : job[w] # c
  BY DEF OwnInv, OnePlace

\* What does not touch the connection of k leaves k in its stage.
LEMMA StageKept ==
    ASSUME NEW k \in Clients, NEW c \in Conns, Stage(k, c),
           pc'[k] = pc[k], ret'[k] = ret[k],
           up'[c] = up[c], down'[c] = down[c],
           srvEnd[c] # "open" => srvEnd'[c] # "open",
           Serving(c, "body")' <=> Serving(c, "body"),
           Serving(c, "answer")' <=> Serving(c, "answer")
    PROVE  Stage(k, c)'
<1>1. Quiet(c)' <=> Quiet(c)
  BY DEF Quiet, Idle
<1>2. HeadSent(c) => HeadSent(c)'
  BY <1>1 DEF HeadSent, Idle
<1>3. Asked(c) <=> Asked(c)'
  BY DEF Asked, Idle
<1>. QED
  BY <1>1, <1>2, <1>3 DEF Stage

\* The same of all clients: a step of the server that touches at most the
\* connection c.
LEMMA ExchangeKept ==
    ASSUME OwnInv, Exchange, UNCHANGED clientVars, NEW c,
           \A x \in Conns \ {c} :
               /\ up'[x] = up[x] /\ down'[x] = down[x] /\ left'[x] = left[x]
               /\ srvEnd'[x] = srvEnd[x]
               /\ Serving(x, "body")' <=> Serving(x, "body")
               /\ Serving(x, "answer")' <=> Serving(x, "answer"),
           \A k \in Clients : c \in Conns /\ sock[k] = c /\ Stage(k, c) =>
               left'[c] \/ Stage(k, c)',
           c \in Conns /\ left[c] => left'[c]
    PROVE  Exchange'
<1> SUFFICES ASSUME NEW k \in Clients, NEW x \in Conns, sock'[k] = x, ~left'[x]
             PROVE  Stage(k, x)'
  BY DEF Exchange
<1>1. sock[k] = x /\ pc'[k] = pc[k] /\ ret'[k] = ret[k]
  BY DEF clientVars
<1>2. CASE x = c
  BY <1>1, <1>2 DEF Exchange
<1>3. CASE x # c
  <2>1. Stage(k, x)
    BY <1>1, <1>3 DEF Exchange
  <2>. QED
    BY <1>1, <1>3, <2>1, StageKept
<1>. QED
  BY <1>2, <1>3

\* Steps that move no request and no answer.
LEMMA NothingMoves ==
    ASSUME OwnInv, StepInv, UNCHANGED <<clientVars, up, down, left, cliEnd, srvEnd, req>>,
           \A c \in Conns : /\ Serving(c, "body")' <=> Serving(c, "body")
                            /\ Serving(c, "answer")' <=> Serving(c, "answer"),
           \A w \in Workers : phase'[w] = "body" => phase[w] = "body"
    PROVE  StepInv'
<1>1. Streams' /\ Bodies'
  BY DEF StepInv, Streams, Bodies
<1>2. Exchange'
  BY ExchangeKept DEF StepInv
<1>. QED
  BY <1>1, <1>2 DEF StepInv

\* The server closes connections that nobody serves, or that are served to
\* their end.
LEMMA ClosingMoves ==
    ASSUME OwnInv, StepInv, UNCHANGED <<clientVars, req>>,
           NEW C, \A c \in C : c \in Conns /\ srvEnd[c] = "open" /\ Idle(c),
           CloseServerEnds(C),
           \A c \in Conns : /\ Serving(c, "body")' <=> Serving(c, "body")
                            /\ Serving(c, "answer")' <=> Serving(c, "answer"),
           \A w \in Workers : phase'[w] = "body" => phase[w] = "body"
    PROVE  StepInv'
<1>1. \A c \in Conns :
         /\ c \in C => /\ up'[c] = <<>> /\ down'[c] \in {<<>>, down[c]}
                       /\ srvEnd'[c] # "open"
         /\ c \notin C => up'[c] = up[c] /\ down'[c] = down[c] /\ srvEnd'[c] = srvEnd[c]
         /\ left'[c] = left[c]
  BY DEF CloseServerEnds
<1>2. Streams'
  BY DEF StepInv, Streams, CloseServerEnds, OwnInv, Ends
<1>3. Bodies'
  BY DEF StepInv, Bodies
<1>4. Exchange'
  <2> SUFFICES ASSUME NEW k \in Clients, NEW c \in Conns, sock'[k] = c, ~left'[c]
               PROVE  Stage(k, c)'
    BY DEF Exchange
  <2>1. Stage(k, c) /\ pc'[k] = pc[k] /\ ret'[k] = ret[k]
    BY <1>1 DEF clientVars, StepInv, Exchange
  <2>2. CASE c \in C
    <3>1. Idle(c) /\ Idle(c)'
      BY <2>2 DEF Idle
    <3>2. up'[c] = <<>> /\ down'[c] \in {<<>>, down[c]} /\ srvEnd'[c] # "open"
      BY <1>1, <2>2
    <3>3. Quiet(c) => Quiet(c)'
      BY <3>1, <3>2 DEF Quiet
    <3>4. HeadSent(c) => HeadSent(c)'
      BY <3>1, <3>2 DEF HeadSent, Quiet, Idle
    <3>5. Asked(c) => Asked(c)'
      <4>1. Len(<<>>) = 0 /\ Len(<<>>) <= 1
        OBVIOUS
      <4>2. Asked(c) => down[c] = <<>> \/ Len(down[c]) <= 1
        BY <3>1 DEF Asked, Idle
      <4>3. Asked(c) => Len(down'[c]) <= 1
        BY <3>2, <4>1, <4>2
      <4>. QED
        BY <3>1, <3>2, <4>3 DEF Asked
    <3>. QED
      BY <2>1, <3>3, <3>4, <3>5 DEF Stage
  <2>3. CASE c \notin C
    BY <1>1, <2>1, <2>3, StageKept
  <2>. QED
    BY <2>2, <2>3
<1>. QED
  BY <1>2, <1>3, <1>4 DEF StepInv

LEMMA ListenMoves ==
    ASSUME OwnInv, StepInv, UNCHANGED clientVars,
           ListenUnixsock \/ ListenInternal \/ LoopEnds \/ ListenReturns
    PROVE  StepInv'
<1>1. /\ UNCHANGED <<up, down, left, cliEnd, srvEnd, req, phase>>
      /\ job' = job
  <2>1. CASE ListenInternal
    BY <2>1 DEF ListenInternal, PoolStarts, sockVars, OwnInv, PoolLife, TypeOK, ServerTypes,
                PoolTypeOK
  <2>. QED
    BY <2>1 DEF ListenUnixsock, LoopEnds, ListenReturns, PoolShutdown, poolVars, sockVars
<1>. QED
  BY <1>1, NothingMoves DEF Serving

LEMMA AcceptMoves ==
    ASSUME OwnInv, StepInv, UNCHANGED clientVars, Accept PROVE StepInv'
<1>. DEFINE c == Head(backlog)
<1>1. UNCHANGED <<job, phase, req>> /\ backlog # <<>>
  BY DEF Accept, Enqueue, poolVars, serverVars
<1>2. c \in Conns /\ c \in Range(backlog)
  BY <1>1, TailFacts DEF OwnInv, TypeOK, SockTypes
<1>3. srvEnd[c] = "open" /\ Idle(c)
  BY <1>2, Unserved DEF Idle, Serving, OwnInv, OnePlace
<1>4. \A x \in Conns : /\ Serving(x, "body")' <=> Serving(x, "body")
                       /\ Serving(x, "answer")' <=> Serving(x, "answer")
  BY <1>1 DEF Serving
<1>5. CASE UNCHANGED <<up, down, cliEnd, srvEnd, left>>
  BY <1>1, <1>4, <1>5, NothingMoves
<1>6. CASE CloseServerEnds({c})
  BY <1>1, <1>2, <1>3, <1>4, <1>6, ClosingMoves
<1>. QED
  BY <1>5, <1>6 DEF Accept

LEMMA StopMoves ==
    ASSUME OwnInv, StepInv, UNCHANGED clientVars, AcceptFails \/ ServerStop
    PROVE  StepInv'
<1>. DEFINE C == {backlog[i] : i \in DOMAIN backlog}
<1>1. UNCHANGED <<job, phase, req>> /\ CloseServerEnds(C)
  BY DEF AcceptFails, ServerStop, StopListening, PoolShutdown, poolVars
<1>2. \A c \in C : c \in Conns /\ c \in Range(backlog)
  BY DEF OwnInv, TypeOK, SockTypes, Range
<1>. HIDE DEF C
<1>3. \A c \in C : c \in Conns /\ srvEnd[c] = "open" /\ Idle(c)
  BY <1>2, Unserved DEF Idle, Serving, OwnInv, OnePlace
<1>4. \A x \in Conns : /\ Serving(x, "body")' <=> Serving(x, "body")
                       /\ Serving(x, "answer")' <=> Serving(x, "answer")
  BY <1>1 DEF Serving
<1>. QED
  BY <1>1, <1>3, <1>4, ClosingMoves

\* A worker that takes, gives up or closes a connection.
LEMMA TurnMoves ==
    ASSUME OwnInv, StepInv, UNCHANGED clientVars, NEW w \in Workers,
           TakeConnection(w) \/ Idles(w) \/ KeepAliveTimeout(w) \/ CloseConnection(w)
    PROVE  StepInv'
<1>1. CASE Idles(w)
  <2>1. UNCHANGED <<up, down, left, cliEnd, srvEnd, req, phase, job>>
    BY <1>1 DEF Idles, WorkerWaits, WorkerLeaves, serverVars, sockVars
  <2>. QED
    BY <2>1, NothingMoves DEF Serving
<1>2. CASE KeepAliveTimeout(w)
  <2>1. /\ UNCHANGED <<up, down, left, cliEnd, srvEnd, req, job>>
        /\ phase[w] = "poll" /\ phase' = [phase EXCEPT ![w] = "close"]
    BY <1>2 DEF KeepAliveTimeout, poolVars, sockVars
  <2>2. \A v \in Workers, ph \in {"body", "answer"} : phase'[v] = ph <=> phase[v] = ph
    BY <2>1 DEF OwnInv, TypeOK, ServerTypes
  <2>. QED
    BY <2>1, <2>2, NothingMoves DEF Serving
<1>3. CASE TakeConnection(w)
  <2>1. /\ UNCHANGED <<up, down, left, cliEnd, srvEnd, req>>
        /\ at[w] = "ready" /\ job' = [job EXCEPT ![w] = Head(jobs)] /\ jobs # <<>>
        /\ phase' = [phase EXCEPT ![w] = Onward(TRUE, KeepAliveMax)]
    BY <1>3 DEF TakeConnection, WorkerTakes, sockVars
  <2>2. /\ phase[w] = "idle" /\ Onward(TRUE, KeepAliveMax) \in {"poll", "close"}
        /\ job[w] = NoConn
    BY <2>1 DEF OwnInv, PoolLife, Onward
  <2>3. \A v \in Workers : /\ v # w => phase'[v] = phase[v] /\ job'[v] = job[v]
                           /\ phase'[w] \in {"poll", "close"}
    BY <2>1, <2>2 DEF OwnInv, TypeOK, ServerTypes, PoolTypeOK
  <2>4. \A c \in Conns : /\ Serving(c, "body")' <=> Serving(c, "body")
                         /\ Serving(c, "answer")' <=> Serving(c, "answer")
    BY <2>2, <2>3 DEF Serving
  <2>. QED
    BY <2>1, <2>3, <2>4, NothingMoves
<1>4. CASE CloseConnection(w)
  <2>1. /\ at[w] = "busy" /\ phase[w] = "close" /\ CloseServerEnds({job[w]})
        /\ phase' = [phase EXCEPT ![w] = "idle"] /\ job' = [job EXCEPT ![w] = NoConn]
        /\ req' = req
    BY <1>4 DEF CloseConnection, WorkerDone
  <2>2. job[w] \in Conns /\ srvEnd[job[w]] = "open"
    BY <2>1 DEF OwnInv, PoolLife, OnePlace, TypeOK, ServerTypes, PoolTypeOK
  <2>3. Idle(job[w])
    BY <2>1, <2>2, ServedBy DEF Idle
  <2>4. \A v \in Workers : /\ v # w => phase'[v] = phase[v] /\ job'[v] = job[v]
                           /\ phase'[w] = "idle" /\ phase[w] = "close"
    BY <2>1 DEF OwnInv, TypeOK, ServerTypes, PoolTypeOK
  <2>5. \A c \in Conns : /\ Serving(c, "body")' <=> Serving(c, "body")
                         /\ Serving(c, "answer")' <=> Serving(c, "answer")
    BY <2>4 DEF Serving
  <2>. QED
    BY <2>1, <2>2, <2>3, <2>4, <2>5, ClosingMoves
<1>. QED
  BY <1>1, <1>2, <1>3, <1>4

\* A busy worker has an open connection.
LEMMA BusyServes ==
    ASSUME OwnInv, NEW w \in Workers, at[w] = "busy"
    PROVE  job[w] \in Conns /\ srvEnd[job[w]] = "open"
  BY DEF OwnInv, PoolLife, OnePlace, TypeOK, ServerTypes, PoolTypeOK

\* A worker's step from one phase to the next is all that is served
\* otherwise than before.
LEMMA PhaseMoves ==
    ASSUME OwnInv, NEW w \in Workers, NEW c \in Conns, job[w] = c, job' = job,
           NEW p, phase' = [phase EXCEPT ![w] = p]
    PROVE  /\ phase'[w] = p
           /\ \A ph : /\ Serving(c, ph) <=> phase[w] = ph
                      /\ Serving(c, ph)' <=> p = ph
                      /\ \A x \in Conns \ {c} : Serving(x, ph)' <=> Serving(x, ph)
<1>1. \A v \in Workers : phase'[v] = IF v = w THEN p ELSE phase[v]
  BY DEF OwnInv, TypeOK, ServerTypes
<1>2. \A v \in Workers : job[v] = c => v = w
  BY DEF OwnInv, OnePlace
<1>. QED
  BY <1>1, <1>2 DEF Serving

\* The head of a request is read: then the worker waits for the body, or it
\* has its answer and what it leaves unread is known.
LEMMA ReadHeadMoves ==
    ASSUME OwnInv, StepInv, UNCHANGED clientVars, NEW w \in Workers, ReadHead(w),
           NEW c \in Conns, job[w] = c
    PROVE  StepInv'
<1>. DEFINE awaits(r, rest) ==
              /\ NeedsBody(r) /\ up' = [up EXCEPT ![c] = rest]
              /\ req' = [req EXCEPT ![w] = r] /\ phase' = [phase EXCEPT ![w] = "body"]
              /\ left' = left
            answers(r, rest) ==
              /\ ~NeedsBody(r)
              /\ \E dropped \in 0..Len(rest) :
                    /\ dropped > 0 => r.body # "none"
                    /\ up' = [up EXCEPT ![c] = SubSeq(rest, dropped + 1, Len(rest))]
              /\ left' = [left EXCEPT ![c] = @ \/ r.body # "none"]
              /\ phase' = [phase EXCEPT ![w] = "answer"] /\ req' = req
<1>0. PICK r \in ReadAs(Head(up[c])), rest \in Behind(up[c]) :
             awaits(r, rest) \/ answers(r, rest)
  BY DEF ReadHead
<1>. DEFINE bodyAwaited == awaits(r, rest)
            answered == answers(r, rest)
<1>1. /\ at[w] = "busy" /\ phase[w] = "poll" /\ up[c] # <<>> /\ job' = job
      /\ UNCHANGED <<down, cliEnd, srvEnd>>
      /\ bodyAwaited \/ answered
  BY <1>0 DEF ReadHead, poolVars
<1>2. PICK p \in {"body", "answer"} : phase' = [phase EXCEPT ![w] = p]
  BY <1>1
<1>3. /\ srvEnd[c] = "open" /\ phase'[w] = p
      /\ \A ph : /\ Serving(c, ph) <=> ph = "poll"
                 /\ Serving(c, ph)' <=> p = ph
                 /\ \A x \in Conns \ {c} : Serving(x, ph)' <=> Serving(x, ph)
  BY <1>1, <1>2, BusyServes, PhaseMoves
<1>4. /\ up[c] \in Seq(Pieces) /\ Head(up[c]) = up[c][1] /\ up[c][1] \in Pieces
      /\ r \in Requests \cup {BadRequest} /\ rest \in Seq(Pieces)
      /\ up[c][1].kind = "head" => r = up[c][1].request /\ rest = Tail(up[c])
  <2>1. up[c] \in Seq(Pieces) /\ Head(up[c]) = up[c][1] /\ up[c][1] \in Pieces
    BY <1>1, <1>3 DEF OwnInv, TypeOK, SockTypes
  <2>. HIDE DEF bodyAwaited, answered
  <2>. QED
    BY <1>1, <2>1, ReadFacts
<1>5. \A x \in Conns \ {c} : up'[x] = up[x] /\ left'[x] = left[x]
  <2>1. \E q : up' = [up EXCEPT ![c] = q]
    <3>1. CASE bodyAwaited
      BY <3>1
    <3>2. CASE answered
      BY <3>2
    <3>. QED
      BY <1>1, <3>1, <3>2
  <2>2. \E b : left' = [left EXCEPT ![c] = b]
    BY <1>1, <1>3 DEF OwnInv, TypeOK, SockTypes
  <2>. HIDE DEF bodyAwaited, answered
  <2>. QED
    BY <2>1, <2>2 DEF OwnInv, TypeOK, SockTypes
<1>6. Streams'
  BY <1>1, <1>3, <1>5 DEF StepInv, Streams
<1>7. Bodies'
  <2>1. bodyAwaited => r \in Requests /\ r.body # "none"
    BY <1>4 DEF NeedsBody, BadRequest, Pieces
  <2>2. \A v \in Workers : /\ v # w => phase'[v] = phase[v] /\ req'[v] = req[v]
                           /\ bodyAwaited => req'[w] = r
                           /\ answered => phase'[w] = "answer"
    BY <1>1 DEF OwnInv, TypeOK, ServerTypes
  <2>. HIDE DEF bodyAwaited, answered
  <2>. QED
    BY <1>1, <2>1, <2>2 DEF StepInv, Bodies
<1>8. left[c] => left'[c]
  BY <1>1, <1>3 DEF OwnInv, TypeOK, SockTypes
<1>9. answered => left'[c] \/ r.body = "none"
  BY <1>3 DEF OwnInv, TypeOK, SockTypes
<1>10. HeadSent(c) => left'[c] \/ HeadSent(c)'
  <2> SUFFICES ASSUME HeadSent(c), ~left'[c] PROVE HeadSent(c)'
    OBVIOUS
  <2>1. Len(up[c]) = 1 /\ HeadOf(up[c][1], TRUE) /\ down[c] = <<>>
    BY <1>1, <1>3 DEF HeadSent, Quiet
  <2>2. r.body # "none"
    BY <1>4, <2>1 DEF HeadOf
  <2>3. bodyAwaited
    BY <1>1, <1>9, <2>2
  <2>4. up'[c] = <<>> /\ p = "body"
    <3>1. Tail(up[c]) = <<>>
      BY <1>4, <2>1, OnlyFacts
    <3>2. up'[c] = <<>>
      BY <1>3, <1>4, <2>1, <2>3, <3>1 DEF HeadOf, OwnInv, TypeOK, SockTypes
    <3>3. phase'[w] = p /\ phase'[w] = "body"
      BY <1>3, <2>3 DEF OwnInv, TypeOK, ServerTypes
    <3>. QED
      BY <3>2, <3>3
  <2>. QED
    BY <1>1, <1>3, <2>1, <2>4 DEF HeadSent
<1>11. Asked(c) => left'[c] \/ Asked(c)'
  <2> SUFFICES ASSUME Asked(c), ~left'[c] PROVE Asked(c)'
    OBVIOUS
  <2>1. /\ down[c] = <<>>
        /\ \/ Len(up[c]) = 2 /\ HeadOf(up[c][1], TRUE) /\ up[c][2].kind = "body"
           \/ Len(up[c]) = 1 /\ HeadOf(up[c][1], FALSE)
    BY <1>1, <1>3 DEF Asked
  <2>2. CASE Len(up[c]) = 2 /\ HeadOf(up[c][1], TRUE) /\ up[c][2].kind = "body"
    <3>1. r.body # "none"
      BY <1>4, <2>2 DEF HeadOf
    <3>2. bodyAwaited
      BY <1>1, <1>9, <3>1
    <3>3. Len(Tail(up[c])) = 1 /\ Tail(up[c])[1] = up[c][2]
      BY <1>4, <2>2
    <3>4. up'[c] = Tail(up[c])
      BY <1>3, <1>4, <2>2, <3>2 DEF HeadOf, OwnInv, TypeOK, SockTypes
    <3>5. phase'[w] = p /\ phase'[w] = "body"
      BY <1>3, <3>2 DEF OwnInv, TypeOK, ServerTypes
    <3>6. Len(up'[c]) = 1 /\ up'[c][1].kind = "body"
      BY <2>2, <3>3, <3>4
    <3>7. down'[c] = <<>> /\ Serving(c, "body")' /\ ~Serving(c, "answer")'
      BY <1>1, <1>3, <2>1, <3>5
    <3>. QED
      BY <3>6, <3>7 DEF Asked
  <2>3. CASE Len(up[c]) = 1 /\ HeadOf(up[c][1], FALSE)
    <3>1. r.body = "none"
      BY <1>4, <2>3 DEF HeadOf
    <3>2. answered
      BY <1>1, <3>1 DEF NeedsBody
    <3>3. rest = <<>> /\ Len(rest) = 0
      BY <1>4, <2>3, OnlyFacts DEF HeadOf
    <3>4. SubSeq(rest, 1, 0) = <<>>
      BY <3>3
    <3>5. up' = [up EXCEPT ![c] = <<>>]
      <4>1. PICK dropped \in 0..0 :
               up' = [up EXCEPT ![c] = SubSeq(rest, dropped + 1, Len(rest))]
        BY <3>2, <3>3
      <4>2. dropped = 0 /\ dropped + 1 = 1
        OBVIOUS
      <4>. QED
        BY <3>3, <3>4, <4>1, <4>2
    <3>6. up'[c] = <<>>
      BY <1>3, <3>5 DEF OwnInv, TypeOK, SockTypes
    <3>7. phase'[w] = p /\ phase'[w] = "answer"
      BY <1>3, <3>2 DEF OwnInv, TypeOK, ServerTypes
    <3>. QED
      BY <1>1, <1>3, <2>1, <3>6, <3>7 DEF Asked
  <2>. QED
    BY <2>1, <2>2, <2>3
<1>12. \A k \in Clients : sock[k] = c /\ Stage(k, c) => left'[c] \/ Stage(k, c)'
  <2>1. ~Quiet(c)
    BY <1>1 DEF Quiet
  <2>. QED
    BY <1>10, <1>11, <2>1 DEF Stage, clientVars
<1>. HIDE DEF bodyAwaited, answered
<1>13. \A x \in Conns \ {c} :
          /\ up'[x] = up[x] /\ down'[x] = down[x] /\ left'[x] = left[x]
          /\ srvEnd'[x] = srvEnd[x]
          /\ Serving(x, "body")' <=> Serving(x, "body")
          /\ Serving(x, "answer")' <=> Serving(x, "answer")
  BY <1>1, <1>3, <1>5
<1>14. Exchange'
  BY <1>8, <1>12, <1>13, ExchangeKept DEF StepInv
<1>. QED
  BY <1>6, <1>7, <1>14 DEF StepInv

\* The body is read, or the request is answered without it.
LEMMA ReadBodyMoves ==
    ASSUME OwnInv, StepInv, UNCHANGED clientVars, NEW w \in Workers, ReadBody(w),
           NEW c \in Conns, job[w] = c
    PROVE  StepInv'
<1>1. /\ at[w] = "busy" /\ phase[w] = "body" /\ job' = job
      /\ phase' = [phase EXCEPT ![w] = "answer"]
      /\ req' = [req EXCEPT ![w] = BadRequest]
      /\ UNCHANGED <<down, cliEnd, srvEnd>>
  BY DEF ReadBody, poolVars
<1>2. \/ /\ up[c] # <<>> /\ up' = [up EXCEPT ![c] = Tail(up[c])]
         /\ left' = [left EXCEPT ![c] = @ \/ Result(req[w], TRUE).read # "whole"]
      \/ /\ up[c] = <<>> /\ up' = up
         /\ left' = [left EXCEPT ![c] = @ \/ Result(req[w], FALSE).read # "whole"]
  BY DEF ReadBody
<1>3. /\ srvEnd[c] = "open"
      /\ \A ph : /\ Serving(c, ph) <=> ph = "body"
                 /\ Serving(c, ph)' <=> ph = "answer"
                 /\ \A x \in Conns \ {c} : Serving(x, ph)' <=> Serving(x, ph)
  BY <1>1, BusyServes, PhaseMoves, ZenonT(30)
<1>4. up \in [Conns -> Seq(Pieces)] /\ left \in [Conns -> BOOLEAN]
  BY DEF OwnInv, TypeOK, SockTypes
<1>5. /\ \A x \in Conns \ {c} : up'[x] = up[x] /\ left'[x] = left[x]
      /\ left[c] => left'[c]
  BY <1>2, <1>4
<1>6. Streams'
  BY <1>1, <1>3, <1>5 DEF StepInv, Streams
<1>7. Bodies'
  <2>1. \A v \in Workers : /\ v # w => phase'[v] = phase[v] /\ req'[v] = req[v]
                           /\ phase'[w] = "answer"
    BY <1>1 DEF OwnInv, TypeOK, ServerTypes
  <2>. QED
    BY <2>1 DEF StepInv, Bodies
<1>8. up[c] = <<>> => left'[c]
  <2>1. Result(req[w], FALSE).read # "whole"
    BY <1>1, BodyUnread DEF StepInv, Bodies
  <2>. QED
    BY <1>2, <1>4, <2>1
<1>9. Asked(c) => left'[c] \/ Asked(c)'
  <2> SUFFICES ASSUME Asked(c), ~left'[c] PROVE Asked(c)'
    OBVIOUS
  <2>1. down[c] = <<>> /\ Len(up[c]) = 1
    BY <1>3 DEF Asked, Idle
  <2>2. Tail(up[c]) = <<>> /\ up[c] # <<>>
    BY <1>4, <1>8, <2>1, OnlyFacts
  <2>3. up'[c] = <<>>
    BY <1>2, <1>4, <2>2
  <2>. QED
    BY <1>1, <1>3, <2>1, <2>3 DEF Asked
<1>10. HeadSent(c) => left'[c]
  BY <1>3, <1>8 DEF HeadSent, Quiet, Idle
<1>11. ~Quiet(c)
  BY <1>3 DEF Quiet, Idle
<1>12. \A k \in Clients : sock[k] = c /\ Stage(k, c) => left'[c] \/ Stage(k, c)'
  BY <1>9, <1>10, <1>11 DEF Stage, clientVars
<1>13. \A x \in Conns \ {c} :
          /\ up'[x] = up[x] /\ down'[x] = down[x] /\ left'[x] = left[x]
          /\ srvEnd'[x] = srvEnd[x]
          /\ Serving(x, "body")' <=> Serving(x, "body")
          /\ Serving(x, "answer")' <=> Serving(x, "answer")
  BY <1>1, <1>3, <1>5
<1>14. Exchange'
  BY <1>5, <1>12, <1>13, ExchangeKept DEF StepInv
<1>. QED
  BY <1>6, <1>7, <1>14 DEF StepInv

\* The answer goes out, or it cannot.
LEMMA AnswerMoves ==
    ASSUME OwnInv, StepInv, UNCHANGED clientVars, NEW w \in Workers, Answer(w),
           NEW c \in Conns, job[w] = c
    PROVE  StepInv'
<1>1. /\ at[w] = "busy" /\ phase[w] = "answer" /\ job' = job
      /\ \E p \in {"poll", "close"} : phase' = [phase EXCEPT ![w] = p]
      /\ UNCHANGED <<up, left, req, cliEnd, srvEnd>>
      /\ \/ down' = down
         \/ cliEnd[c] = "open" /\ \E answer : down' = [down EXCEPT ![c] = Append(@, answer)]
  BY DEF Answer, Onward, NoMoreUp, poolVars
<1>2. PICK p \in {"poll", "close"} : phase' = [phase EXCEPT ![w] = p]
  BY <1>1
<1>3. /\ srvEnd[c] = "open"
      /\ \A ph : /\ Serving(c, ph) <=> ph = "answer"
                 /\ Serving(c, ph)' <=> ph = p
                 /\ \A x \in Conns \ {c} : Serving(x, ph)' <=> Serving(x, ph)
  BY <1>1, <1>2, BusyServes, PhaseMoves, ZenonT(30)
<1>4. down \in [Conns -> Seq(Answers)]
  BY DEF OwnInv, TypeOK, SockTypes
<1>5. /\ \A x \in Conns \ {c} : down'[x] = down[x]
      /\ down'[c] = down[c] \/ (cliEnd[c] = "open" /\ \E answer : down'[c] = Append(down[c], answer))
  BY <1>1, <1>4
<1>6. Streams'
  BY <1>1, <1>3, <1>5 DEF StepInv, Streams
<1>7. Bodies'
  <2>1. \A v \in Workers : phase'[v] = "body" => phase[v] = "body" /\ req'[v] = req[v]
    BY <1>1, <1>2 DEF OwnInv, TypeOK, ServerTypes
  <2>. QED
    BY <2>1 DEF StepInv, Bodies
<1>8. Asked(c) => Asked(c)'
  <2> SUFFICES ASSUME Asked(c) PROVE Asked(c)'
    OBVIOUS
  <2>1. up[c] = <<>> /\ down[c] = <<>>
    BY <1>3 DEF Asked, Idle
  <2>2. Len(down'[c]) <= 1
    <3>1. Len(<<>>) <= 1 /\ \A answer : Len(Append(<<>>, answer)) <= 1
      OBVIOUS
    <3>. QED
      BY <1>5, <2>1, <3>1
  <2>3. Idle(c)'
    BY <1>3 DEF Idle
  <2>. QED
    BY <1>1, <2>1, <2>2, <2>3 DEF Asked
<1>9. ~HeadSent(c) /\ ~Quiet(c)
  BY <1>3 DEF HeadSent, Quiet, Idle
<1>10. \A k \in Clients : sock[k] = c /\ Stage(k, c) => Stage(k, c)'
  BY <1>8, <1>9 DEF Stage, clientVars
<1>11. \A x \in Conns \ {c} :
          /\ up'[x] = up[x] /\ down'[x] = down[x] /\ left'[x] = left[x]
          /\ srvEnd'[x] = srvEnd[x]
          /\ Serving(x, "body")' <=> Serving(x, "body")
          /\ Serving(x, "answer")' <=> Serving(x, "answer")
  BY <1>1, <1>3, <1>5
<1>12. Exchange'
  BY <1>1, <1>10, <1>11, ExchangeKept DEF StepInv
<1>. QED
  BY <1>6, <1>7, <1>12 DEF StepInv

LEMMA ServerMoves ==
    ASSUME OwnInv, StepInv, ServerSide, UNCHANGED clientVars PROVE StepInv'
<1>1. ASSUME NEW w \in Workers, ReadHead(w) \/ ReadBody(w) \/ Answer(w) PROVE StepInv'
  <2>1. at[w] = "busy"
    BY <1>1 DEF ReadHead, ReadBody, Answer
  <2>. QED
    BY <1>1, <2>1, BusyServes, ReadHeadMoves, ReadBodyMoves, AnswerMoves
<1>. QED
  BY <1>1, ListenMoves, AcceptMoves, StopMoves, TurnMoves DEF ServerSide, Worker

-----------------------------------------------------------------------------
(* The exchange on a connection, step by step of the clients.              *)

\* A step of k: what it does to k's connections is all that concerns the
\* stages, for no other client has them.
LEMMA OwnStep ==
    ASSUME OwnInv, StepInv, NEW k \in Clients, UNCHANGED <<poolVars, serverVars>>,
           \A l \in Clients \ {k} : sock'[l] = sock[l] /\ pc'[l] = pc[l] /\ ret'[l] = ret[l],
           \A x \in Conns : InUse(x) /\ x # sock[k] =>
               /\ up'[x] = up[x] /\ down'[x] = down[x] /\ left'[x] = left[x]
               /\ srvEnd'[x] = srvEnd[x],
           \A c \in Conns : sock'[k] = c /\ ~left'[c] => Stage(k, c)',
           Streams'
    PROVE  StepInv'
<1>1. Bodies'
  BY DEF StepInv, Bodies, serverVars
<1>2. Exchange'
  <2> SUFFICES ASSUME NEW l \in Clients, NEW c \in Conns, sock'[l] = c, ~left'[c], l # k
               PROVE  Stage(l, c)'
    BY DEF Exchange
  <2>1. sock[l] = c /\ pc'[l] = pc[l] /\ ret'[l] = ret[l]
    OBVIOUS
  <2>2. InUse(c) /\ c # sock[k]
    BY <2>1 DEF OwnInv, OneClient
  <2>3. /\ up'[c] = up[c] /\ down'[c] = down[c] /\ left'[c] = left[c]
        /\ srvEnd'[c] = srvEnd[c]
    BY <2>2
  <2>4. Stage(l, c)
    BY <2>1, <2>3 DEF StepInv, Exchange
  <2>5. /\ Serving(c, "body")' <=> Serving(c, "body")
        /\ Serving(c, "answer")' <=> Serving(c, "answer")
    BY DEF Serving, poolVars, serverVars
  <2>. QED
    BY <2>1, <2>3, <2>4, <2>5, StageKept
<1>. QED
  BY <1>1, <1>2 DEF StepInv

\* A connection that k gets is new, and k then has nothing under way on it.
LEMMA SwapMoves ==
    ASSUME OwnInv, StepInv, NEW k \in Clients, NEW n \in Conns \cup {NoConn}, Swaps(k, n),
           UNCHANGED <<poolVars, serverVars>>
    PROVE  /\ Streams'
           /\ \A x \in Conns : InUse(x) /\ x # sock[k] =>
                 /\ up'[x] = up[x] /\ down'[x] = down[x] /\ left'[x] = left[x]
                 /\ srvEnd'[x] = srvEnd[x]
           /\ n # NoConn => Quiet(n)'
<1>. DEFINE c == sock[k]
<1>1. /\ ReplaceClientEnd(c, n)
      /\ n # NoConn => n \in Conns /\ Free(n)
      /\ c # NoConn => c \in Conns /\ InUse(c)
  BY DEF Swaps, OwnInv, OneClient, TypeOK, ClientTypes
<1>. HIDE DEF c
<1>2. \A x \in Conns :
         /\ x \notin {c, n} => /\ up'[x] = up[x] /\ down'[x] = down[x] /\ left'[x] = left[x]
                               /\ cliEnd'[x] = cliEnd[x] /\ srvEnd'[x] = srvEnd[x]
         /\ x = n => /\ up'[x] = up[x] /\ down'[x] = down[x] /\ x # c
                     /\ cliEnd'[x] = "open" /\ srvEnd'[x] = "open"
         /\ x = c /\ x # n => /\ down'[x] = <<>>
                              /\ srvEnd[x] = "closed" => up'[x] = <<>>
                              /\ srvEnd[x] # "closed" => up'[x] = up[x] /\ srvEnd'[x] = srvEnd[x]
  BY <1>1, ConnsAssumption DEF ReplaceClientEnd, Free, InUse
<1>3. Streams'
  BY <1>2 DEF StepInv, Streams
<1>4. ASSUME n # NoConn PROVE Quiet(n)'
  <2>1. up[n] = <<>> /\ down[n] = <<>> /\ \A w \in Workers : job[w] # n
    BY <1>1, <1>4, Unserved DEF StepInv, Streams, Free
  <2>2. up'[n] = <<>> /\ down'[n] = <<>>
    BY <1>1, <1>2, <1>4, <2>1
  <2>. QED
    BY <2>1, <2>2 DEF Quiet, Idle, Serving, poolVars
<1>. QED
  BY <1>1, <1>2, <1>3, <1>4, ConnsAssumption DEF Free, InUse, c

\* k ends up without a connection.
LEMMA ParkedMoves ==
    ASSUME OwnInv, StepInv, NEW k \in Clients, UNCHANGED <<poolVars, serverVars>>,
           Swaps(k, NoConn),
           \A l \in Clients \ {k} : pc'[l] = pc[l] /\ ret'[l] = ret[l]
    PROVE  StepInv'
<1>1. \A l \in Clients \ {k} : sock'[l] = sock[l]
  BY DEF Swaps, OwnInv, TypeOK, ClientTypes
<1>2. sock'[k] = NoConn
  BY SwapFacts
<1>. QED
  BY <1>1, <1>2, SwapMoves, OwnStep

\* k goes on with its connection, which it leaves as it is.
LEMMA StillMoves ==
    ASSUME OwnInv, StepInv, NEW k \in Clients, UNCHANGED <<poolVars, serverVars>>,
           UNCHANGED <<sock, up, down, srvEnd, left>>,
           \A x \in Conns : cliEnd'[x] = cliEnd[x] \/ cliEnd'[x] \in {"open", "shut"},
           \A l \in Clients \ {k} : pc'[l] = pc[l] /\ ret'[l] = ret[l],
           \A c \in Conns : sock[k] = c /\ Stage(k, c) => Stage(k, c)'
    PROVE  StepInv'
<1>1. Streams'
  BY DEF StepInv, Streams
<1>2. \A c \in Conns : sock'[k] = c /\ ~left'[c] => Stage(k, c)'
  BY DEF StepInv, Exchange
<1>. QED
  BY <1>1, <1>2, OwnStep

\* Without a step of the server the servings stay.
LEMMA ServedStill ==
    ASSUME UNCHANGED <<poolVars, serverVars>>
    PROVE  \A c \in Conns : /\ \A ph : Serving(c, ph)' <=> Serving(c, ph)
                            /\ Idle(c)' <=> Idle(c)
  BY DEF Serving, Idle, poolVars, serverVars

LEMMA BeginMoves ==
    ASSUME OwnInv, StepInv, NEW k \in Clients, UNCHANGED <<poolVars, serverVars>>,
           NEW r, Begin(k, r), pc[k] \in {"idle", "redirect"}
    PROVE  StepInv'
<1>1. /\ pc' = [pc EXCEPT ![k] = "head"] /\ ret' = [ret EXCEPT ![k] = FALSE]
      /\ \/ UNCHANGED <<sock, sockVars>>
         \/ \E n \in Conns : Swaps(k, n)
  BY BeginCases DEF Begin
<1>2. /\ pc'[k] = "head" /\ ret'[k] = FALSE
      /\ \A l \in Clients \ {k} : pc'[l] = pc[l] /\ ret'[l] = ret[l]
  BY <1>1 DEF OwnInv, TypeOK, ClientTypes
<1>3. \A c \in Conns : Quiet(c)' => Stage(k, c)'
  BY <1>2 DEF Stage
<1>4. CASE UNCHANGED <<sock, sockVars>>
  <2>1. \A c \in Conns : Stage(k, c) => Quiet(c)
    BY DEF Stage
  <2>2. \A c \in Conns : Quiet(c) => Quiet(c)'
    BY <1>4, ServedStill DEF Quiet, sockVars
  <2>. QED
    BY <1>2, <1>3, <1>4, <2>1, <2>2, StillMoves DEF sockVars
<1>5. ASSUME NEW n \in Conns, Swaps(k, n) PROVE StepInv'
  <2>1. sock'[k] = n /\ \A l \in Clients \ {k} : sock'[l] = sock[l]
    BY <1>5, SwapFacts DEF Swaps, OwnInv, TypeOK, ClientTypes
  <2>2. Quiet(n)' /\ n # NoConn
    BY <1>5, SwapMoves, ConnsAssumption
  <2>. QED
    BY <1>2, <1>3, <1>5, <2>1, <2>2, SwapMoves, OwnStep
<1>. QED
  BY <1>1, <1>4, <1>5

LEMMA BeginFailsMoves ==
    ASSUME OwnInv, StepInv, NEW k \in Clients, UNCHANGED <<poolVars, serverVars>>,
           BeginFails(k)
    PROVE  StepInv'
<1>1. Swaps(k, NoConn)
  BY BeginCases
<1>2. \A l \in Clients \ {k} : pc'[l] = pc[l] /\ ret'[l] = ret[l]
  BY DEF BeginFails, OwnInv, TypeOK, ClientTypes
<1>. QED
  BY <1>1, <1>2, ParkedMoves

\* The head of the request, or its body, is sent, or the connection is dead.
LEMMA WriteMoves ==
    ASSUME OwnInv, StepInv, NEW k \in Clients, UNCHANGED <<poolVars, serverVars>>,
           WriteHead(k) \/ WriteBody(k), NEW c \in Conns, sock[k] = c
    PROVE  StepInv'
<1>. DEFINE sends(piece) == /\ cliEnd[c] = "open" /\ srvEnd[c] = "open"
                            /\ up' = [up EXCEPT ![c] = Append(up[c], piece)]
<1>1. UNCHANGED <<sock, down, cliEnd, srvEnd, left>>
  BY DEF WriteHead, WriteBody
<1>2. \A l \in Clients \ {k} : sock'[l] = sock[l] /\ pc'[l] = pc[l] /\ ret'[l] = ret[l]
  BY DEF WriteHead, WriteBody, Finish, OwnInv, TypeOK, ClientTypes
<1>3. up \in [Conns -> Seq(Pieces)]
  BY DEF OwnInv, TypeOK, SockTypes
<1>4. CASE up' = up /\ Finish(k, FALSE)
  <2>1. pc'[k] = "end" /\ ret'[k] = FALSE
    BY <1>4 DEF Finish, OwnInv, TypeOK, ClientTypes
  <2>2. Stage(k, c)'
    BY <2>1 DEF Stage
  <2>. QED
    BY <1>1, <1>2, <1>4, <2>2, StillMoves
<1>5. ASSUME NEW piece, sends(piece),
             Stage(k, c) => Stage(k, c)'
      PROVE  StepInv'
  <2>1. \A x \in Conns \ {c} : up'[x] = up[x]
    BY <1>3, <1>5
  <2>2. Streams'
    BY <1>1, <1>5, <2>1 DEF StepInv, Streams
  <2>3. \A x \in Conns : sock'[k] = x /\ ~left'[x] => Stage(k, x)'
    BY <1>1, <1>5 DEF StepInv, Exchange
  <2>. HIDE DEF sends
  <2>. QED
    BY <1>1, <1>2, <2>1, <2>2, <2>3, OwnStep
<1>6. CASE WriteHead(k) /\ Writable(c)
  <2>. DEFINE piece == [kind |-> "head", request |-> Sent(k)]
  <2>1. pc[k] = "head" /\ sends(piece)
    BY <1>6 DEF WriteHead, Writable
  <2>2. /\ request[k].body = "none" => pc'[k] = "wait"
        /\ request[k].body # "none" => pc'[k] = "body"
    BY <1>6 DEF WriteHead, Writable, OwnInv, TypeOK, ClientTypes
  <2>3. Sent(k).body = request[k].body
    BY <2>1, SentFacts
  <2>4. ASSUME Stage(k, c) PROVE Stage(k, c)'
    <3>1. up[c] = <<>> /\ down[c] = <<>> /\ Idle(c)
      BY <2>1, <2>4 DEF Stage, Quiet
    <3>2. up'[c] = Append(<<>>, piece)
      BY <1>3, <2>1, <3>1
    <3>3. Len(up'[c]) = 1 /\ up'[c][1] = piece
      BY <3>2
    <3>4. HeadOf(up'[c][1], request[k].body # "none")
      BY <2>3, <3>3 DEF HeadOf
    <3>5. down'[c] = <<>> /\ Idle(c)' /\ ~Serving(c, "answer")'
      BY <1>1, <3>1, ServedStill DEF Idle
    <3>6. CASE request[k].body = "none"
      <4>1. HeadOf(up'[c][1], FALSE)
        BY <3>4, <3>6
      <4>2. Asked(c)'
        BY <3>3, <3>5, <4>1 DEF Asked
      <4>. QED
        BY <2>2, <3>6, <4>2 DEF Stage
    <3>7. CASE request[k].body # "none"
      <4>1. HeadOf(up'[c][1], TRUE)
        BY <3>4, <3>7
      <4>2. HeadSent(c)'
        BY <3>3, <3>5, <4>1 DEF HeadSent
      <4>. QED
        BY <2>2, <3>7, <4>2 DEF Stage
    <3>. QED
      BY <3>6, <3>7
  <2>. QED
    BY <1>5, <2>1, <2>4
<1>7. CASE WriteBody(k) /\ Writable(c)
  <2>. DEFINE piece == [kind |-> "body"]
  <2>1. /\ pc[k] = "body" /\ sends(piece)
        /\ pc'[k] = "wait"
    BY <1>7 DEF WriteBody, Writable, OwnInv, TypeOK, ClientTypes
  <2>2. ASSUME Stage(k, c) PROVE Stage(k, c)'
    <3>1. HeadSent(c)
      BY <2>1, <2>2 DEF Stage
    <3>2. up'[c] = Append(up[c], piece) /\ up[c] \in Seq(Pieces)
      BY <1>3, <2>1
    <3>3. CASE Len(up[c]) = 1 /\ HeadOf(up[c][1], TRUE) /\ Idle(c)
      <4>1. Len(up'[c]) = 2 /\ up'[c][1] = up[c][1] /\ up'[c][2] = piece
        BY <3>2, <3>3
      <4>2. down'[c] = <<>> /\ Idle(c)'
        BY <1>1, <3>1, <3>3, ServedStill DEF HeadSent
      <4>3. HeadOf(up'[c][1], TRUE) /\ up'[c][2].kind = "body"
        BY <3>3, <4>1 DEF HeadOf
      <4>4. Asked(c)'
        <5>. HIDE DEF piece
        <5>. QED
          BY <4>1, <4>2, <4>3 DEF Asked
      <4>. QED
        BY <2>1, <4>4 DEF Stage
    <3>4. CASE up[c] = <<>> /\ Serving(c, "body")
      <4>1. Len(up'[c]) = 1 /\ up'[c][1].kind = "body"
        BY <3>2, <3>4
      <4>2. down'[c] = <<>> /\ Serving(c, "body")' /\ ~Serving(c, "answer")'
        BY <1>1, <3>1, <3>4, ServedStill DEF HeadSent
      <4>3. Asked(c)'
        <5>. HIDE DEF piece
        <5>. QED
          BY <4>1, <4>2 DEF Asked
      <4>. QED
        BY <2>1, <4>3 DEF Stage
    <3>. QED
      BY <2>1, <3>1, <3>3, <3>4 DEF HeadSent
  <2>. QED
    BY <1>5, <2>1, <2>2
<1>. QED
  BY <1>4, <1>6, <1>7 DEF WriteHead, WriteBody

\* The answer is taken: nothing is under way any more.
LEMMA TakeMoves ==
    ASSUME OwnInv, StepInv, NEW k \in Clients, UNCHANGED <<poolVars, serverVars>>,
           TakeAnswer(k), NEW c \in Conns, sock[k] = c
    PROVE  StepInv'
<1>1. /\ pc[k] = "wait" /\ down[c] # <<>>
      /\ UNCHANGED <<listening, backlog>>
      /\ \/ Swaps(k, NoConn)
         \/ /\ down' = [down EXCEPT ![c] = Tail(@)]
            /\ UNCHANGED <<sock, up, cliEnd, srvEnd, left>>
  BY DEF TakeAnswer, Swaps, CloseClientEnd
<1>2. /\ pc'[k] \in {"end", "redirect"}
      /\ \A l \in Clients \ {k} : pc'[l] = pc[l] /\ ret'[l] = ret[l]
  BY DEF TakeAnswer, Finish, OwnInv, TypeOK, ClientTypes
<1>3. CASE Swaps(k, NoConn)
  BY <1>2, <1>3, ParkedMoves
<1>4. CASE /\ down' = [down EXCEPT ![c] = Tail(@)]
           /\ UNCHANGED <<sock, up, cliEnd, srvEnd, left>>
  <2>1. down \in [Conns -> Seq(Answers)]
    BY DEF OwnInv, TypeOK, SockTypes
  <2>2. down'[c] = Tail(down[c]) /\ \A x \in Conns \ {c} : down'[x] = down[x]
    BY <1>4, <2>1
  <2>3. Stage(k, c) => Stage(k, c)'
    <3> SUFFICES ASSUME Stage(k, c) PROVE Stage(k, c)'
      OBVIOUS
    <3>1. up[c] = <<>> /\ Idle(c) /\ Len(down[c]) <= 1
      BY <1>1 DEF Stage, Asked
    <3>2. Len(down[c]) = 1
      <4>1. Len(down[c]) \in Nat /\ Len(down[c]) # 0
        BY <1>1, <2>1, LengthFacts
      <4>2. \A n \in Nat : n # 0 /\ n <= 1 => n = 1
        OBVIOUS
      <4>. QED
        BY <3>1, <4>1, <4>2, Zenon
    <3>3. down'[c] = <<>>
      BY <2>1, <2>2, <3>2, OnlyFacts
    <3>4. Quiet(c)'
      BY <1>4, <3>1, <3>3, ServedStill DEF Quiet
    <3>. QED
      BY <1>2, <3>4 DEF Stage
  <2>4. Streams'
    <3>1. cliEnd[c] \notin {"none", "closed"}
      BY <1>1 DEF StepInv, Streams
    <3>. QED
      BY <1>4, <2>2, <3>1 DEF StepInv, Streams
  <2>5. \A x \in Conns : sock'[k] = x /\ ~left'[x] => Stage(k, x)'
    BY <1>4, <2>3 DEF StepInv, Exchange
  <2>. QED
    BY <1>2, <1>4, <2>2, <2>4, <2>5, OwnStep
<1>. QED
  BY <1>1, <1>3, <1>4

\* The read fails, a send_ ends, or stop is called.
LEMMA EndingMoves ==
    ASSUME OwnInv, StepInv, NEW k \in Clients, UNCHANGED <<poolVars, serverVars>>,
           ReadEnd(k) \/ ReadTimeout(k) \/ End(k) \/ ClientStop(k)
    PROVE  StepInv'
<1>1. CASE ReadEnd(k) \/ ReadTimeout(k)
  <2>1. UNCHANGED <<sock, sockVars>> /\ Finish(k, FALSE)
    BY <1>1 DEF ReadEnd, ReadTimeout
  <2>2. /\ pc'[k] = "end" /\ ret'[k] = FALSE
        /\ \A l \in Clients \ {k} : pc'[l] = pc[l] /\ ret'[l] = ret[l]
    BY <2>1 DEF Finish, OwnInv, TypeOK, ClientTypes
  <2>3. \A c \in Conns : Stage(k, c)'
    BY <2>2 DEF Stage
  <2>. QED
    BY <2>1, <2>2, <2>3, StillMoves DEF sockVars
<1>2. CASE End(k)
  <2>1. /\ pc[k] = "end" /\ pc'[k] \in {"idle", "end"}
        /\ \A l \in Clients \ {k} : pc'[l] = pc[l] /\ ret'[l] = ret[l]
    BY <1>2 DEF End, EndIf, OwnInv, TypeOK, ClientTypes
  <2>2. \/ Swaps(k, NoConn)
        \/ ret[k] /\ UNCHANGED <<sock, up, down, cliEnd, srvEnd, left>>
    BY <1>2 DEF End, EndIf, Swaps, CloseClientEnd
  <2>3. CASE Swaps(k, NoConn)
    BY <2>1, <2>3, ParkedMoves
  <2>4. CASE ret[k] /\ UNCHANGED <<sock, up, down, cliEnd, srvEnd, left>>
    <3>1. \A c \in Conns : Stage(k, c) => Quiet(c)'
      BY <2>1, <2>4, ServedStill DEF Stage, Quiet
    <3>2. \A c \in Conns : Quiet(c)' => Stage(k, c)'
      BY <2>1 DEF Stage
    <3>. QED
      BY <2>1, <2>4, <3>1, <3>2, StillMoves
  <2>. QED
    BY <2>2, <2>3, <2>4
<1>3. CASE ClientStop(k)
  <2>1. UNCHANGED <<pc, ret, listening, backlog>>
    BY <1>3 DEF ClientStop
  <2>2. CASE Swaps(k, NoConn)
    BY <2>1, <2>2, ParkedMoves
  <2>3. CASE /\ cliEnd' = [c \in Conns |-> IF c = sock[k] THEN "shut" ELSE cliEnd[c]]
             /\ UNCHANGED <<sock, up, down, srvEnd, left>>
    <3>1. \A c \in Conns : cliEnd'[c] = cliEnd[c] \/ cliEnd'[c] \in {"open", "shut"}
      BY <2>3
    <3>2. \A c \in Conns : Stage(k, c) => Stage(k, c)'
      BY <2>1, <2>3, ServedStill, StageKept
    <3>. QED
      BY <2>1, <2>3, <3>1, <3>2, StillMoves
  <2>. QED
    BY <1>3, <2>1, <2>2, <2>3 DEF ClientStop, Swaps, CloseClientEnd
<1>. QED
  BY <1>1, <1>2, <1>3

LEMMA ClientMoves ==
    ASSUME OwnInv, StepInv, NEW k \in Clients, UNCHANGED <<poolVars, serverVars>>,
           \/ \E r \in Sends[k] : Call(k, r)
           \/ Requester(k) \/ ReadTimeout(k) \/ ClientStop(k)
    PROVE  StepInv'
<1>1. CASE (\E r \in Sends[k] : Call(k, r)) \/ Follow(k)
  BY <1>1, BeginMoves, BeginFailsMoves DEF Call, Follow
<1>2. CASE WriteHead(k) \/ WriteBody(k) \/ TakeAnswer(k)
  <2>1. sock[k] \in Conns
    BY <1>2 DEF WriteHead, WriteBody, TakeAnswer, OwnInv, ClientLife, TypeOK, ClientTypes
  <2>. QED
    BY <1>2, <2>1, WriteMoves, TakeMoves
<1>. QED
  BY <1>1, <1>2, EndingMoves DEF Requester

-----------------------------------------------------------------------------
(* The answers are in step with the requests.                              *)

LEMMA InitStep == Init => StepInv
<1> SUFFICES ASSUME Init PROVE StepInv
  OBVIOUS
<1>1. Streams /\ Bodies
  BY DEF Init, SocketsInit, ServerInit, Streams, Bodies
<1>2. Exchange
  BY ConnsAssumption DEF Init, ClientInit, Exchange
<1>. QED
  BY <1>1, <1>2 DEF StepInv

LEMMA NextStep == OwnInv /\ StepInv /\ [Next]_vars => StepInv'
<1> SUFFICES ASSUME OwnInv, StepInv, [Next]_vars PROVE StepInv'
  OBVIOUS
<1>1. CASE ServerSide /\ UNCHANGED clientVars
  BY <1>1, ServerMoves
<1>2. CASE ClientSide /\ UNCHANGED <<poolVars, serverVars>>
  BY <1>2, ClientMoves DEF ClientSide
<1>3. CASE UNCHANGED vars
  <2>1. UNCHANGED <<clientVars, up, down, left, cliEnd, srvEnd, req, phase, job>>
    BY <1>3 DEF vars, sockVars, serverVars, poolVars
  <2>. QED
    BY <2>1, NothingMoves DEF Serving
<1>. QED
  BY <1>1, <1>2, <1>3 DEF Next

LEMMA StepInvariance == Spec => [](OwnInv /\ StepInv)
<1>1. Init => OwnInv /\ StepInv
  BY InitOwn, InitStep
<1>2. OwnInv /\ StepInv /\ [Next]_vars => (OwnInv /\ StepInv)'
  BY NextOwn, NextStep
<1>. QED
  BY <1>1, <1>2, PTL DEF Spec

\* What Pending counts, from the stages.
LEMMA PendingFacts ==
    ASSUME OwnInv, NEW c \in Conns
    PROVE  /\ Quiet(c) => Pending(c) = 0
           /\ HeadSent(c) \/ Asked(c) => Pending(c) <= 1
<1>. DEFINE H == Heads(c)
            I == InService(c)
<1>1. up[c] \in Seq(Pieces) /\ down[c] \in Seq(Answers)
  BY DEF OwnInv, TypeOK, SockTypes
<1>2. /\ Cardinality(I) \in {0, 1}
      /\ Cardinality(I) = 0 <=> I = {}
  <2>0. \A w \in I : w \in Workers /\ job[w] = c
    BY DEF InService
  <2>2. c # NoConn /\ \A v, w \in Workers : job[v] = job[w] /\ job[v] # NoConn => v = w
    BY DEF OwnInv, OnePlace
  <2>1. \A v, w \in I : v = w
    <3>. HIDE DEF I
    <3>. QED
      BY <2>0, <2>2
  <2>. HIDE DEF I
  <2>. QED
    BY <2>1, OneOrNone
<1>3. I = {} <=> Idle(c)
  BY DEF InService, Idle, Serving
<1>4. up[c] = <<>> => Cardinality(H) = 0
  <2>1. ASSUME up[c] = <<>> PROVE H = {}
    BY <2>1 DEF Heads
  <2>. QED
    BY <2>1, FS_EmptySet
<1>5. ASSUME Len(up[c]) = 1 \/ (Len(up[c]) = 2 /\ up[c][2].kind = "body")
      PROVE  /\ Cardinality(H) \in {0, 1}
             /\ up[c][1].kind = "body" => Cardinality(H) = 0
  <2>1. \A i \in H : i = 1 /\ up[c][1].kind = "head"
    <3>1. DOMAIN up[c] = 1..Len(up[c])
      BY <1>1
    <3>2. \A i \in H : i \in 1..Len(up[c]) /\ up[c][i].kind = "head"
      BY <3>1 DEF Heads
    <3>. QED
      BY <1>5, <3>2
  <2>2. up[c][1].kind = "body" => H = {}
    BY <2>1
  <2>. HIDE DEF H
  <2>. QED
    BY <2>1, <2>2, OneOrNone
<1>6. Pending(c) = Cardinality(H) + Cardinality(I) + Len(down[c])
  BY DEF Pending
<1>7. Len(down[c]) \in Nat /\ (down[c] = <<>> => Len(down[c]) = 0)
  BY <1>1
<1>. HIDE DEF H, I
<1>8. Quiet(c) => Pending(c) = 0
  BY <1>2, <1>3, <1>4, <1>6, <1>7 DEF Quiet
<1>9. HeadSent(c) => Pending(c) <= 1
  <2>1. CASE Len(up[c]) = 1 /\ Idle(c) /\ down[c] = <<>>
    BY <1>2, <1>3, <1>5, <1>6, <1>7, <2>1
  <2>2. CASE up[c] = <<>> /\ down[c] = <<>>
    BY <1>2, <1>4, <1>6, <1>7, <2>2
  <2>. QED
    BY <2>1, <2>2 DEF HeadSent, Quiet
<1>10. Asked(c) => Pending(c) <= 1
  <2>1. CASE /\ Len(up[c]) = 1 \/ (Len(up[c]) = 2 /\ up[c][2].kind = "body")
             /\ Idle(c) /\ down[c] = <<>>
    BY <1>2, <1>3, <1>5, <1>6, <1>7, <2>1
  <2>2. CASE Len(up[c]) = 1 /\ up[c][1].kind = "body" /\ down[c] = <<>>
    BY <1>2, <1>5, <1>6, <1>7, <2>2
  <2>3. CASE up[c] = <<>> /\ down[c] = <<>>
    BY <1>2, <1>4, <1>6, <1>7, <2>3
  <2>4. CASE up[c] = <<>> /\ Idle(c) /\ Len(down[c]) <= 1
    BY <1>2, <1>3, <1>4, <1>6, <1>7, <2>4
  <2>. QED
    BY <2>1, <2>2, <2>3, <2>4 DEF Asked
<1>. QED
  BY <1>8, <1>9, <1>10

\* A client that sends on a kept connection takes the answer to that request
\* and no other, unless the server has left a body in the stream: for any
\* requests, handlers, clients and workers.
THEOREM AlwaysInStep == Spec => []InStep
<1>1. OwnInv /\ StepInv => InStep
  <2> SUFFICES ASSUME OwnInv, StepInv, NEW k \in Clients, NEW c, c = sock[k],
                      c # NoConn, ~left[c]
               PROVE  /\ pc[k] \in {"idle", "redirect", "head"} => Pending(c) = 0
                      /\ pc[k] \in {"body", "wait"} => Pending(c) <= 1
    BY DEF InStep
  <2>1. c \in Conns
    BY DEF OwnInv, TypeOK, ClientTypes
  <2>2. Stage(k, c)
    BY <2>1 DEF StepInv, Exchange
  <2>. QED
    BY <2>1, <2>2, PendingFacts DEF Stage
<1>. QED
  BY <1>1, StepInvariance, PTL
=============================================================================
