-------------------------------- MODULE DbusProofs --------------------------------
(***************************************************************************)
(* Proofs about DbusCalls, for any processes, calls and deployment, and    *)
(* about DbusServer, for any servers, names and other claimants.           *)
(***************************************************************************)
EXTENDS DbusCalls, DbusServer, Integers, TLAPS

\* A blocked call is the caller's own and has not returned.
Waiting ==
    \A p \in Procs, c \in Calls : waits[p] = c =>
        from[c] = p /\ told[c] = "none" /\ ~output[c] /\ body[p] # "idle"

\* Only a process that is up runs anything.
Alive == \A p \in Procs : body[p] # "idle" => up[p]

\* A queued request is its server's, and nothing has become of it yet.
Queued ==
    \A p \in Procs : \A i \in 1 .. Len(inbox[p]) :
        /\ handler[inbox[p][i]] = "none"
        /\ answer[inbox[p][i]] = "none"
        /\ to[inbox[p][i]] = p
        /\ from[inbox[p][i]] # NoProc
        /\ up[p]

NoRepeats ==
    \A p \in Procs : \A i, j \in 1 .. Len(inbox[p]) :
        inbox[p][i] = inbox[p][j] => i = j

\* So is one whose handler a process runs.
Handling ==
    \A p \in Procs, c \in Calls : body[p] = c =>
        /\ handler[c] = "running"
        /\ answer[c] = "none"
        /\ to[c] = p
        /\ from[c] # NoProc

Unsent ==
    \A c \in Calls : from[c] = NoProc =>
        /\ handler[c] = "none"
        /\ answer[c] = "none"
        /\ told[c] = "none"
        /\ ~output[c]
        /\ to[c] = NoProc

\* What a handler's end, an answer and a reply say of each other.
Answered ==
    \A c \in Calls :
        /\ handler[c] \in {"done", "refused", "dead"} => answer[c] # "none"
        /\ answer[c] = "json" => handler[c] \in {"done", "refused"}
        /\ output[c] => told[c] = "true" /\ answer[c] = "json"

IInv ==
    /\ TypeOK
    /\ Waiting
    /\ Alive
    /\ Queued
    /\ NoRepeats
    /\ Handling
    /\ Unsent
    /\ Answered
    /\ TrueMeansAnswered

-----------------------------------------------------------------------------
\* What Append and Tail do to a queue.
LEMMA AppendFacts ==
  ASSUME NEW S, NEW s \in Seq(S), NEW x \in S
  PROVE  /\ Append(s, x) \in Seq(S)
         /\ Len(s) \in Nat
         /\ Len(Append(s, x)) = Len(s) + 1
         /\ \A i \in 1 .. Len(s) : Append(s, x)[i] = s[i]
         /\ Append(s, x)[Len(s) + 1] = x
  OBVIOUS

LEMMA TailFacts ==
  ASSUME NEW S, NEW s \in Seq(S), s # << >>
  PROVE  /\ Tail(s) \in Seq(S)
         /\ Len(s) \in Nat
         /\ 1 \in 1 .. Len(s)
         /\ Len(Tail(s)) = Len(s) - 1
         /\ \A i \in 1 .. Len(s) - 1 : Tail(s)[i] = s[i + 1]
         /\ Head(s) = s[1] /\ Head(s) \in S
  OBVIOUS

LEMMA InitInv == Init => IInv
  BY NoProcAssumption, NoCallAssumption
  DEF Init, IInv, TypeOK, Kinds, Waiting, Alive, Queued, NoRepeats, Handling, Unsent, Answered,
      TrueMeansAnswered

\* Sending: a fresh call joins the end of its server's queue.
LEMMA SendInv ==
  ASSUME IInv, NEW p \in Procs, NEW q \in Procs, NEW c \in Calls, NEW r \in Kinds,
         Send(p, q, c, r)
  PROVE  IInv'
<1>. USE NoProcAssumption, NoCallAssumption DEF Kinds
<1>1. TypeOK /\ from[c] = NoProc /\ body[p] # "idle" /\ waits[p] = NoCall
  BY DEF IInv, Send
<1>2. handler[c] = "none" /\ answer[c] = "none" /\ told[c] = "none" /\ ~output[c]
  BY <1>1 DEF IInv, Unsent
<1>3. \A o \in Procs : \A i \in 1 .. Len(inbox[o]) : inbox[o][i] # c
  BY <1>1 DEF IInv, Queued
<1>4. \A o \in Procs : body[o] # c /\ waits[o] # c
  BY <1>1 DEF IInv, Handling, Waiting
<1>5. up[p]
  BY <1>1 DEF IInv, Alive
<1>6. CASE up[q]
  <2>1. /\ UNCHANGED <<up, body, handler, answer, told, output>>
        /\ inbox' = [inbox EXCEPT ![q] = Append(@, c)]
        /\ from' = [from EXCEPT ![c] = p] /\ to' = [to EXCEPT ![c] = q]
        /\ asks' = [asks EXCEPT ![c] = r] /\ waits' = [waits EXCEPT ![p] = c]
    BY <1>6 DEF Send
  <2>2. inbox[q] \in Seq(Calls)
    BY <1>1 DEF TypeOK
  <2>3. /\ inbox'[q] \in Seq(Calls) /\ Len(inbox'[q]) = Len(inbox[q]) + 1
        /\ \A i \in 1 .. Len(inbox[q]) : inbox'[q][i] = inbox[q][i]
        /\ inbox'[q][Len(inbox[q]) + 1] = c
        /\ Len(inbox[q]) \in Nat
    BY <1>1, <2>1, <2>2, AppendFacts DEF TypeOK
  <2>4. \A o \in Procs : o # q => inbox'[o] = inbox[o]
    BY <1>1, <2>1 DEF TypeOK
  <2>5. TypeOK'
    BY <1>1, <2>1, <2>3, <2>4 DEF TypeOK
  <2>6. Waiting' /\ Alive' /\ Handling' /\ Unsent' /\ Answered' /\ TrueMeansAnswered'
    BY <1>1, <1>2, <1>4, <1>5, <2>1
    DEF IInv, TypeOK, Waiting, Alive, Handling, Unsent, Answered, TrueMeansAnswered
  <2>7. Queued'
    <3> SUFFICES ASSUME NEW o \in Procs, NEW i \in 1 .. Len(inbox'[o])
                 PROVE  /\ handler[inbox'[o][i]] = "none"
                        /\ answer[inbox'[o][i]] = "none"
                        /\ to'[inbox'[o][i]] = o
                        /\ from'[inbox'[o][i]] # NoProc
                        /\ up[o]
      BY <2>1 DEF Queued
    <3>1. CASE o = q /\ i = Len(inbox[q]) + 1
      BY <1>1, <1>2, <1>6, <2>1, <2>3, <3>1 DEF TypeOK
    <3>2. CASE ~(o = q /\ i = Len(inbox[q]) + 1)
      <4>1. i \in 1 .. Len(inbox[o]) /\ inbox'[o][i] = inbox[o][i]
        BY <2>3, <2>4, <3>2
      <4>2. inbox[o][i] # c /\ inbox[o][i] \in Calls
        BY <1>1, <1>3, <4>1 DEF TypeOK
      <4>. QED
        BY <1>1, <2>1, <4>1, <4>2 DEF IInv, Queued, TypeOK
    <3>. QED
      BY <3>1, <3>2
  <2>8. NoRepeats'
    <3> SUFFICES ASSUME NEW o \in Procs, NEW i \in 1 .. Len(inbox'[o]),
                        NEW j \in 1 .. Len(inbox'[o]), inbox'[o][i] = inbox'[o][j]
                 PROVE  i = j
      BY DEF NoRepeats
    <3>1. CASE o # q
      BY <2>4, <3>1 DEF IInv, NoRepeats
    <3>2. CASE o = q
      <4>. DEFINE n == Len(inbox[q])
      <4>1. n \in Nat /\ i \in 1 .. n + 1 /\ j \in 1 .. n + 1
        BY <2>3, <3>2
      <4>2. CASE i \in 1 .. n /\ j \in 1 .. n
        BY <2>3, <3>2, <4>2 DEF IInv, NoRepeats
      <4>3. CASE i = n + 1
        <5>1. ~ j \in 1 .. n
          BY <1>3, <2>3, <3>2, <4>3
        <5>. QED
          BY <4>1, <4>3, <5>1
      <4>4. CASE j = n + 1
        <5>1. ~ i \in 1 .. n
          BY <1>3, <2>3, <3>2, <4>4
        <5>. QED
          BY <4>1, <4>4, <5>1
      <4>. QED
        BY <4>1, <4>2, <4>3, <4>4
    <3>. QED
      BY <3>1, <3>2
  <2>. QED
    BY <2>5, <2>6, <2>7, <2>8 DEF IInv
<1>7. CASE ~up[q]
  <2>1. /\ UNCHANGED <<up, body, inbox, told, output>>
        /\ handler' = [handler EXCEPT ![c] = "dead"]
        /\ answer' = [answer EXCEPT ![c] = "error"]
        /\ from' = [from EXCEPT ![c] = p] /\ to' = [to EXCEPT ![c] = q]
        /\ asks' = [asks EXCEPT ![c] = r] /\ waits' = [waits EXCEPT ![p] = c]
    BY <1>7 DEF Send
  <2>2. TypeOK'
    BY <1>1, <2>1 DEF TypeOK
  <2>3. Waiting' /\ Alive' /\ Handling' /\ Unsent' /\ Answered' /\ TrueMeansAnswered'
    BY <1>1, <1>2, <1>4, <1>5, <2>1
    DEF IInv, TypeOK, Waiting, Alive, Handling, Unsent, Answered, TrueMeansAnswered
  <2>4. Queued' /\ NoRepeats'
    BY <1>1, <1>3, <2>1 DEF IInv, TypeOK, Queued, NoRepeats
  <2>. QED
    BY <2>2, <2>3, <2>4 DEF IInv
<1>. QED
  BY <1>6, <1>7

\* A call returns: only what the caller knows changes.
LEMMA ReturnInv ==
  ASSUME IInv, NEW p \in Procs, Receive(p) \/ Timeout(p)
  PROVE  IInv'
<1>. DEFINE c == waits[p]
<1>1. TypeOK /\ c \in Calls /\ told[c] = "none" /\ ~output[c] /\ from[c] = p
  <2>1. TypeOK /\ waits[p] # NoCall
    BY DEF IInv, Receive, Timeout
  <2>. QED
    BY <2>1 DEF IInv, TypeOK, Waiting
<1>2. /\ UNCHANGED <<up, body, inbox, from, to, asks, handler, answer>>
      /\ waits' = [waits EXCEPT ![p] = NoCall]
  BY DEF Receive, Timeout, OnError, Return
<1>0. PICK v \in {"true", "false"}, b \in BOOLEAN :
        /\ told' = [told EXCEPT ![c] = v]
        /\ output' = [output EXCEPT ![c] = b]
        /\ v = "true" /\ p \notin Libdbus => b
        /\ b => v = "true" /\ answer[c] = "json"
  BY DEF Receive, Timeout, OnError, Return
<1>3. TypeOK'
  BY <1>0, <1>1, <1>2 DEF TypeOK
<1>4. Waiting'
  <2>1. \A q \in Procs : q # p => waits[q] # c
    BY <1>1, NoProcAssumption DEF IInv, Waiting
  <2>. QED
    BY <1>0, <1>1, <1>2, <2>1, NoCallAssumption DEF IInv, TypeOK, Waiting
<1>5. Alive' /\ Queued' /\ NoRepeats' /\ Handling'
  BY <1>2 DEF IInv, Alive, Queued, NoRepeats, Handling
<1>6. Unsent'
  BY <1>0, <1>1, <1>2, NoProcAssumption DEF IInv, TypeOK, Unsent
<1>7. Answered'
  BY <1>0, <1>1, <1>2 DEF IInv, TypeOK, Answered
<1>8. TrueMeansAnswered'
  BY <1>0, <1>1, <1>2 DEF IInv, TypeOK, Answered, TrueMeansAnswered
<1>. QED
  BY <1>3, <1>4, <1>5, <1>6, <1>7, <1>8 DEF IInv

\* Dispatch takes a request that nothing has become of.
LEMMA DispatchInv ==
  ASSUME IInv, NEW p \in Procs, Dispatch(p)
  PROVE  IInv'
<1>. DEFINE c == Head(inbox[p])
<1>1. TypeOK /\ up[p] /\ body[p] = "idle" /\ inbox[p] # << >> /\ inbox[p] \in Seq(Calls)
  BY DEF IInv, Dispatch, TypeOK
<1>2. /\ Tail(inbox[p]) \in Seq(Calls) /\ Len(inbox[p]) \in Nat /\ 1 \in 1 .. Len(inbox[p])
      /\ Len(Tail(inbox[p])) = Len(inbox[p]) - 1
      /\ \A i \in 1 .. Len(inbox[p]) - 1 : Tail(inbox[p])[i] = inbox[p][i + 1]
      /\ c = inbox[p][1] /\ c \in Calls
  BY <1>1, TailFacts
<1>3. handler[c] = "none" /\ answer[c] = "none" /\ to[c] = p /\ from[c] # NoProc
  BY <1>1, <1>2 DEF IInv, Queued
<1>4. /\ UNCHANGED <<up, waits, from, to, asks, told, output>>
      /\ inbox' = [inbox EXCEPT ![p] = Tail(inbox[p])]
  BY <1>1 DEF Dispatch
<1>0. PICK b \in {c, "idle"}, h \in {"running", "refused"}, a \in {"none", "json", "error"} :
        /\ body' = [body EXCEPT ![p] = b]
        /\ handler' = [handler EXCEPT ![c] = h]
        /\ answer' = [answer EXCEPT ![c] = a]
        /\ b = c <=> h = "running"
        /\ a = "none" <=> h = "running"
  <2>1. CASE asks[c] = "valid"
    <3>1. body' = [body EXCEPT ![p] = c] /\ handler' = [handler EXCEPT ![c] = "running"]
          /\ answer' = [answer EXCEPT ![c] = "none"]
      BY <1>1, <1>2, <1>3, <2>1 DEF Dispatch, TypeOK
    <3>. QED
      BY <3>1
  <2>2. CASE asks[c] # "valid"
    <3>1. body' = [body EXCEPT ![p] = "idle"] /\ handler' = [handler EXCEPT ![c] = "refused"]
          /\ \/ answer' = [answer EXCEPT ![c] = "json"]
             \/ answer' = [answer EXCEPT ![c] = "error"]
      BY <1>1, <1>2, <2>2 DEF Dispatch, TypeOK
    <3>2. c # "idle"
      BY <1>2, NoCallAssumption
    <3>. QED
      BY <3>1, <3>2
  <2>. QED
    BY <2>1, <2>2
<1>5. TypeOK'
  BY <1>0, <1>1, <1>2, <1>4 DEF TypeOK
<1>6. \A q \in Procs : \A i \in 1 .. Len(inbox'[q]) :
        \E j \in 1 .. Len(inbox[q]) : inbox'[q][i] = inbox[q][j] /\ j = IF q = p THEN i + 1 ELSE i
  <2> SUFFICES ASSUME NEW q \in Procs, NEW i \in 1 .. Len(inbox'[q])
               PROVE  LET j == IF q = p THEN i + 1 ELSE i
                      IN  j \in 1 .. Len(inbox[q]) /\ inbox'[q][i] = inbox[q][j]
    OBVIOUS
  <2>1. CASE q = p
    BY <1>1, <1>2, <1>4, <2>1 DEF TypeOK
  <2>2. CASE q # p
    BY <1>1, <1>4, <2>2 DEF TypeOK
  <2>. QED
    BY <2>1, <2>2
<1>7. \A q \in Procs : \A i \in 1 .. Len(inbox'[q]) : inbox'[q][i] # c
  <2> SUFFICES ASSUME NEW q \in Procs, NEW i \in 1 .. Len(inbox'[q]), inbox'[q][i] = c
               PROVE  FALSE
    OBVIOUS
  <2>1. PICK j \in 1 .. Len(inbox[q]) :
          inbox'[q][i] = inbox[q][j] /\ j = IF q = p THEN i + 1 ELSE i
    BY <1>6
  <2>2. q = p
    BY <1>3, <2>1 DEF IInv, Queued
  <2>3. j = 1
    BY <1>2, <2>1, <2>2 DEF IInv, NoRepeats
  <2>4. j = i + 1 /\ i \in Nat /\ i # 0
    <3>1. Len(inbox'[p]) \in Nat
      BY <1>1, <1>2, <1>4 DEF TypeOK
    <3>. QED
      BY <2>1, <2>2, <3>1
  <2>. QED
    BY <2>3, <2>4
<1>8. Queued'
  <2> SUFFICES ASSUME NEW q \in Procs, NEW i \in 1 .. Len(inbox'[q])
               PROVE  /\ handler'[inbox'[q][i]] = "none"
                      /\ answer'[inbox'[q][i]] = "none"
                      /\ to[inbox'[q][i]] = q
                      /\ from[inbox'[q][i]] # NoProc
                      /\ up[q]
    BY <1>4 DEF Queued
  <2>1. PICK j \in 1 .. Len(inbox[q]) : inbox'[q][i] = inbox[q][j]
    BY <1>6
  <2>2. inbox'[q][i] # c /\ inbox[q][j] \in Calls
    BY <1>1, <1>7 DEF TypeOK
  <2>. QED
    BY <1>0, <1>1, <1>2, <1>4, <2>1, <2>2 DEF IInv, Queued, TypeOK
<1>9. NoRepeats'
  <2> SUFFICES ASSUME NEW q \in Procs, NEW i \in 1 .. Len(inbox'[q]),
                      NEW j \in 1 .. Len(inbox'[q]), inbox'[q][i] = inbox'[q][j]
               PROVE  i = j
    BY DEF NoRepeats
  <2>1. PICK k \in 1 .. Len(inbox[q]) :
          inbox'[q][i] = inbox[q][k] /\ k = IF q = p THEN i + 1 ELSE i
    BY <1>6
  <2>2. PICK l \in 1 .. Len(inbox[q]) :
          inbox'[q][j] = inbox[q][l] /\ l = IF q = p THEN j + 1 ELSE j
    BY <1>6
  <2>3. k = l
    BY <2>1, <2>2 DEF IInv, NoRepeats
  <2>4. i \in Int /\ j \in Int
    BY <1>1, <1>2, <1>4 DEF TypeOK
  <2>. QED
    BY <2>1, <2>2, <2>3, <2>4
<1>10. Waiting' /\ Alive'
  BY <1>0, <1>1, <1>2, <1>4 DEF IInv, TypeOK, Waiting, Alive
<1>11. Unsent' /\ Answered' /\ TrueMeansAnswered'
  BY <1>0, <1>1, <1>2, <1>3, <1>4 DEF IInv, TypeOK, Unsent, Answered, TrueMeansAnswered
<1>12. Handling'
  <2> SUFFICES ASSUME NEW q \in Procs, NEW d \in Calls, body'[q] = d
               PROVE  /\ handler'[d] = "running" /\ answer'[d] = "none" /\ to[d] = q
                      /\ from[d] # NoProc
    BY <1>4 DEF Handling
  <2>1. CASE q = p
    <3>1. body'[p] = b /\ b = c /\ d = c
      BY <1>0, <1>1, <2>1, NoCallAssumption DEF TypeOK
    <3>. QED
      BY <1>0, <1>1, <1>2, <1>3, <2>1, <3>1 DEF TypeOK
  <2>2. CASE q # p
    <3>1. body[q] = d
      BY <1>0, <1>1, <2>2 DEF TypeOK
    <3>2. d # c
      BY <1>3, <3>1 DEF IInv, Handling
    <3>. QED
      BY <1>0, <1>1, <1>2, <3>1, <3>2 DEF IInv, TypeOK, Handling
  <2>. QED
    BY <2>1, <2>2
<1>. QED
  BY <1>5, <1>8, <1>9, <1>10, <1>11, <1>12 DEF IInv

\* A handler's end answers its call.
LEMMA HandlerReturnsInv ==
  ASSUME IInv, NEW p \in Procs, HandlerReturns(p)
  PROVE  IInv'
<1>. DEFINE c == body[p]
<1>1. TypeOK /\ c \in Calls /\ waits[p] = NoCall
  BY DEF IInv, HandlerReturns
<1>2. handler[c] = "running" /\ answer[c] = "none" /\ to[c] = p /\ from[c] # NoProc
  BY <1>1 DEF IInv, Handling
<1>3. /\ body' = [body EXCEPT ![p] = "idle"]
      /\ handler' = [handler EXCEPT ![c] = "done"]
      /\ answer' = [answer EXCEPT ![c] = "json"]
      /\ UNCHANGED <<up, waits, inbox, from, to, asks, told, output>>
  BY DEF HandlerReturns
<1>4. TypeOK'
  BY <1>1, <1>3 DEF TypeOK
<1>5. Waiting' /\ Alive' /\ Unsent' /\ Answered' /\ TrueMeansAnswered'
  BY <1>1, <1>2, <1>3, NoCallAssumption
  DEF IInv, TypeOK, Waiting, Alive, Unsent, Answered, TrueMeansAnswered
<1>6. Queued' /\ NoRepeats'
  BY <1>1, <1>2, <1>3 DEF IInv, TypeOK, Queued, NoRepeats
<1>7. Handling'
  BY <1>1, <1>2, <1>3, NoCallAssumption DEF IInv, TypeOK, Handling
<1>. QED
  BY <1>4, <1>5, <1>6, <1>7 DEF IInv

\* The end of a process ends the requests it was given, and nobody else's.
LEMMA ProcEndInv ==
  ASSUME IInv, NEW p \in Procs, ProcEnd(p)
  PROVE  IInv'
<1>1. TypeOK
  BY DEF IInv
<1>2. /\ up' = [up EXCEPT ![p] = FALSE] /\ body' = [body EXCEPT ![p] = "idle"]
      /\ waits' = [waits EXCEPT ![p] = NoCall] /\ inbox' = [inbox EXCEPT ![p] = << >>]
      /\ handler' = [c \in Calls |-> IF c \in Lost(p) THEN "dead" ELSE handler[c]]
      /\ answer' = [c \in Calls |-> IF c \in Lost(p) THEN "error" ELSE answer[c]]
      /\ UNCHANGED <<from, to, asks, told, output>>
  BY DEF ProcEnd
<1>3. TypeOK'
  BY <1>1, <1>2 DEF TypeOK
<1>4. inbox'[p] = << >> /\ \A q \in Procs : q # p => inbox'[q] = inbox[q]
  BY <1>1, <1>2 DEF TypeOK
<1>5. Waiting' /\ Alive'
  BY <1>1, <1>2, NoCallAssumption DEF IInv, TypeOK, Waiting, Alive
<1>6. Queued'
  <2> SUFFICES ASSUME NEW q \in Procs, NEW i \in 1 .. Len(inbox'[q])
               PROVE  /\ handler'[inbox'[q][i]] = "none"
                      /\ answer'[inbox'[q][i]] = "none"
                      /\ to[inbox'[q][i]] = q
                      /\ from[inbox'[q][i]] # NoProc
                      /\ up'[q]
    BY <1>2 DEF Queued
  <2>1. q # p
    BY <1>4
  <2>2. inbox'[q] = inbox[q] /\ inbox[q][i] \in Calls /\ inbox[q][i] \notin Lost(p)
    BY <1>1, <1>4, <2>1 DEF IInv, Queued, TypeOK, Lost
  <2>. QED
    BY <1>1, <1>2, <2>1, <2>2 DEF IInv, Queued, TypeOK
<1>7. NoRepeats'
  <2> SUFFICES ASSUME NEW q \in Procs, NEW i \in 1 .. Len(inbox'[q]),
                      NEW j \in 1 .. Len(inbox'[q]), inbox'[q][i] = inbox'[q][j]
               PROVE  i = j
    BY DEF NoRepeats
  <2>1. q # p
    BY <1>4
  <2>. QED
    BY <1>4, <2>1 DEF IInv, NoRepeats
<1>8. Handling'
  BY <1>1, <1>2, NoCallAssumption DEF IInv, TypeOK, Handling, Lost
<1>9. Unsent'
  <2>1. \A c \in Calls : from[c] = NoProc => c \notin Lost(p)
    BY NoProcAssumption DEF IInv, Unsent, Lost
  <2>. QED
    BY <1>1, <1>2, <2>1 DEF IInv, TypeOK, Unsent
<1>10. Answered'
  BY <1>1, <1>2 DEF IInv, TypeOK, Answered, Lost
<1>11. TrueMeansAnswered'
  BY <1>1, <1>2 DEF IInv, TypeOK, Answered, TrueMeansAnswered, Lost
<1>. QED
  BY <1>3, <1>5, <1>6, <1>7, <1>8, <1>9, <1>10, <1>11 DEF IInv

LEMMA NextInv == IInv /\ [Next]_vars => IInv'
<1> SUFFICES ASSUME IInv, [Next]_vars
             PROVE  IInv'
  OBVIOUS
<1>1. ASSUME NEW p \in Procs, EnterUser(p) \/ LeaveUser(p) \/ ProcStart(p)
      PROVE  IInv'
  <2>1. /\ UNCHANGED <<waits, inbox, from, to, asks, handler, answer, told, output>>
        /\ TypeOK /\ "user" \notin Calls /\ "idle" \notin Calls /\ NoCall \notin Calls
    BY <1>1, NoCallAssumption DEF IInv, EnterUser, LeaveUser, ProcStart
  <2>2. TypeOK'
    BY <1>1, <2>1 DEF TypeOK, EnterUser, LeaveUser, ProcStart
  <2>3. Waiting'
    BY <1>1, <2>1 DEF IInv, TypeOK, Waiting, EnterUser, LeaveUser, ProcStart
  <2>4. Alive'
    <3>1. CASE EnterUser(p)
      BY <2>1, <3>1 DEF IInv, TypeOK, Alive, EnterUser
    <3>2. CASE LeaveUser(p)
      BY <2>1, <3>2 DEF IInv, TypeOK, Alive, LeaveUser
    <3>3. CASE ProcStart(p)
      BY <2>1, <3>3 DEF IInv, TypeOK, Alive, ProcStart
    <3>. QED
      BY <1>1, <3>1, <3>2, <3>3
  <2>5. Handling'
    <3>1. \A q \in Procs, c \in Calls : body'[q] = c => body[q] = c
      BY <1>1, <2>1 DEF TypeOK, EnterUser, LeaveUser, ProcStart
    <3>. QED
      BY <2>1, <3>1 DEF IInv, Handling
  <2>6. \A q \in Procs : up[q] => up'[q]
    BY <1>1, <2>1 DEF TypeOK, EnterUser, LeaveUser, ProcStart
  <2>7. Queued'
    BY <2>1, <2>6 DEF IInv, Queued
  <2>8. NoRepeats' /\ Unsent' /\ Answered' /\ TrueMeansAnswered'
    BY <2>1 DEF IInv, NoRepeats, Unsent, Answered, TrueMeansAnswered
  <2>. QED
    BY <2>2, <2>3, <2>4, <2>5, <2>7, <2>8 DEF IInv
<1>2. ASSUME NEW p \in Procs, NEW q \in Peers[p], NEW c \in Calls, NEW r \in Requests,
             Send(p, q, c, r)
      PROVE  IInv'
  <2>1. q \in Procs /\ r \in Kinds
    BY PeersAssumption, RequestsAssumption
  <2>. QED
    BY <1>2, <2>1, SendInv
<1>3. CASE UNCHANGED vars
  BY <1>3 DEF vars, IInv, TypeOK, Waiting, Alive, Queued, NoRepeats, Handling, Unsent,
              Answered, TrueMeansAnswered
<1>. QED
  BY <1>1, <1>2, <1>3, ReturnInv, DispatchInv, HandlerReturnsInv, ProcEndInv DEF Next, Loop

LEMMA Invariance == Spec => []IInv
  BY InitInv, NextInv, PTL DEF Spec

-----------------------------------------------------------------------------
\* Every queue, blocked call and answer stays in its type, for any number of
\* processes that call each other in any pattern.
THEOREM TypeCorrect == Spec => []TypeOK
<1>1. IInv => TypeOK
  BY DEF IInv
<1>. QED
  BY <1>1, Invariance, PTL

\* A success reported by G_DbusClient::call_method is an answer of the server.
THEOREM AnswersAreReal == Spec => []TrueMeansAnswered
<1>1. IInv => TrueMeansAnswered
  BY DEF IInv
<1>. QED
  BY <1>1, Invariance, PTL

\* While the server of a call is itself blocked in a call, only its end can
\* answer: the queue and the handler of a blocked process stand still.
LEMMA BlockedServerIsSilent ==
  ASSUME IInv, [Next]_vars, up' = up,
         NEW p \in Procs, NEW q \in Procs, WaitsFor(p, q), waits[q] # NoCall
  PROVE  answer'[waits[p]] = "none"
<1>. DEFINE c == waits[p]
<1>1. TypeOK /\ c \in Calls /\ answer[c] = "none" /\ to[c] = q /\ from[c] = p /\ from[c] # NoProc
  BY NoProcAssumption DEF IInv, TypeOK, Waiting, WaitsFor
<1>2. body[q] # "idle"
  BY <1>1 DEF IInv, TypeOK, Waiting
<1>3. ASSUME NEW o \in Procs, NEW d \in Procs, NEW e \in Calls, NEW r \in Requests,
             Send(o, d, e, r)
      PROVE  answer'[c] = "none"
  BY <1>1, <1>3 DEF Send, TypeOK
<1>4. ASSUME NEW o \in Procs, Dispatch(o)
      PROVE  answer'[c] = "none"
  <2>1. inbox[o] \in Seq(Calls) /\ inbox[o] # << >> /\ body[o] = "idle"
    BY <1>1, <1>4 DEF Dispatch, TypeOK
  <2>2. Head(inbox[o]) = inbox[o][1] /\ 1 \in 1 .. Len(inbox[o])
    BY <2>1, TailFacts
  <2>3. to[Head(inbox[o])] = o
    BY <2>2 DEF IInv, Queued
  <2>4. Head(inbox[o]) # c
    BY <1>1, <1>2, <2>1, <2>3
  <2>. QED
    BY <1>1, <1>4, <2>4 DEF Dispatch, TypeOK
<1>5. ASSUME NEW o \in Procs, HandlerReturns(o)
      PROVE  answer'[c] = "none"
  <2>1. body[o] # c
    BY <1>1, <1>5 DEF IInv, Handling, HandlerReturns
  <2>. QED
    BY <1>1, <1>5, <2>1 DEF HandlerReturns, TypeOK
<1>6. ASSUME NEW o \in Procs, ProcEnd(o)
      PROVE  FALSE
  BY <1>1, <1>6 DEF ProcEnd, TypeOK
<1>7. ASSUME NEW o \in Procs,
             EnterUser(o) \/ LeaveUser(o) \/ ProcStart(o) \/ Receive(o) \/ Timeout(o)
      PROVE  answer'[c] = "none"
  BY <1>1, <1>7 DEF EnterUser, LeaveUser, ProcStart, Receive, Timeout
<1>8. CASE UNCHANGED vars
  BY <1>1, <1>8 DEF vars
<1>. QED
  BY <1>3, <1>4, <1>5, <1>6, <1>7, <1>8, PeersAssumption DEF Next, Loop

\* Processes that wait for each other, in pairs, in rings of three or each for
\* itself, get no answer from each other: the default timeout or the end of
\* one of them is the only way out of mutual synchronous calls.
THEOREM CyclesNeedTimeouts == Spec => CyclesBlock
<1>1. IInv /\ [Next]_vars
        => [\A p \in Procs : InCycle(p) /\ up' = up => answer'[waits[p]] = "none"]_vars
  <2> SUFFICES ASSUME IInv, [Next]_vars, NEW p \in Procs, InCycle(p), up' = up
               PROVE  answer'[waits[p]] = "none"
    OBVIOUS
  <2>1. PICK q \in Procs : WaitsFor(p, q) /\ waits[q] # NoCall
    BY DEF InCycle, WaitsFor
  <2>. QED
    BY <2>1, BlockedServerIsSilent
<1>. QED
  BY <1>1, Invariance, PTL DEF Spec, CyclesBlock

-----------------------------------------------------------------------------
(* Refinement: every step is a step of the abstract calls, or a stutter.   *)

\* Nothing that RemoteCall speaks of changes.
LEMMA Stutter ==
  ASSUME UNCHANGED <<handler, told, output>>
  PROVE  UNCHANGED Abstract!callVars
  BY DEF Abstract!callVars

LEMMA SendRefines ==
  ASSUME IInv, NEW p \in Procs, NEW q \in Procs, NEW c \in Calls, NEW r \in Kinds,
         Send(p, q, c, r)
  PROVE  [Abstract!CallNext]_(Abstract!callVars)
<1>1. CASE up[q]
  BY <1>1, Stutter DEF Send
<1>2. CASE ~up[q]
  <2>1. handler[c] = "none" /\ handler \in [Calls -> {"none", "running", "refused", "done", "dead"}]
    BY DEF IInv, TypeOK, Unsent, Send
  <2>2. /\ handler' = [d \in Calls |-> IF d \in {c} THEN "dead" ELSE handler[d]]
        /\ UNCHANGED <<told, output>>
    BY <1>2, <2>1 DEF Send
  <2>3. Abstract!Die({c})
    BY <2>1, <2>2 DEF Abstract!Die
  <2>. QED
    BY <2>3 DEF Abstract!CallNext
<1>. QED
  BY <1>1, <1>2

LEMMA ReturnRefines ==
  ASSUME IInv, NEW p \in Procs, Receive(p) \/ Timeout(p)
  PROVE  [Abstract!CallNext]_(Abstract!callVars)
<1>1. PICK c \in Calls : TypeOK /\ c = waits[p] /\ told[c] = "none" /\ ~output[c]
  <2>1. TypeOK /\ waits[p] # NoCall
    BY DEF IInv, Receive, Timeout
  <2>. QED
    BY <2>1 DEF IInv, TypeOK, Waiting
<1>2. handler' = handler
  BY DEF Receive, Timeout
<1>3. CASE answer[c] = "json"
  <2>1. told' = [told EXCEPT ![c] = "true"] /\ output' = [output EXCEPT ![c] = TRUE]
    BY <1>1, <1>3 DEF Receive, Timeout, Return
  <2>2. handler[c] \in {"done", "refused"}
    BY <1>1, <1>3 DEF IInv, Answered
  <2>3. Abstract!Answer(c)
    BY <1>1, <1>2, <2>1, <2>2 DEF TypeOK, Abstract!Answer
  <2>. QED
    BY <1>1, <2>3 DEF Abstract!CallNext
<1>4. CASE answer[c] # "json"
  <2>1. PICK v \in {"true", "false"} :
          told' = [told EXCEPT ![c] = v] /\ output' = [output EXCEPT ![c] = FALSE]
    BY <1>1, <1>4 DEF Receive, Timeout, OnError, Return
  <2>2. Abstract!Fail(c)
    BY <1>1, <1>2, <2>1 DEF TypeOK, Abstract!Fail
  <2>. QED
    BY <1>1, <2>2 DEF Abstract!CallNext
<1>. QED
  BY <1>3, <1>4

LEMMA DispatchRefines ==
  ASSUME IInv, NEW p \in Procs, Dispatch(p)
  PROVE  [Abstract!CallNext]_(Abstract!callVars)
<1>. DEFINE c == Head(inbox[p])
<1>1. TypeOK /\ inbox[p] \in Seq(Calls) /\ inbox[p] # << >>
  BY DEF IInv, Dispatch, TypeOK
<1>2. c \in Calls /\ c = inbox[p][1] /\ 1 \in 1 .. Len(inbox[p])
  BY <1>1, TailFacts
<1>3. handler[c] = "none"
  BY <1>2 DEF IInv, Queued
<1>4. UNCHANGED <<told, output>>
  BY DEF Dispatch
<1>5. CASE asks[c] = "valid"
  <2>1. Abstract!Run(c)
    BY <1>3, <1>4, <1>5 DEF Dispatch, Abstract!Run
  <2>. QED
    BY <1>2, <2>1 DEF Abstract!CallNext
<1>6. CASE asks[c] # "valid"
  <2>1. Abstract!Refuse(c)
    BY <1>3, <1>4, <1>6 DEF Dispatch, Abstract!Refuse
  <2>. QED
    BY <1>2, <2>1 DEF Abstract!CallNext
<1>. QED
  BY <1>5, <1>6

LEMMA HandlerReturnsRefines ==
  ASSUME IInv, NEW p \in Procs, HandlerReturns(p)
  PROVE  [Abstract!CallNext]_(Abstract!callVars)
<1>1. body[p] \in Calls /\ handler[body[p]] = "running"
  BY DEF IInv, Handling, HandlerReturns
<1>2. Abstract!Finish(body[p])
  BY <1>1 DEF HandlerReturns, Abstract!Finish
<1>. QED
  BY <1>1, <1>2 DEF Abstract!CallNext

LEMMA ProcEndRefines ==
  ASSUME IInv, NEW p \in Procs, ProcEnd(p)
  PROVE  [Abstract!CallNext]_(Abstract!callVars)
<1>1. Lost(p) \in SUBSET Calls
  BY DEF Lost
<1>2. \A c \in Lost(p) : handler[c] \in {"none", "running"}
  BY DEF IInv, TypeOK, Answered, Lost
<1>3. Abstract!Die(Lost(p))
  BY <1>2 DEF ProcEnd, Abstract!Die
<1>. QED
  BY <1>1, <1>3 DEF Abstract!CallNext

\* A call over either library is a remote call: the handler runs at most once,
\* also after timeouts and across the end of either process, and a reply is
\* handed out only after it ran to its end or was refused.
THEOREM Refinement == Spec => ImplementsCalls
<1>1. Init => Abstract!CallInit
  BY DEF Init, Abstract!CallInit
<1>2. IInv /\ [Next]_vars => [Abstract!CallNext]_(Abstract!callVars)
  <2> SUFFICES ASSUME IInv, [Next]_vars
               PROVE  [Abstract!CallNext]_(Abstract!callVars)
    OBVIOUS
  <2>1. ASSUME NEW p \in Procs, NEW q \in Peers[p], NEW c \in Calls, NEW r \in Requests,
               Send(p, q, c, r)
        PROVE  [Abstract!CallNext]_(Abstract!callVars)
    <3>1. q \in Procs /\ r \in Kinds
      BY PeersAssumption, RequestsAssumption
    <3>. QED
      BY <2>1, <3>1, SendRefines
  <2>2. ASSUME NEW p \in Procs, EnterUser(p) \/ LeaveUser(p) \/ ProcStart(p)
        PROVE  [Abstract!CallNext]_(Abstract!callVars)
    BY <2>2, Stutter DEF EnterUser, LeaveUser, ProcStart
  <2>3. CASE UNCHANGED vars
    BY <2>3, Stutter DEF vars
  <2>. QED
    BY <2>1, <2>2, <2>3, ReturnRefines, DispatchRefines, HandlerReturnsRefines, ProcEndRefines
    DEF Next, Loop
<1>. QED
  BY <1>1, <1>2, Invariance, PTL DEF Spec, ImplementsCalls, Abstract!CallSpec

-----------------------------------------------------------------------------
(* The servers over libdbus.                                               *)

\* The parts of the type invariant that the proofs need.
Shape ==
    /\ pc \in [Servers -> {"down", "started", "adding", "running"}]
    /\ conn \in [Servers -> {"null", "open", "closed"}]
    /\ initOk \in [Servers -> BOOLEAN]
    /\ DOMAIN lut = Servers
    /\ matched \in [Servers -> SUBSET AllIntfs]
    /\ failed \in [Servers -> SUBSET AllIntfs]
    /\ DOMAIN owner = Names

\* Before init there is nothing.
Fresh ==
    \A p \in Servers : pc[p] \in {"down", "started"} =>
        /\ conn[p] = "null"
        /\ ~initOk[p]
        /\ DOMAIN lut[p] = {}
        /\ matched[p] = {}
        /\ failed[p] = {}

\* What add_interface has failed for is in the registry all the same.
FailedEntered == \A p \in Servers : failed[p] \subseteq DOMAIN lut[p]

ServerInv == Shape /\ Fresh /\ FailedEntered /\ OwnerKept /\ RegistryMatched

-----------------------------------------------------------------------------
LEMMA ServerInit == ServersInit => ServerInv
  BY DEF ServersInit, ServerInv, Shape, Fresh, FailedEntered, OwnerKept, RegistryMatched, Empty

\* Only the claims of the one that leaves change hands.
LEMMA LeaveOthers ==
  ASSUME Shape, NEW x, Leave(x)
  PROVE  /\ DOMAIN owner' = Names
         /\ \A n \in Names : owner[n] # x => owner'[n] = owner[n]
  BY DEF Leave, Shape

\* A name is obtained from nobody, or from one that allows it.
LEMMA ObtainOthers ==
  ASSUME Shape, NEW x, NEW m \in Names, Obtain(x, m) \/ Queue(x, m),
         Obtain(x, m) => owner[m] \in Lenders \cup {NoOwner}
  PROVE  /\ DOMAIN owner' = Names
         /\ \A p \in Servers, n \in Names : owner[n] = p => owner'[n] = p
         /\ Obtain(x, m) => owner'[m] = x
  BY NameAssumption, ForeignAssumption, NoOwnerAssumption
    DEF Obtain, Queue, Shape

\* init either gets the name, or leaves the program without a filter.
LEMMA InitServerKeeps ==
  ASSUME ServerInv, NEW p \in Servers, InitServer(p)
  PROVE  ServerInv'
<1>. DEFINE n == BusName[p]
<1>1. /\ Shape /\ n \in Names /\ pc[p] = "started" /\ conn[p] = "null" /\ ~initOk[p]
      /\ DOMAIN lut[p] = {} /\ matched[p] = {} /\ failed[p] = {}
      /\ pc' = [pc EXCEPT ![p] = "adding"]
  BY NameAssumption, ForeignAssumption, NoOwnerAssumption
    DEF ServerInv, Fresh, InitServer
<1>2. CASE UNCHANGED <<conn, names>> /\ Unregistered
  <2>1. UNCHANGED <<conn, initOk, lut, matched, failed, owner>>
    BY <1>2 DEF Unregistered, names, rules
  <2>. QED
    BY <1>1, <2>1 DEF ServerInv, Shape, Fresh, FailedEntered, OwnerKept, RegistryMatched
<1>3. CASE /\ conn' = [conn EXCEPT ![p] = "open"]
           /\ Unregistered
           /\ UNCHANGED names \/ Queue(p, n)
  <2>1. UNCHANGED <<initOk, lut, matched, failed, owner>>
    BY <1>3 DEF Unregistered, names, rules, Queue
  <2>. QED
    BY <1>1, <1>3, <2>1 DEF ServerInv, Shape, Fresh, FailedEntered, OwnerKept, RegistryMatched
<1>4. CASE /\ conn' = [conn EXCEPT ![p] = "open"]
           /\ Obtainable(n)
           /\ Obtain(p, n)
           /\ initOk' = [initOk EXCEPT ![p] = TRUE]
           /\ lut' = [lut EXCEPT ![p] = [i \in {Intro} |-> IntroTable]]
           /\ AskMatch(p, Intro)
  <2>1. \/ matched' = [matched EXCEPT ![p] = {Intro}] /\ failed' = failed
        \/ failed' = [failed EXCEPT ![p] = {Intro}] /\ matched' = matched
    BY <1>1, <1>4 DEF AskMatch, Match, NoMatch
  <2>2. /\ DOMAIN owner' = Names /\ owner'[n] = p
        /\ \A q \in Servers, o \in Names : owner[o] = q => owner'[o] = q
    BY <1>1, <1>4, ObtainOthers DEF Obtainable
  <2>3. Shape' /\ Fresh'
    BY <1>1, <1>4, <2>1, <2>2 DEF ServerInv, Shape, Fresh, AllIntfs
  <2>4. OwnerKept'
    BY <1>1, <1>4, <2>2, NameAssumption, ForeignAssumption, NoOwnerAssumption
    DEF ServerInv, Shape, OwnerKept
  <2>5. FailedEntered' /\ RegistryMatched'
    BY <1>1, <1>4, <2>1 DEF ServerInv, Shape, FailedEntered, RegistryMatched
  <2>. QED
    BY <2>3, <2>4, <2>5 DEF ServerInv
<1>. QED
  BY <1>2, <1>3, <1>4 DEF InitServer

\* An interface is entered with its first handlers, and only then its match rules
\* are asked for.
LEMMA AddInterfaceKeeps ==
  ASSUME ServerInv, NEW p \in Servers, NEW i \in Intfs, NEW table \in Offers,
         AddInterface(p, i, table)
  PROVE  ServerInv'
<1>1. /\ Shape /\ pc[p] \in {"adding", "running"} /\ UNCHANGED <<pc, conn, initOk, owner>>
      /\ DOMAIN lut' = Servers
      /\ DOMAIN lut'[p] = DOMAIN lut[p] \cup {i}
      /\ \A q \in Servers : q # p => lut'[q] = lut[q]
  BY DEF ServerInv, Shape, AddInterface, Entered, prog, names
<1>2. \/ /\ i \notin DOMAIN lut[p]
         /\ matched' = [matched EXCEPT ![p] = @ \cup {i}] /\ failed' = failed
      \/ /\ i \notin DOMAIN lut[p]
         /\ failed' = [failed EXCEPT ![p] = @ \cup {i}] /\ matched' = matched
      \/ i \in DOMAIN lut[p] /\ matched' = matched /\ failed' = failed
  BY DEF AddInterface, AskMatch, Match, NoMatch, rules
<1>3. Shape'
  BY <1>1, <1>2 DEF Shape, AllIntfs
<1>4. Fresh' /\ OwnerKept'
  BY <1>1, <1>2 DEF ServerInv, Shape, Fresh, OwnerKept
<1>5. FailedEntered'
  BY <1>1, <1>2 DEF ServerInv, Shape, FailedEntered
<1>6. RegistryMatched'
  <2>1. ASSUME NEW q \in Servers, conn[q] = "open"
        PROVE  matched'[q] = DOMAIN lut'[q] \ failed'[q]
    <3>1. matched[q] = DOMAIN lut[q] \ failed[q] /\ failed[q] \subseteq DOMAIN lut[q]
      BY <2>1 DEF ServerInv, RegistryMatched, FailedEntered
    <3>2. CASE q # p
      BY <1>1, <1>2, <3>1, <3>2 DEF Shape
    <3>3. CASE q = p
      BY <1>1, <1>2, <3>1, <3>3 DEF Shape
    <3>. QED
      BY <3>2, <3>3
  <2>. QED
    BY <1>1, <2>1 DEF RegistryMatched
<1>. QED
  BY <1>3, <1>4, <1>5, <1>6 DEF ServerInv

LEMMA EndKeeps ==
  ASSUME ServerInv, NEW p \in Servers, End(p)
  PROVE  ServerInv'
<1>1. /\ Shape /\ pc' = [pc EXCEPT ![p] = "down"] /\ conn' = [conn EXCEPT ![p] = "null"]
      /\ initOk' = [initOk EXCEPT ![p] = FALSE] /\ lut' = [lut EXCEPT ![p] = Empty]
      /\ matched' = [matched EXCEPT ![p] = {}] /\ failed' = [failed EXCEPT ![p] = {}]
      /\ Leave(p)
  BY DEF ServerInv, End
<1>2. /\ DOMAIN owner' = Names
      /\ \A n \in Names : owner[n] # p => owner'[n] = owner[n]
  BY <1>1, LeaveOthers
<1>3. Shape' /\ Fresh'
  BY <1>1, <1>2 DEF ServerInv, Shape, Fresh, Empty
<1>4. OwnerKept'
  BY <1>1, <1>2, NameAssumption, ForeignAssumption, NoOwnerAssumption
    DEF ServerInv, Shape, OwnerKept
<1>5. FailedEntered' /\ RegistryMatched'
  BY <1>1 DEF ServerInv, Shape, FailedEntered, RegistryMatched
<1>. QED
  BY <1>3, <1>4, <1>5 DEF ServerInv

LEMMA ForeignKeeps ==
  ASSUME ServerInv, NEW f \in Foreign,
         ForeignRelease(f) \/ \E n \in Names : ForeignRequest(f, n)
  PROVE  ServerInv'
<1>1. Shape /\ UNCHANGED <<pc, initOk, conn, lut, matched, failed>>
  BY DEF ServerInv, ForeignRelease, ForeignRequest, prog, rules
<1>2. ASSUME ForeignRelease(f)
      PROVE  /\ DOMAIN owner' = Names
             /\ \A p \in Servers, n \in Names : owner[n] = p => owner'[n] = p
  BY <1>1, <1>2, LeaveOthers, NameAssumption, ForeignAssumption, NoOwnerAssumption
    DEF ForeignRelease
<1>3. ASSUME NEW m \in Names, ForeignRequest(f, m)
      PROVE  /\ DOMAIN owner' = Names
             /\ \A p \in Servers, n \in Names : owner[n] = p => owner'[n] = p
  <2>1. CASE Obtain(f, m) /\ owner[m] = NoOwner
    BY <1>1, <2>1, ObtainOthers
  <2>2. CASE UNCHANGED owner
    BY <1>1, <2>2 DEF Shape
  <2>. QED
    BY <1>3, <2>1, <2>2 DEF ForeignRequest, Queue
<1>. QED
  BY <1>1, <1>2, <1>3, NameAssumption, ForeignAssumption, NoOwnerAssumption
    DEF ServerInv, Shape, Fresh, FailedEntered, OwnerKept, RegistryMatched

LEMMA ServerNext ==
  ASSUME ServerInv, [ServersNext]_serverVars PROVE ServerInv'
<1>1. ASSUME NEW p \in Servers, Run(p) \/ ServerStart(p)
      PROVE  ServerInv'
  BY <1>1 DEF Run, ServerStart, names, rules, ServerInv, Shape, Fresh, FailedEntered, OwnerKept, RegistryMatched
<1>2. ASSUME NEW p \in Servers, DispatchMessage(p)
      PROVE  ServerInv'
  BY <1>2 DEF DispatchMessage, prog, names, rules, ServerInv, Shape, Fresh, FailedEntered, OwnerKept, RegistryMatched
<1>3. ASSUME NEW m \in Msgs, NEW i \in AllIntfs, NEW json \in BOOLEAN,
             SendSignal(m, i, json) \/ \E n \in Names : SendCall(m, i, json, n)
      PROVE  ServerInv'
  BY <1>3 DEF SendSignal, SendCall, SendMessage, prog, names, rules,
              ServerInv, Shape, Fresh, FailedEntered, OwnerKept, RegistryMatched
<1>4. CASE BusDown
  BY <1>4 DEF BusDown, prog, ServerInv, Shape, Fresh, FailedEntered, OwnerKept, RegistryMatched
<1>5. CASE BusUp \/ UNCHANGED serverVars
  BY <1>5 DEF BusUp, serverVars, prog, names, rules, ServerInv, Shape, Fresh, FailedEntered, OwnerKept, RegistryMatched
<1>6. ASSUME NEW p \in Servers, ServerEnd(p) \/ LibdbusExit(p)
      PROVE  ServerInv'
  BY <1>6, EndKeeps DEF ServerEnd, LibdbusExit
<1>. QED
  BY <1>1, <1>2, <1>3, <1>4, <1>5, <1>6, InitServerKeeps, AddInterfaceKeeps, ForeignKeeps
  DEF ServersNext

LEMMA ServerInvariance == ServersSpec => []ServerInv
<1>1. ServersInit => ServerInv
  BY ServerInit
<1>2. ServerInv /\ [ServersNext]_serverVars => ServerInv'
  BY ServerNext
<1>. QED
  BY <1>1, <1>2, PTL DEF ServersSpec

-----------------------------------------------------------------------------
\* A DbusServer whose init returned true keeps its name while it is connected:
\* the toolkit never asks for names it would have to give back.
THEOREM OwnersStay == ServersSpec => []OwnerKept
<1>1. ServerInv => OwnerKept
  BY DEF ServerInv
<1>. QED
  BY <1>1, ServerInvariance, PTL

\* However add_interface is used, the match rules are those of the registry, but
\* for the interfaces it has returned false for, which keep none.
THEOREM MatchedAsRegistered == ServersSpec => []RegistryMatched
<1>1. ServerInv => RegistryMatched
  BY DEF ServerInv
<1>. QED
  BY <1>1, ServerInvariance, PTL

\* Merging never replaces a handler: the first one added stays.
THEOREM FirstHandlerStays == ServersSpec => HandlersKept
<1>. DEFINE Kept == \A p \in Servers : \A i \in DOMAIN lut[p], x \in Members :
                lut[p][i][x] # NoHandler /\ pc'[p] # "down"
                    => i \in DOMAIN lut'[p] /\ lut'[p][i][x] = lut[p][i][x]
<1>1. ServerInv /\ [ServersNext]_serverVars => [Kept]_serverVars
  <2> SUFFICES ASSUME ServerInv, [ServersNext]_serverVars, NEW p \in Servers, pc'[p] # "down",
                      NEW i \in DOMAIN lut[p], NEW x \in Members, lut[p][i][x] # NoHandler
               PROVE  i \in DOMAIN lut'[p] /\ lut'[p][i][x] = lut[p][i][x]
    OBVIOUS
  <2>1. Shape /\ pc[p] \in {"adding", "running"}
    BY DEF ServerInv, Shape, Fresh
  <2>2. ASSUME NEW q \in Servers, InitServer(q)
        PROVE  i \in DOMAIN lut'[p] /\ lut'[p][i][x] = lut[p][i][x]
    BY <2>1, <2>2 DEF InitServer, Unregistered, Shape
  <2>3. ASSUME NEW q \in Servers, NEW j \in Intfs, NEW table \in Offers, AddInterface(q, j, table)
        PROVE  i \in DOMAIN lut'[p] /\ lut'[p][i][x] = lut[p][i][x]
    BY <2>1, <2>3 DEF AddInterface, Entered, Shape, Merged
  <2>4. ASSUME NEW q \in Servers, End(q)
        PROVE  i \in DOMAIN lut'[p] /\ lut'[p][i][x] = lut[p][i][x]
    BY <2>1, <2>4 DEF End, Shape
  <2>5. CASE UNCHANGED lut
    BY <2>5
  <2>. QED
    BY <2>2, <2>3, <2>4, <2>5
    DEF ServersNext, Run, DispatchMessage, ServerStart, ServerEnd, LibdbusExit, SendSignal, SendCall, SendMessage,
        ForeignRelease, ForeignRequest, BusDown, BusUp, serverVars
<1>. QED
  BY <1>1, ServerInvariance, PTL DEF ServersSpec, HandlersKept
=============================================================================
