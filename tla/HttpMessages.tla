---------------------------- MODULE HttpMessages -----------------------------
(***************************************************************************)
(* The messages of httplib: a body on its way (BodyTransfer) and, in       *)
(* behaviours of their own, one question each to the functions on ranges,  *)
(* paths, requests and parameters, which keep no state.                    *)
(***************************************************************************)
EXTENDS BodyTransfer, PathParams, Ranges, QueryText

C == INSTANCE ClientRequests

CONSTANTS
    RangeQuestions,   \* [of, header, kind, status, len]: a Range header, and the
                      \* content and the status of a handler
    PathQuestions,    \* [of, pattern, path]
    CallQuestions,    \* [of, call]: a call of a method of ClientImpl
    ParamsQuestions   \* [of, params]

NoQuestion == [of |-> "none"]
Questions  == RangeQuestions \cup PathQuestions \cup CallQuestions \cup ParamsQuestions

ASSUME RangeQuestionsAssumption ==
    \A q \in RangeQuestions :
        /\ q.of = "ranges" /\ q.len \in Nat
        /\ q.kind \in Contents /\ q.status \in Statuses
        /\ q.header \in Seq((Nat \cup {Missing}) \X (Nat \cup {Missing}))
ASSUME PathQuestionsAssumption ==
    \A q \in PathQuestions :
        q.of = "path" /\ q.pattern \in Seq(ToSet(q.pattern)) /\ q.path \in Seq(ToSet(q.path))
ASSUME CallQuestionsAssumption ==
    \A q \in CallQuestions : q.of = "call" /\ q.call \in C!Calls(Nat)
ASSUME ParamsQuestionsAssumption ==
    \A q \in ParamsQuestions :
        q.of = "params" /\ q.params \in Seq(Seq(Chars) \X Seq(Chars))

VARIABLE question   \* what a function is asked in this behaviour, or NoQuestion

MessagesInit == Init /\ question \in Questions \cup {NoQuestion}

MessagesNext == question = NoQuestion /\ Next /\ UNCHANGED question

\* Fairness, for the behaviours with a transfer.
MessagesFairness ==
    /\ WF_vars(question = NoQuestion /\ Write)
    /\ WF_vars(question = NoQuestion /\ WriteTimeout)
    /\ WF_vars(question = NoQuestion /\ Read)
    /\ WF_vars(question = NoQuestion /\ ReadFails)

MessagesSpec ==
    MessagesInit /\ [][MessagesNext]_<<vars, question>> /\ MessagesFairness

-----------------------------------------------------------------------------
\* Whatever Range header a request has and whatever status its handler sets, an
\* answer declares as many bytes as it writes, they are those its status means,
\* and the assertions about ranges hold; RangesServed says for which providers
\* this is not so.
AcceptedRangesServed ==
    question.of = "ranges" =>
        RangesServed(question.header, question.kind, question.status, question.len)

\* A handler with path parameters runs for the paths that are its pattern
\* filled in, and it is given what was filled in.
CapturesExact ==
    question.of = "path" => CapturesFill(question.pattern, question.path)

\* The server takes for the body of a request what the client writes of it.
CallsFramed == question.of = "call" => C!CallFramed(question.call)

\* The server gets the parameters that the client was given.
QuerySurvives == question.of = "params" => ParamsSurvive(question.params)

\* TransferEnds, for the behaviours with a transfer.
TransfersEnd == question = NoQuestion => TransferEnds
=============================================================================
