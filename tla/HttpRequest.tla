----------------------------- MODULE HttpRequest -----------------------------
(***************************************************************************)
(* What httplib's server does with one request (src/src/lib/httplib.h,     *)
(* Server::process_request and what it calls), up to its answer: which     *)
(* early return takes it, which handler runs, and how much of the          *)
(* request's body has been taken off the connection by then.               *)
(*                                                                         *)
(* A request is a record:                                                  *)
(*   line    "ok", "bad" (not a request line, or headers cut off), "long"  *)
(*   method  its method            path  what the handlers' patterns see   *)
(*   body    "none", "length" (Content-Length) or "chunked"                *)
(*   type    "plain", "form", "multipart", "unbounded" (multipart without  *)
(*           boundary), "malformed" (multipart with broken parts) or       *)
(*           "encoded" (a Content-Encoding this build cannot undo)         *)
(*   size    "fits", "tooLong" (over the payload limit), "longForm" (over  *)
(*           the limit of form bodies)                                     *)
(*   range   "none", "within", "beyond" (not satisfiable), "bad"           *)
(*   expect  Expect: 100-continue    close  Connection: close              *)
(* A handler is a record [method, pattern, reader, does]: reader says that *)
(* it takes a content reader, does is "answers", "redirects", "throws" or, *)
(* for a content reader it never calls, "ignores".                         *)
(***************************************************************************)
EXTENDS Naturals, Sequences, FiniteSetsExt

RequestRecords ==
    [line : {"ok", "bad", "long"}, method : STRING, path : STRING,
     body : {"none", "length", "chunked"},
     type : {"plain", "form", "multipart", "unbounded", "malformed", "encoded"},
     size : {"fits", "tooLong", "longForm"},
     range : {"none", "within", "beyond", "bad"},
     expect : BOOLEAN, close : BOOLEAN]

\* The result of the first rule <<condition, result>> that applies.
FirstOf(rules) == rules[Min({i \in DOMAIN rules : rules[i][1]})][2]

\* How much of the body is off the connection if nobody reads it.
Untouched(r) == IF r.body = "none" THEN "whole" ELSE "none"

\* Server::Get, Post, Put, Patch, Delete, Options: one more handler, last.
Register(handlers, method, pattern, reader, does) ==
    Append(handlers, [method |-> method, pattern |-> pattern,
                      reader |-> reader, does |-> does])

\* dispatch_request, dispatch_request_for_content_reader: what the first
\* matching handler of the method's table does, "nothing" without one.  HEAD
\* is looked up among the GET handlers.
Dispatch(handlers, r, reader) ==
    LET method == IF r.method = "HEAD" THEN "GET" ELSE r.method
        found  == {i \in DOMAIN handlers :
                      /\ handlers[i].method = method
                      /\ handlers[i].pattern = r.path
                      /\ handlers[i].reader = reader}
    IN  IF found = {} THEN "nothing" ELSE handlers[Min(found)].does

ExpectContent(r) == r.method \in {"POST", "PUT", "PATCH", "PRI", "DELETE"}

Content(status, read) == [status |-> status, read |-> read]

\* read_content: the status it answers with, 200 if it got the content, and
\* how much of the body it has taken off the connection.  arrives says that
\* the whole body comes in before the read timeout and the end of the stream.
\* A DELETE without Content-Length is not read, whatever its framing; a body
\* with neither length nor chunks ends with the stream, or with the timeout.
ReadContent(r, arrives) ==
    FirstOf(<<
      <<r.type = "unbounded", Content(400, "none")>>,
      <<r.method = "DELETE" /\ r.body # "length", Content(200, Untouched(r))>>,
      <<r.type = "encoded", Content(415, "none")>>,
      <<r.body = "none", Content(200, "whole")>>,
      <<r.body = "length" /\ r.size = "tooLong",
           Content(413, IF arrives THEN "whole" ELSE "part")>>,
      <<~arrives, Content(400, "part")>>,
      <<r.type = "malformed", Content(400, "part")>>,
      <<TRUE, Content(200, "whole")>> >>)

\* Server::read_content, which has the body read for a handler and looks at the
\* size of a form.
ReadForHandler(r, arrives) ==
    LET content == ReadContent(r, arrives)
    IN  IF content = Content(200, "whole") /\ r.type = "form" /\ r.size = "longForm"
        THEN Content(413, "whole") ELSE content

Outcome(status, read, ran) == [status |-> status, read |-> read, ran |-> ran]

\* The outcome of a handler that has run; read is what it was given.
Handled(does, status, read) ==
    Outcome(CASE does = "throws" -> 500
              [] does = "redirects" -> 303
              [] OTHER -> status, read, TRUE)

\* routing: files, then the handlers with a content reader, then the
\* handlers that get the body read for them.
Routing(handlers, files, r, arrives) ==
    LET content == ReadContent(r, arrives)
        given   == ReadForHandler(r, arrives)
        eager   == Dispatch(handlers, r, TRUE)
        plain   == Dispatch(handlers, r, FALSE)
        read    == IF ExpectContent(r) THEN given.read ELSE Untouched(r)
    IN  FirstOf(<<
          <<r.method \in {"GET", "HEAD"} /\ r.path \in files,
               Handled("answers", 200, Untouched(r))>>,
          <<ExpectContent(r) /\ eager \in {"ignores", "throws"},
               Handled(eager, 200, Untouched(r))>>,
          <<ExpectContent(r) /\ eager = "answers",
               Handled(eager, content.status, content.read)>>,
          <<ExpectContent(r) /\ given.status # 200,
               Outcome(given.status, given.read, FALSE)>>,
          <<r.method \in {"CONNECT", "TRACE", "PRI"}, Outcome(400, read, FALSE)>>,
          <<plain = "nothing", Outcome(404, read, FALSE)>>,
          <<TRUE, Handled(plain, 200, read)>> >>)

\* process_request: the early returns for a line or headers that cannot be
\* read and a Range header that cannot be parsed, the answer of the
\* Expect: 100-continue handler (expected; 100 without a handler), and for a
\* routed request the check of its ranges against the content.
ProcessRequest(handlers, files, expected, r, arrives) ==
    LET routed == Routing(handlers, files, r, arrives)
    IN  FirstOf(<<
          <<r.line = "long", Outcome(414, Untouched(r), FALSE)>>,
          <<r.line = "bad", Outcome(400, "none", FALSE)>>,
          <<r.range = "bad", Outcome(416, Untouched(r), FALSE)>>,
          <<r.expect /\ expected \notin {100, 417}, Outcome(expected, Untouched(r), FALSE)>>,
          <<routed.ran /\ routed.status = 200 /\ r.range = "beyond",
               [routed EXCEPT !.status = 416]>>,
          <<routed.ran /\ routed.status = 200 /\ r.range = "within",
               [routed EXCEPT !.status = 206]>>,
          <<TRUE, routed>> >>)

\* The responses process_request writes: a status of 417 is written like an
\* interim response, and the request is served all the same.
Responses(handlers, files, expected, r, arrives) ==
    LET last == ProcessRequest(handlers, files, expected, r, arrives)
        asks == r.expect /\ r.line = "ok" /\ r.range # "bad"
    IN  IF asks /\ expected \in {100, 417} THEN <<expected, last.status>>
                                           ELSE <<last.status>>
=============================================================================
