---------------------------- MODULE ClientRequests ----------------------------
(***************************************************************************)
(* The requests that the methods of httplib's ClientImpl make              *)
(* (src/src/lib/httplib.h): Get, Head, Post, Put, Patch, Delete, Options   *)
(* with all that can be given to them, the headers that write_request adds *)
(* and the body it writes, what a redirect makes of them, and what the     *)
(* server's read_content takes for the body.                               *)
(*                                                                         *)
(* A call is a record [method, gives, size]; gives is                      *)
(*   "nothing", "text"       a body of size bytes                          *)
(*   "params"                size parameters (HttpRequest's "form")        *)
(*   "items"                 size items of a multipart form                *)
(*   "provider", "stream"    a content provider with, without a length     *)
(*   "parts"                 a multipart form with items of providers      *)
(***************************************************************************)
EXTENDS HttpRequest

CONSTANT NoLength   \* no Content-Length header

\* Request: text is the size of body, provider says whether content_provider_
\* is set and chunked, size is content_length_; then what the headers and the
\* target say of the content.
Request(method) ==
    [method |-> method, text |-> 0, provider |-> "none", size |-> 0,
     type |-> "none", length |-> NoLength, chunked |-> FALSE, query |-> 0]

\* Get: the parameters go to the target.
Get(gives, size) ==
    [Request("GET") EXCEPT !.query = IF gives = "params" THEN size ELSE 0]

HeadOf  == Request("HEAD")
Options == Request("OPTIONS")

\* send_with_content_provider, as it is built here: without compression.
WithContent(r, gives, size, type) ==
    LET typed == [r EXCEPT !.type = type]
    IN  CASE gives = "provider" -> [typed EXCEPT !.provider = "length", !.size = size]
          [] gives = "stream" -> [typed EXCEPT !.provider = "chunks", !.chunked = TRUE]
          [] OTHER -> [typed EXCEPT !.text = size]

\* What Post and Put have in common: parameters become a text, and so do the
\* items of a form, which has its closing delimiter even without any.
Submitted(r, gives, size) ==
    CASE gives = "nothing" -> WithContent(r, "text", 0, "none")
      [] gives = "params"  -> WithContent(r, "text", size, "form")
      [] gives = "items"   -> WithContent(r, "text", size + 1, "multipart")
      [] gives = "parts"   -> WithContent(r, "stream", size, "multipart")
      [] OTHER -> WithContent(r, gives, size, "plain")

Post(gives, size) == Submitted(Request("POST"), gives, size)
Put(gives, size)  == Submitted(Request("PUT"), gives, size)

\* Patch takes no parameters and no forms.
Patch(gives, size) ==
    IF gives = "nothing" THEN WithContent(Request("PATCH"), "text", 0, "none")
    ELSE WithContent(Request("PATCH"), gives, size, "plain")

\* Delete takes a text only, and sends without send_with_content_provider.
Delete(gives, size) ==
    IF gives = "nothing" THEN Request("DELETE")
    ELSE [Request("DELETE") EXCEPT !.text = size, !.type = "plain"]

Made(call) ==
    CASE call.method = "GET"     -> Get(call.gives, call.size)
      [] call.method = "HEAD"    -> HeadOf
      [] call.method = "OPTIONS" -> Options
      [] call.method = "POST"    -> Post(call.gives, call.size)
      [] call.method = "PUT"     -> Put(call.gives, call.size)
      [] call.method = "PATCH"   -> Patch(call.gives, call.size)
      [] call.method = "DELETE"  -> Delete(call.gives, call.size)

\* The calls that the class has an overload for.
Calls(sizes) ==
    [method : {"GET"}, gives : {"nothing", "params"}, size : sizes]
    \cup [method : {"HEAD", "OPTIONS"}, gives : {"nothing"}, size : {0}]
    \cup [method : {"POST", "PUT"}, size : sizes, gives :
            {"nothing", "text", "params", "items", "provider", "stream", "parts"}]
    \cup [method : {"PATCH"}, size : sizes, gives : {"nothing", "text", "provider", "stream"}]
    \cup [method : {"DELETE"}, gives : {"nothing", "text"}, size : sizes]

\* Mutant: no request without content has a length.
FramedEmptyless(r) ==
    IF r.text > 0 THEN
        [r EXCEPT !.length = IF @ = NoLength THEN r.text ELSE @,
                  !.type = IF @ = "none" THEN "plain" ELSE @]
    ELSE IF r.provider = "length" THEN
        [r EXCEPT !.length = IF @ = NoLength THEN r.size ELSE @]
    ELSE r

\* The headers that write_request adds for the content.
Framed(r) ==
    IF r.text > 0 THEN
        [r EXCEPT !.length = IF @ = NoLength THEN r.text ELSE @,
                  !.type = IF @ = "none" THEN "plain" ELSE @]
    ELSE IF r.provider = "length" THEN
        [r EXCEPT !.length = IF @ = NoLength THEN r.size ELSE @]
    ELSE IF r.provider = "none" /\ r.method \in {"POST", "PUT", "PATCH"} THEN
        [r EXCEPT !.length = 0]
    ELSE r

Bytes(n) == [as |-> "bytes", n |-> n]
Chunks   == [as |-> "chunks", n |-> 0]
Rest     == [as |-> "rest", n |-> 0]

\* The body that write_request writes: the text or, without one, what
\* write_content_with_provider writes, nothing if there is no provider.
Body(r) ==
    IF r.text > 0 THEN Bytes(r.text)
    ELSE IF r.provider = "chunks" THEN Chunks
    ELSE Bytes(r.size)

\* A redirect with this status makes a GET of what is none, without its text
\* and its headers, but with its provider.
RedirectedBy(r, status) ==
    IF status = 303 /\ r.method \notin {"GET", "HEAD"}
    THEN [r EXCEPT !.method = "GET", !.text = 0,
                   !.type = "none", !.length = NoLength, !.chunked = FALSE]
    ELSE r

\* What the server's routing and read_content take for the body of a request
\* with this head, "rest" being all that comes until the connection ends.
Taken(r) ==
    FirstOf(<<
      <<~ExpectContent(r), Bytes(0)>>,
      <<r.method = "DELETE" /\ r.length = NoLength, Bytes(0)>>,
      <<r.chunked, Chunks>>,
      <<r.length = NoLength, Rest>>,
      <<TRUE, Bytes(r.length)>> >>)

Agrees(r) == Taken(Framed(r)) = Body(r)

-----------------------------------------------------------------------------
\* Whichever method of the client is called and with whatever content, the
\* server takes exactly the body that the client writes, so that the next
\* request on the connection begins where it should.  So it is after one and
\* two redirects, except for contents of providers after a See Other, which
\* are written behind a GET that announces them for nothing or not at all.
CallFramed(call) ==
    LET r == Made(call)
        kept(status) == r.provider = "none" \/ status # 303
    IN  /\ Agrees(r)
        /\ \A s1, s2 \in {301, 302, 303, 307, 308} :
              kept(s1) /\ kept(s2) =>
                 /\ Agrees(RedirectedBy(r, s1))
                 /\ Agrees(RedirectedBy(RedirectedBy(r, s1), s2))
=============================================================================
