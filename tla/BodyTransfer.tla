---------------------------- MODULE BodyTransfer -----------------------------
(***************************************************************************)
(* One body on its way from a content provider to a receiver, over a       *)
(* connection of httplib (src/src/lib/httplib.h): write_content,           *)
(* write_content_without_length or write_content_chunked at one end,       *)
(* read_content at the other, and the parser of multipart forms where      *)
(* there is one.  The two ends run concurrently; the connection holds      *)
(* Window tokens.                                                          *)
(*                                                                         *)
(* A body is a record:                                                     *)
(*   framing   "length", "chunked" or "stream" (ends with the connection)  *)
(*   content   the provider's tokens     from, end  what is to be written  *)
(*   declared  the Content-Length, or NoLength without one                 *)
(*   items     the form it is, or NoForm if it is none                     *)
(*   server    the server writes it: a stop of the server may interfere    *)
(***************************************************************************)
EXTENDS MultipartFormData

CONSTANTS Bodies, NoForm, NoLength, Window

ASSUME NoLengthAssumption == NoLength \notin Nat
ASSUME WindowAssumption == Window \in Nat \ {0}
ASSUME BodiesAssumption ==
    \A b \in Bodies :
        /\ b.framing \in {"length", "chunked", "stream"}
        /\ b.content \in Seq(Range(b.content))
        /\ b.end \in 0 .. Len(b.content) /\ b.from \in 0 .. b.end
        /\ b.framing = "length" => /\ b.declared \in Nat \ {0}
                                   /\ b.declared >= b.end - b.from
ASSUME FormsAssumption ==
    \A b \in Bodies : b.items # NoForm =>
        b.from = 0 /\ IsForm(b.items) /\ IsPrefix(b.content, Serialize(b.items))

VARIABLES
    body,           \* the body of this transfer
    offset,         \* how much of the content has been written
    dataAvailable,  \* data_available
    shuttingDown,   \* is_shutting_down()
    sent,           \* "writing", or what the write returned: "true", "false"
    wire,           \* the tokens of the body under way
    sizes,          \* the lines with the sizes of chunks under way
    eof,            \* the writer's end of the connection is closed
    chunk,          \* what is left to read of the chunk, or of the length
    got,            \* what a plain receiver has got
    parser,         \* the parser of a form
    cut,            \* history: the first piece missed the parser's first delimiter
    verdict         \* "reading", or what read_content_core returned

writerVars == <<offset, dataAvailable, shuttingDown, sent, eof>>
readerVars == <<chunk, got, parser, cut, verdict>>
vars == <<body, wire, sizes, writerVars, readerVars>>

Init ==
    /\ body \in Bodies
    /\ offset = body.from
    /\ dataAvailable = TRUE
    /\ shuttingDown = FALSE
    /\ sent = "writing"
    /\ wire = <<>> /\ sizes = <<>>
    /\ eof = FALSE
    /\ chunk = IF body.framing = "length" THEN body.declared ELSE 0
    /\ got = <<>>
    /\ parser = FreshParser
    /\ cut = FALSE
    /\ verdict = "reading"

-----------------------------------------------------------------------------
(* The writer.                                                             *)

HasRoom  == Len(wire) < Window
Writable == HasRoom /\ verdict # "false"

\* The condition of the loop that calls the provider.
Continues ==
    /\ sent = "writing" /\ ~shuttingDown
    /\ IF body.framing = "length" THEN offset < body.end ELSE dataAvailable

\* The provider writes the next n tokens to the sink, one chunk if chunked.
Provide(n) ==
    /\ Continues /\ Writable
    /\ offset + n <= body.end /\ Len(wire) + n <= Window
    /\ wire' = wire \o SubSeq(body.content, offset + 1, offset + n)
    /\ sizes' = IF body.framing = "chunked" THEN Append(sizes, n) ELSE sizes
    /\ offset' = offset + n
    /\ UNCHANGED <<body, dataAvailable, shuttingDown, sent, eof, readerVars>>

\* Only the first k tokens of a chunk of n go out: its size is there already.
ProvidePart(n, k) ==
    /\ Continues /\ Writable /\ body.framing = "chunked"
    /\ k < n /\ offset + n <= body.end /\ Len(wire) + k <= Window
    /\ wire' = wire \o SubSeq(body.content, offset + 1, offset + k)
    /\ sizes' = Append(sizes, n)
    /\ offset' = offset + k
    /\ sent' = "false"
    /\ UNCHANGED <<body, dataAvailable, shuttingDown, eof, readerVars>>

\* It writes nothing, which a chunked write takes for the end of the data.
ProvideNothing ==
    /\ Continues /\ Writable /\ body.framing = "chunked"
    /\ dataAvailable' = FALSE
    /\ UNCHANGED <<body, wire, sizes, offset, shuttingDown, sent, eof, readerVars>>

\* It has written everything and says that it is done.
ProvideDone ==
    /\ Continues /\ Writable
    /\ body.framing # "length" /\ offset = body.end
    /\ dataAvailable' = FALSE
    /\ sizes' = IF body.framing = "chunked" THEN Append(sizes, 0) ELSE sizes
    /\ UNCHANGED <<body, wire, offset, shuttingDown, sent, eof, readerVars>>

\* The provider returns false; or, in WriteTimeout, the connection does not
\* take any more, because the other end is gone or too slow.
WriteFails ==
    /\ Continues
    /\ sent' = "false"
    /\ UNCHANGED <<body, wire, sizes, offset, dataAvailable, shuttingDown, eof, readerVars>>

WriteTimeout == ~Writable /\ WriteFails

WriteReturns ==
    /\ sent = "writing" /\ ~Continues
    /\ sent' = "true"
    /\ UNCHANGED <<body, wire, sizes, offset, dataAvailable, shuttingDown, eof, readerVars>>

\* Server::stop
ShutDown ==
    /\ body.server /\ ~shuttingDown
    /\ shuttingDown' = TRUE
    /\ UNCHANGED <<body, wire, sizes, offset, dataAvailable, sent, eof, readerVars>>

\* The writer closes the connection: a failed one at once, a kept one when its
\* keep-alive time is over, the server stops or the other end is gone.
CloseWriter ==
    /\ sent # "writing" /\ ~eof
    /\ eof' = TRUE
    /\ UNCHANGED <<body, wire, sizes, offset, dataAvailable, shuttingDown, sent, readerVars>>

-----------------------------------------------------------------------------
(* The reader.                                                             *)

\* The end of read_content_core: a form must have come to its end.
Conclude(result) ==
    verdict' = IF result /\ (body.items = NoForm \/ parser'.valid) THEN "true" ELSE "false"

\* One read of n tokens, and the call of the receiver with them.
Take(n) ==
    LET piece  == SubSeq(wire, 1, n)
        parsed == Parse(parser, piece)
    IN  /\ wire' = SubSeq(wire, n + 1, Len(wire))
        /\ IF body.items = NoForm
           THEN got' = got \o piece /\ UNCHANGED <<parser, cut>>
           ELSE /\ parser' = parsed
                /\ cut' = (cut \/ (parser = FreshParser /\ parsed.state = 0))
                /\ UNCHANGED got

\* read_content_with_length, by itself and for the content of a chunk.
ReadPiece(n) ==
    /\ verdict = "reading" /\ n <= Len(wire)
    /\ body.framing # "stream" => n <= chunk
    /\ Take(n)
    /\ chunk' = IF body.framing = "stream" THEN chunk ELSE chunk - n
    /\ IF parser'.run = "refuse" THEN verdict' = "false"
       ELSE IF body.framing = "length" /\ n = chunk THEN Conclude(TRUE)
       ELSE UNCHANGED verdict
    /\ UNCHANGED <<body, sizes, writerVars>>

\* The receiver returns false.
ReceiverRefuses ==
    /\ verdict = "reading" /\ wire # <<>>
    /\ verdict' = "false"
    /\ UNCHANGED <<body, wire, sizes, writerVars, chunk, got, parser, cut>>

\* read_content_chunked: the line before a chunk; size 0 ends the body.
ReadSize ==
    /\ verdict = "reading" /\ body.framing = "chunked"
    /\ chunk = 0 /\ sizes # <<>>
    /\ sizes' = Tail(sizes)
    /\ chunk' = Head(sizes)
    /\ IF Head(sizes) = 0 THEN UNCHANGED parser /\ Conclude(TRUE)
       ELSE UNCHANGED <<parser, verdict>>
    /\ UNCHANGED <<body, wire, writerVars, got, cut>>

\* Mutant: the end of the stream ends any body well.
ReadFailsUnnoticed ==
    /\ verdict = "reading" /\ wire = <<>>
    /\ body.framing = "chunked" /\ chunk = 0 => sizes = <<>>
    /\ UNCHANGED parser /\ Conclude(body.framing # "length")
    /\ UNCHANGED <<body, wire, sizes, writerVars, chunk, got, cut>>

\* Mutant: a chunked reader waits for the next line for as long as it takes.
ReadFailsNever ==
    /\ verdict = "reading" /\ wire = <<>>
    /\ body.framing # "chunked"
    /\ UNCHANGED parser /\ Conclude(body.framing = "stream")
    /\ UNCHANGED <<body, wire, sizes, writerVars, chunk, got, cut>>

\* The read returns nothing: the end of the stream, or the read timeout.  It
\* is how read_content_without_length knows the end of its body.
ReadFails ==
    /\ verdict = "reading" /\ wire = <<>>
    /\ body.framing = "chunked" /\ chunk = 0 => sizes = <<>>
    /\ UNCHANGED parser /\ Conclude(body.framing = "stream")
    /\ UNCHANGED <<body, wire, sizes, writerVars, chunk, got, cut>>

Write == (\E n \in 1 .. Window : Provide(n)) \/ ProvideDone \/ WriteReturns
Read  == (\E n \in 1 .. Window : ReadPiece(n)) \/ ReadSize

Next ==
    \/ Write \/ ProvideNothing \/ WriteFails \/ ShutDown \/ CloseWriter
    \/ \E k \in 0 .. Window, n \in 1 .. Len(body.content) : ProvidePart(n, k)
    \/ Read \/ ReadFails \/ ReceiverRefuses

\* Both threads go on, and the timeouts of reads and writes come to pass.  The
\* provider goes on too, but nothing makes it fail, or stop early.
Fairness == WF_vars(Write) /\ WF_vars(WriteTimeout) /\ WF_vars(Read) /\ WF_vars(ReadFails)

Spec == Init /\ [][Next]_vars /\ Fairness

-----------------------------------------------------------------------------
\* A body that the reader takes for whole is the whole one: what was to be
\* written, if it goes by length or chunks, whatever pieces it came in and
\* whenever the writer gave up.  Excepted are bodies that end with the stream,
\* which a reader cannot tell from broken ones.
WholeOrRefused ==
    verdict = "true" /\ body.framing # "stream" =>
        /\ offset = body.end
        /\ body.items = NoForm => got = SubSeq(body.content, body.from + 1, body.end)

\* A content reader, which sees the parts of a form while they come, is never
\* given a token that is not the next one of the form, and a form that is taken
\* has exactly the items the client put in.  Excepted are forms of whose first
\* delimiter the first read brought only a part, which the parser drops.
PartsInOrder ==
    body.items # NoForm /\ ~cut /\ verdict # "false" =>
        LET last == Len(parser.parts) IN
        /\ last <= Len(body.items)
        /\ \A i \in 1 .. last :
             /\ parser.parts[i].name = body.items[i].name
             /\ parser.parts[i].type = body.items[i].type
             /\ IF i < last THEN parser.parts[i].content = body.items[i].content
                ELSE IsPrefix(parser.parts[i].content, body.items[i].content)
        /\ verdict = "true" => parser.parts = body.items

\* Both ends come to a result, whichever of them breaks off.
TransferEnds == <>(sent # "writing" /\ verdict # "reading")
=============================================================================
