-------------------------- MODULE MultipartFormData --------------------------
(***************************************************************************)
(* httplib's multipart/form-data bodies (src/src/lib/httplib.h): how the   *)
(* client writes a form and how the server's MultipartFormDataParser takes *)
(* it apart again, piece by piece as the reads deliver it.                 *)
(*                                                                         *)
(* A body is a sequence of tokens: CRLF, Dashes ("--") and Boundary, and   *)
(* records [is, value]: the header lines, where is says what the line      *)
(* gives ("name", "type", "other") or that it is "broken" (a disposition   *)
(* without a name, a file name it cannot decode), and content ("data").    *)
(* The tokens of the delimiters may stand in contents too.  A read may end *)
(* between any two tokens.                                                 *)
(***************************************************************************)
EXTENDS Naturals, Sequences, FiniteSetsExt, SequencesExt

CONSTANTS CRLF, Dashes, Boundary,
          NoType        \* an item without a content type

ASSUME TokensAssumption == CRLF # Dashes /\ CRLF # Boundary /\ Dashes # Boundary

DashBoundaryCrlf == <<Dashes, Boundary, CRLF>>
CrlfDashBoundary == <<CRLF, Dashes, Boundary>>

\* buf_find: where s first stands in buf, counted from 0, or buf's length.
Find(buf, s) ==
    LET at == {i \in 0 .. Len(buf) - Len(s) : SubSeq(buf, i + 1, i + Len(s)) = s}
    IN  IF at = {} THEN Len(buf) ELSE Min(at)

-----------------------------------------------------------------------------
(* The writer: an item is a record [name, type, content].                  *)

Line(is, value) == [is |-> is, value |-> value]

\* serialize_multipart_formdata_item_begin, ..._item_end, ..._finish
ItemBegin(item) ==
    <<Dashes, Boundary, CRLF, Line("name", item.name), CRLF>>
    \o (IF item.type = NoType THEN <<>> ELSE <<Line("type", item.type), CRLF>>)
    \o <<CRLF>>
ItemEnd == <<CRLF>>
Finish  == <<Dashes, Boundary, Dashes, CRLF>>

\* serialize_multipart_formdata; get_multipart_content_provider writes the
\* same tokens, item by item.
Serialize(items) ==
    FlattenSeq([i \in DOMAIN items |-> ItemBegin(items[i]) \o items[i].content \o ItemEnd])
    \o Finish

\* What the client writes as a form: header lines are no delimiters, and no
\* content has the delimiter in it, since the boundary is made of random
\* characters (a caller who gives one of his own has to see to that).
IsForm(items) ==
    /\ items \in Seq(Range(items))
    /\ \A item \in Range(items) :
         /\ item = [name |-> item.name, type |-> item.type, content |-> item.content]
         /\ item.content \in Seq(Range(item.content))
         /\ Find(item.content, CrlfDashBoundary) = Len(item.content)
         /\ {Line("name", item.name), Line("type", item.type)}
              \cap {CRLF, Dashes, Boundary} = {}

-----------------------------------------------------------------------------
(* The parser: buf is what it keeps of the pieces, state its place in the  *)
(* grammar, valid whether it has met the end of the form, file the headers *)
(* of the entry it is in, parts what it has handed to the receivers, and   *)
(* run whether parse goes on, returns true ("wait") or false ("refuse").   *)

NoFile == [name |-> NoType, type |-> NoType]

FreshParser == [buf |-> <<>>, state |-> 0, valid |-> FALSE, file |-> NoFile,
                parts |-> <<>>, run |-> "wait"]

Erased(p, n) == [p EXCEPT !.buf = SubSeq(@, n + 1, Len(@))]
Refused(p)   == [p EXCEPT !.run = "refuse", !.valid = FALSE]
Waiting(p)   == [p EXCEPT !.run = "wait"]

\* What comes before the first delimiter is dropped, and so is a delimiter
\* that has not come as a whole.
InitialBoundary(p) ==
    LET q == Erased(p, Find(p.buf, DashBoundaryCrlf))
    IN  IF Len(q.buf) < Len(DashBoundaryCrlf) THEN Waiting(q)
        ELSE [Erased(q, Len(DashBoundaryCrlf)) EXCEPT !.state = 1]

NewEntry(p) == [p EXCEPT !.file = NoFile, !.state = 2]

\* One line of the headers, or the empty line that ends them.
HeaderLine(p) ==
    LET pos  == Find(p.buf, <<CRLF>>)
        line == p.buf[1]
    IN  IF pos = Len(p.buf) THEN Waiting(p)
        ELSE IF pos = 0 THEN
            [Erased(p, 1) EXCEPT !.state = 3, !.parts =
                Append(@, [name |-> p.file.name, type |-> p.file.type, content |-> <<>>])]
        ELSE IF pos > 1 \/ line \in {Dashes, Boundary} THEN Refused(p)
        ELSE IF line.is \in {"broken", "data"} THEN Refused(p)
        ELSE [Erased(p, 2) EXCEPT !.file =
                CASE line.is = "name" -> [@ EXCEPT !.name = line.value]
                  [] line.is = "type" -> [@ EXCEPT !.type = line.value]
                  [] OTHER -> @]

Emit(p, n) ==
    [p EXCEPT !.parts[Len(p.parts)].content = @ \o SubSeq(p.buf, 1, n)]

\* The content up to the next delimiter; without one, all that cannot be the
\* beginning of one, keeping the last kept tokens.
ContentKeeping(p, kept) ==
    LET pos == Find(p.buf, CrlfDashBoundary)
    IN  IF Len(p.buf) < kept THEN Waiting(p)
        ELSE IF pos < Len(p.buf) THEN
            [Erased(Emit(p, pos), pos + Len(CrlfDashBoundary)) EXCEPT !.state = 4]
        ELSE Waiting(Erased(Emit(p, Len(p.buf) - kept), Len(p.buf) - kept))

\* Mutant: too little is kept to know a delimiter that two reads share.
ContentKeepingLess(p) == ContentKeeping(p, Len(CrlfDashBoundary) - 2)

Content(p) == ContentKeeping(p, Len(CrlfDashBoundary))

\* After a delimiter: another entry, or the end of the form.
AfterBoundary(p) ==
    IF p.buf[1] = CRLF THEN [Erased(p, 1) EXCEPT !.state = 1]
    ELSE IF p.buf[1] = Dashes THEN [p EXCEPT !.valid = TRUE, !.buf = <<>>]
    ELSE Waiting(p)

ParseStep(p) ==
    CASE p.state = 0 -> InitialBoundary(p)
      [] p.state = 1 -> NewEntry(p)
      [] p.state = 2 -> HeaderLine(p)
      [] p.state = 3 -> Content(p)
      [] p.state = 4 -> AfterBoundary(p)

\* The loop of parse: where it can be after so many turns, which is in one
\* state, and where it ends.
ParseLoop(p, n) ==
    LET after[turns \in 0 .. n] ==
          IF turns = 0 THEN {p}
          ELSE {IF q.buf = <<>> \/ q.run # "on" THEN q ELSE ParseStep(q) :
                    q \in after[turns - 1]}
    IN  CHOOSE q \in after[n] : TRUE

\* parse: the whole call for one piece.  Of two turns one takes something off
\* the buffer or is the last.
Parse(p, piece) ==
    LET buf == p.buf \o piece
    IN  ParseLoop([p EXCEPT !.buf = buf, !.run = "on"], 2 * Len(buf) + 2)
=============================================================================
