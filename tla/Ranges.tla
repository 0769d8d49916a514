-------------------------------- MODULE Ranges --------------------------------
(***************************************************************************)
(* Range requests in httplib's server (src/src/lib/httplib.h): what is     *)
(* accepted of a Range header, what an answer to it declares and what it   *)
(* then writes.                                                            *)
(*                                                                         *)
(* A header is a sequence of ranges <<first, last>>, Missing where nothing *)
(* stands; a content is a sequence, its positions counted from 0.          *)
(***************************************************************************)
EXTENDS Integers, Sequences, FiniteSets, SequencesExt

CONSTANT RangeMaxCount   \* CPPHTTPLIB_RANGE_MAX_COUNT

Missing == -1

\* parse_range_header: what it makes of the header, no ranges if it refuses
\* (numbers beyond 63 bits are refused too, and not modelled).
ParseRangeHeader(header) ==
    IF \A i \in DOMAIN header :
          LET first == header[i][1]
              last  == header[i][2]
          IN  /\ first # Missing \/ last # Missing
              /\ first = Missing \/ last = Missing \/ first <= last
    THEN header ELSE <<>>

\* The positions a range of a content of length len means: a missing first
\* position counts from the end, a missing last one is the end.
Resolve(range, len) ==
    IF range[1] = Missing THEN <<len - range[2], len - 1>>
    ELSE IF range[2] = Missing THEN <<range[1], len - 1>>
    ELSE range

ResolveAll(ranges, len) == [i \in DOMAIN ranges |-> Resolve(ranges[i], len)]

\* Mutant: a range overlaps only if it begins before an earlier one ends.
OverlappingTouch(ranges) ==
    {i \in DOMAIN ranges : \E j \in 1 .. i - 1 : ranges[i][1] < ranges[j][2]}

\* The ranges that begin before the end of all that was before them.
Overlapping(ranges) ==
    {i \in DOMAIN ranges : \E j \in 1 .. i - 1 : ranges[i][1] <= ranges[j][2]}

\* How a handler answers: with a status of its own, or Unset, and a content in
\* its body or by a provider.
Unset    == -1
Statuses == 200 .. 599 \cup {Unset}
Contents == {"body", "provider"}

\* process_request: the status of an answer, with the one its handler has set.
FinalStatus(status, ranges) ==
    IF status # Unset THEN status ELSE IF ranges = <<>> THEN 200 ELSE 206

Success(status) == 200 <= status /\ status < 300

\* range_error: the ranges of an answer with a status of success must lie in the
\* content, ascend, and overlap what came before twice at the most.
RangeError(status, ranges, len) ==
    LET resolved == ResolveAll(ranges, len)
    IN  /\ ranges # <<>> /\ Success(status)
        /\ \/ Len(ranges) > RangeMaxCount
           \/ \E i \in DOMAIN resolved :
                 ~(0 <= resolved[i][1] /\ resolved[i][1] <= resolved[i][2]
                                       /\ resolved[i][2] <= len - 1)
           \/ \E i \in DOMAIN resolved :
                 i > 1 /\ resolved[i][1] <= resolved[i - 1][1]
           \/ Cardinality(Overlapping(resolved)) > 2

\* What range_error leaves of the ranges: those of any other status stay as the
\* header has them.
Checked(status, ranges, len) ==
    IF Success(status) THEN ResolveAll(ranges, len) ELSE ranges

\* What get_range_offset_and_length asserts.
Asserted(range, len) ==
    /\ range[1] # Missing /\ range[2] # Missing
    /\ 0 <= range[1] /\ range[1] < len
    /\ range[1] <= range[2] /\ range[2] < len

\* get_range_offset_and_length
OffsetAndLength(range) == <<range[1], range[2] - range[1] + 1>>

Slice(content, range) ==
    LET at == OffsetAndLength(range)
    IN  SubSeq(content, at[1] + 1, at[1] + at[2])

\* process_multipart_ranges_data: for each range a head, which names its
\* positions in the content, and its slice; then the closing delimiter.
MultipartRanges(content, ranges) ==
    FlattenSeq([i \in DOMAIN ranges |->
        <<[range |-> ranges[i], of |-> Len(content)]>> \o Slice(content, ranges[i])])
    \o <<[range |-> <<>>, of |-> Len(content)]>>

\* get_multipart_ranges_data_length
MultipartLength(ranges) ==
    LET total[i \in 0 .. Len(ranges)] ==
          IF i = 0 THEN 1 ELSE total[i - 1] + 1 + OffsetAndLength(ranges[i])[2]
    IN  total[Len(ranges)]

\* The ranges that an answer's head is about (apply_ranges) ...
Declaring(status, ranges) == IF status = 206 THEN ranges ELSE <<>>

\* ... and those of its content: write_content_with_provider does not look at
\* the status, while a body is cut when the head is made.
Writing(kind, status, ranges) ==
    IF kind = "body" THEN Declaring(status, ranges) ELSE ranges

Written(content, ranges) ==
    IF ranges = <<>> \/ content = <<>> THEN content
    ELSE IF Len(ranges) = 1 THEN Slice(content, ranges[1])
    ELSE MultipartRanges(content, ranges)

\* What an answer with a content provider declares as its Content-Length; one
\* with a body declares the length of what is left of it.
DeclaredLength(status, content, ranges) ==
    LET declaring == Declaring(status, ranges)
    IN  IF declaring = <<>> THEN Len(content)
        ELSE IF Len(declaring) = 1 THEN OffsetAndLength(declaring[1])[2]
        ELSE MultipartLength(declaring)

Declared(kind, status, content, ranges) ==
    IF kind = "body" THEN Len(Written(content, Declaring(status, ranges)))
                     ELSE DeclaredLength(status, content, ranges)

-----------------------------------------------------------------------------
\* The positions that RFC 9110 gives a range of a content of length len.
Meant(range, len) ==
    {p \in 0 .. len - 1 :
        IF range[1] = Missing THEN p >= len - range[2]
        ELSE p >= range[1] /\ (range[2] = Missing \/ p <= range[2])}

\* The positions that an answer to these ranges writes, with the number of
\* times it does.
TimesWritten(p, ranges) ==
    Cardinality({i \in DOMAIN ranges :
        LET at == OffsetAndLength(ranges[i]) IN at[1] <= p /\ p < at[1] + at[2]})

\* The content of length len, each position named for itself.
Whole(len) == [p \in 1 .. len |-> p - 1]

\* Each range is answered with exactly the positions the header means, none of
\* them more than three times over all ranges, so that a few bytes of header
\* cannot ask for the content over and over.
PositionsServed(ranges, checked, len) ==
    /\ \A i \in DOMAIN ranges :
          /\ ToSet(Slice(Whole(len), checked[i])) = Meant(ranges[i], len)
          /\ Len(Slice(Whole(len), checked[i])) = Cardinality(Meant(ranges[i], len))
    /\ \A p \in 0 .. len - 1 : TimesWritten(p, checked) <= 3

\* A handler answers with a content of length len, in its body or by a provider,
\* and with a status or none.  Unless the Range header makes it an error, the
\* answer declares as many bytes as it writes: one with 206 has the ranges, any
\* other one the whole content.  Nor does any assertion about the ranges fail, if
\* the status is one of success.
\* Two kinds of answer by a provider are not among them, as the code does less
\* for them: with a status of its own other than 206 the head declares the whole
\* content and the ranges are written; and if that status is not one of success,
\* they are those of the header, on which the assertions fail.
RangesServed(header, kind, status, len) ==
    LET ranges  == ParseRangeHeader(header)
        final   == FinalStatus(status, ranges)
        checked == Checked(final, ranges, len)
        writes  == Written(Whole(len), Writing(kind, final, checked))
    IN  ~RangeError(final, ranges, len) =>
          /\ Success(final) => \A i \in DOMAIN checked : Asserted(checked[i], len)
          /\ kind = "body" \/ ranges = <<>> \/ final = 206
             => /\ Declared(kind, final, Whole(len), checked) = Len(writes)
                /\ IF final = 206 /\ ranges # <<>>
                   THEN PositionsServed(ranges, checked, len)
                   ELSE writes = Whole(len)
=============================================================================
