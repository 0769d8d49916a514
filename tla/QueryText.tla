------------------------------- MODULE QueryText -------------------------------
(***************************************************************************)
(* The parameters of httplib's requests (src/src/lib/httplib.h): how the   *)
(* client writes them into a form or a target and how the server reads     *)
(* them, the encoding of single characters included.                       *)
(*                                                                         *)
(* A text is a sequence of one-character strings.  Code gives the two hex  *)
(* digits of a character; a character outside of Chars is stood for by its *)
(* digits.  Parameters are pairs <<key, value>> in the order of the        *)
(* multimap.                                                               *)
(***************************************************************************)
EXTENDS Naturals, Sequences, FiniteSets, FiniteSetsExt, SequencesExt

CONSTANTS
    Chars,      \* the characters of keys and values
    Code,       \* Code[c]: the two hexadecimal digits of c
    HexDigits,
    Unreserved, \* what encode_query_param leaves as it is
    Escaped     \* what encode_url does not leave as it is

Blanks == {" ", "TAB"}

ASSUME CodeAssumption ==
    /\ \A c \in Chars : \E g, h \in HexDigits : Code[c] = <<g, h>>
    /\ \A c, d \in Chars : Code[c] = Code[d] => c = d
ASSUME CharsAssumption ==
    /\ (Unreserved \cup HexDigits) \cap (Blanks \cup {"%", "+", "&", "=", "#", "NUL"}) = {}
    /\ {" ", "+"} \subseteq Escaped /\ Escaped \subseteq Chars
    /\ Escaped \cap (HexDigits \cup {"%", "&", "=", "?", "p"}) = {}

\* Some characters as a percent sign and their digits.
Encoded(s, chars) ==
    FlattenSeq([i \in DOMAIN s |-> IF s[i] \in chars THEN <<"%">> \o Code[s[i]] ELSE <<s[i]>>])

\* Mutant: the plus sign is left as it is.
EncodeQueryParamPlus(v) == Encoded(v, Chars \ (Unreserved \cup {"+"}))

EncodeQueryParam(v) == Encoded(v, Chars \ Unreserved)

\* decode_url with convert_plus_to_space: what the i-th character of s adds,
\* which is nothing behind the percent sign of an escape.  (Of "%u" and four
\* digits, which no encoder here writes, it makes UTF-8; that is left out.)
IsEscape(s, i) ==
    /\ i >= 1 /\ i + 2 =< Len(s)
    /\ s[i] = "%" /\ s[i + 1] \in HexDigits /\ s[i + 2] \in HexDigits

EscapedChar(code) ==
    LET chars == {c \in Chars : Code[c] = code}
    IN  IF chars = {} THEN code ELSE CHOOSE c \in chars : TRUE

Decoded(s, i) ==
    IF IsEscape(s, i) THEN << EscapedChar(<<s[i + 1], s[i + 2]>>) >>
    ELSE IF IsEscape(s, i - 1) \/ IsEscape(s, i - 2) THEN <<>>
    ELSE <<IF s[i] = "+" THEN " " ELSE s[i]>>

DecodeUrl(s) == FlattenSeq([i \in DOMAIN s |-> Decoded(s, i)])

\* params_to_query_str: values are encoded, keys are not.
Joined(texts, by) ==
    FlattenSeq([i \in DOMAIN texts |-> IF i = 1 THEN texts[i] ELSE <<by>> \o texts[i]])

ParamsToQueryStr(params) ==
    Joined([i \in DOMAIN params |->
                params[i][1] \o <<"=">> \o EncodeQueryParam(params[i][2])], "&")

\* trim: without the blanks at both ends.
Trimmed(s) ==
    LET kept == {i \in DOMAIN s : s[i] \notin Blanks}
    IN  IF kept = {} THEN <<>> ELSE SubSeq(s, Min(kept), Max(kept))

\* divide: what stands before the first separator, and what behind.
Divided(s, by) ==
    LET at == Min({i \in DOMAIN s : s[i] = by} \cup {Len(s) + 1})
    IN  <<SubSeq(s, 1, at - 1), SubSeq(s, at + 1, Len(s))>>

\* encode_url: percent signs, separators and the number sign stay, and it ends
\* at a NUL.
EncodeUrl(s) == Encoded(Divided(s, "NUL")[1], Escaped)

\* split: where the pieces between the separators begin, and each of them.
Begins(s, by) == {i \in 1 .. Len(s) + 1 : i = 1 \/ s[i - 1] = by}

Piece(s, by, i) == Trimmed(Divided(SubSeq(s, i, Len(s)), by)[1])

\* parse_query_text: a piece that has come before is dropped, and one without
\* a key, which the empty ones are that split drops.
Parameter(s, i) ==
    LET pair == Divided(Piece(s, "&", i), "=")
    IN  IF /\ i \in Begins(s, "&")
           /\ \A j \in Begins(s, "&") : j < i => Piece(s, "&", j) # Piece(s, "&", i)
           /\ pair[1] # <<>>
        THEN << <<DecodeUrl(pair[1]), DecodeUrl(pair[2])>> >>
        ELSE <<>>

ParseQueryText(s) == FlattenSeq([i \in 1 .. Len(s) + 1 |-> Parameter(s, i)])

\* append_query_params and the request line, for a path without a query ...
Target(params) == EncodeUrl(<<"p", "?">> \o ParamsToQueryStr(params))

\* ... and parse_request_line, up to the parameters.
ParamsOfTarget(target) ==
    ParseQueryText(Divided(Divided(target, "#")[1], "?")[2])

-----------------------------------------------------------------------------
\* A sequence without what it has had before.
Firsts(s) ==
    FlattenSeq([i \in DOMAIN s |-> IF \E j \in 1 .. i - 1 : s[j] = s[i] THEN <<>> ELSE <<s[i]>>])

\* Without what params_to_query_str leaves as it is in keys and the server reads
\* otherwise, in a target and in a form, which is not encoded as a whole.
KeySurvives(key) ==
    /\ key # <<>> /\ key[1] # "TAB"
    /\ \A i \in DOMAIN key : key[i] \notin {"&", "=", "%", "#", "NUL"}
KeySurvivesForm(key) ==
    KeySurvives(key) /\ key[1] # " " /\ \A i \in DOMAIN key : key[i] # "+"

\* The server gets the parameters the client was given, whatever characters
\* their values are made of; a pair that is given twice arrives once.
ParamsSurvive(params) ==
    /\ (\A i \in DOMAIN params : KeySurvives(params[i][1])) =>
          ParamsOfTarget(Target(params)) = Firsts(params)
    /\ (\A i \in DOMAIN params : KeySurvivesForm(params[i][1])) =>
          ParseQueryText(ParamsToQueryStr(params)) = Firsts(params)
=============================================================================
