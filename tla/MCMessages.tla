----------------------------- MODULE MCMessages -----------------------------
(***************************************************************************)
(* Bodies of every framing, and the questions to the pure functions.       *)
(***************************************************************************)
EXTENDS HttpMessages

CONSTANTS Letters, MaxPath

TheCode == [c \in {"%", "+", " ", "&", "=", "#", "2", "B", "'", "TAB",
                   "NUL"} |->
            CASE c = "%" -> <<"2", "5">> [] c = "+" -> <<"2", "B">>
              [] c = " " -> <<"2", "0">> [] c = "&" -> <<"2", "6">>
              [] c = "=" -> <<"3", "D">> [] c = "#" -> <<"2", "3">>
              [] c = "2" -> <<"3", "2">> [] c = "B" -> <<"4", "2">>
              [] c = "'" -> <<"2", "7">> [] c = "TAB" -> <<"0", "9">>
              [] c = "NUL" -> <<"0", "0">>]
TheChars == DOMAIN TheCode
TheHexDigits == {"0", "2", "3", "4", "5", "6", "7", "9", "B", "D"}
TheUnreserved == {"2", "B", "'"}
TheEscaped == {" ", "+", "'"}

Data(x) == Line("data", x)

\* The first content ends with the beginning of a delimiter.
TheItems ==
    << [name |-> "n1", type |-> NoType, content |-> <<Data("x"), CRLF, Dashes>>],
       [name |-> "n2", type |-> "t", content |-> <<>>] >>

Upload(framing, content) ==
    [framing |-> framing, content |-> content, from |-> 0, end |-> Len(content),
     declared |-> IF framing = "length" THEN Len(content) ELSE NoLength,
     items |-> TheItems, server |-> FALSE]

\* An answer with a content provider of the whole content, to these ranges.
Numbers == <<Data("0"), Data("1"), Data("2"), Data("3")>>
Download(framing, status, ranges) ==
    LET range == IF ranges = <<>> THEN <<0, Len(Numbers) - 1>> ELSE ranges[1]
        at    == OffsetAndLength(range)
    IN  [framing |-> framing, content |-> Numbers, from |-> at[1], end |-> at[1] + at[2],
         declared |-> IF framing = "length" THEN DeclaredLength(status, Numbers, ranges)
                      ELSE NoLength,
         items |-> NoForm, server |-> TRUE]

\* A form that breaks off before its end.
Broken == SubSeq(Serialize(TheItems), 1, 9)

TheBodies ==
    {Upload("length", Serialize(TheItems)), Upload("chunked", Serialize(TheItems)),
     Upload("length", Broken),
     Download("length", 200, <<>>), Download("length", 206, << <<1, 2>> >>),
     Download("length", 200, << <<1, 2>> >>),
     Download("chunked", 200, <<>>), Download("stream", 200, <<>>)}

-----------------------------------------------------------------------------
\* Every header of up to two ranges, and longer ones of ranges that ascend.
Positions == {-1, 0, 1, 2}
Headers == SeqOf(Positions \X Positions, 2)
           \cup [1 .. 4 -> {<<0, 2>>, <<1, 3>>, <<2, -1>>, <<3, 3>>, <<0, -1>>}]
TheRangeQuestions ==
    [of : {"ranges"}, header : Headers, kind : Contents,
     status : {Unset, 200, 206, 404}, len : {1, 3, 4}]

S == Separator
M == Marker
Patterns == {<<S, M, "a">>, <<S, M, "a", S>>, <<S, M, "a", S, "b">>, <<S, "b", M, "a">>,
             <<S, M, "a", S, M, "b">>, <<S, M, "a", S, "b", S, M, "b">>, <<S, "b", S, M>>,
             <<S, M, "a", S, M, "a">>}
Paths == UNION {{<<S>> \o p : p \in [1 .. n -> Letters \cup {S}]} : n \in 0 .. MaxPath}
ThePathQuestions == [of : {"path"}, pattern : Patterns, path : Paths]

TheCallQuestions == [of : {"call"}, call : C!Calls({0, 1, 2})]

\* One parameter with every value of up to three characters, or two with keys
\* and values of their own.
TheKeys == {<<"2">>, <<"+">>, <<" ", "B">>, <<"'">>, <<"B", "TAB">>, <<>>}
Values1 == SeqOf(Chars, 3)
Values2 == SeqOf({"%", "+", "B", "&"}, 1)
ParamLists == {<< <<key, value>> >> : key \in TheKeys, value \in Values1}
          \cup {<< <<k1, v1>>, <<k2, v2>> >> :
                    k1 \in TheKeys, v1 \in Values2, k2 \in TheKeys, v2 \in Values2}
TheParamsQuestions == [of : {"params"}, params : ParamLists]

\* A question comes with one body only, which stays where it is.
MCInit ==
    MessagesInit /\ (question # NoQuestion => body = Download("stream", 200, <<>>))

MCSpec == MCInit /\ [][MessagesNext]_<<vars, question>> /\ MessagesFairness
=============================================================================
