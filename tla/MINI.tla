-------------------------------- MODULE MINI --------------------------------
(***************************************************************************)
(* mINI (src/src/lib/mini.h): the text of an ini file and the map of it.   *)
(*                                                                         *)
(* A text is a sequence of lines.  A line is a section header, a pair (one *)
(* without '=' has the value ""), a line that parse skips (blank or        *)
(* comment), or one that begins or ends with the byte 0xFF, on which trim  *)
(* throws: its table has 0xFF entries (util.cpp:132).  A key with a dot is *)
(* <<tag, name>>, one without is <<name>>; parse only makes the former.    *)
(* Spaces around a token, which trim removes, are left out, and so are     *)
(* names that hold a dot, '=', or a comment character of their own.        *)
(***************************************************************************)
EXTENDS Naturals, Sequences, SequencesExt

CONSTANTS
    KeyOrder,  \* the keys, in the order of the map: that of strings
    Values     \* the values of keys

Skip         == [kind |-> "skip"]
Throws       == [kind |-> "throws"]
Section(t)   == [kind |-> "section", tag |-> t]
Pair(n, v)   == [kind |-> "pair", name |-> n, val |-> v]

Dotless(k) == Len(k) = 1
TagOf(k)   == IF Dotless(k) THEN "" ELSE k[1]
NameOf(k)  == k[Len(k)]

Keys  == Range(KeyOrder)
Tags  == {TagOf(k) : k \in Keys}
Names == {NameOf(k) : k \in Keys}
Lines == {Skip, Throws} \cup {Section(t) : t \in Tags}
         \cup {Pair(n, v) : n \in Names, v \in Values}

\* Every name may stand in every section, and in none.
ASSUME KeysAssumption ==
    /\ KeyOrder \in Seq(Keys)
    /\ "" \in Tags /\ Tags \X Names \subseteq Keys
    /\ "" \in Values

IsMap(m) == DOMAIN m \subseteq Keys /\ m \in [DOMAIN m -> Values]

\* trim throws on no line.
Trimmable(text) == \A i \in DOMAIN text : text[i] # Throws

\* The variable tag of parse's loop after i lines.
TagAfter(text, i) ==
    LET tag[j \in 0 .. i] ==
          IF j = 0 THEN ""
          ELSE IF text[j].kind = "section" THEN text[j].tag ELSE tag[j - 1]
    IN  tag[i]

\* (*this)[symbol] = ...
Put(map, k, v) == [x \in DOMAIN map \cup {k} |-> IF x = k THEN v ELSE map[x]]

\* What line i makes of the map.
Assigned(text, i, map) ==
    IF text[i].kind = "pair"
    THEN Put(map, <<TagAfter(text, i), text[i].name>>, text[i].val)
    ELSE map

\* Mutant: the first line of a key wins.
ParseFirst(text, map) ==
    LET parsed[j \in 0 .. Len(text)] ==
          IF j = 0 THEN map
          ELSE LET next == Assigned(text, j, parsed[j - 1])
               IN  [k \in DOMAIN next |-> IF k \in DOMAIN parsed[j - 1]
                                          THEN parsed[j - 1][k] ELSE next[k]]
    IN  parsed[Len(text)]

\* parse(text) on a map that is not cleared first, if it does not throw.
Parse(text, map) ==
    LET parsed[j \in 0 .. Len(text)] ==
          IF j = 0 THEN map ELSE Assigned(text, j, parsed[j - 1])
    IN  parsed[Len(text)]

\* One key in dump's loop: a key without a tag goes to the front, one with a
\* tag to the output, behind a section header if the tag is another.
Dumped(so, k, map) ==
    LET pair == Pair(NameOf(k), map[k])
    IN  IF k \notin DOMAIN map THEN so
        ELSE IF TagOf(k) = "" THEN [so EXCEPT !.front = Append(@, pair)]
        ELSE IF TagOf(k) = so.tag THEN [so EXCEPT !.output = Append(@, pair)]
        ELSE [so EXCEPT !.tag = TagOf(k),
                        !.output = @ \o <<Section(TagOf(k)), pair>>]

\* dump(): between header and footer.
Dump(map) ==
    LET dumped[i \in 0 .. Len(KeyOrder)] ==
          IF i = 0 THEN [front |-> <<Skip>>, output |-> <<>>, tag |-> ""]
          ELSE Dumped(dumped[i - 1], KeyOrder[i], map)
        all == dumped[Len(KeyOrder)]
    IN  all.front \o all.output \o <<Skip>>
=============================================================================
