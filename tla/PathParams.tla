------------------------------ MODULE PathParams ------------------------------
(***************************************************************************)
(* Path parameters of httplib's handlers (src/src/lib/httplib.h,           *)
(* PathParamsMatcher): a pattern like "/users/:id/posts" is compiled into  *)
(* fragments and names, which a path is then matched against.              *)
(*                                                                         *)
(* Patterns and paths are sequences; Separator and Marker stand for '/'    *)
(* and ':'.  The name of a parameter is what stands between the two.       *)
(***************************************************************************)
EXTENDS Naturals, Sequences, FiniteSets, FiniteSetsExt, SequencesExt

CONSTANTS Separator, Marker

ASSUME SignsAssumption == Separator # Marker

\* std::string::find from position from (counted from 0), the length if not.
FindFrom(s, x, from) == Min({i \in from .. Len(s) - 1 : s[i + 1] = x} \cup {Len(s)})
Substr(s, from, to)  == SubSeq(s, from + 1, to)

\* One round of the constructor's loop: at the next marker a fragment ends and
\* a name begins; the separator behind the name belongs to neither.
Scanned(pattern, so) ==
    LET marker == FindFrom(pattern, Marker, so.from)
        end    == FindFrom(pattern, Separator, marker + 1)
    IN  IF marker = Len(pattern) THEN so
        ELSE [fragments |-> Append(so.fragments, Substr(pattern, so.from, marker)),
              names |-> Append(so.names, Substr(pattern, marker + 1, end)),
              from |-> end + 1]

\* The loop, which goes round less often than there are characters.
Scan(pattern) ==
    LET scan[i \in 0 .. Len(pattern)] ==
          IF i = 0 THEN [fragments |-> <<>>, names |-> <<>>, from |-> 0]
          ELSE Scanned(pattern, scan[i - 1])
    IN  scan[Len(pattern)]

\* The constructor: what is left is a fragment, if it is anything.  (A name may
\* be used twice: the set that should tell is never filled.)
Compile(pattern) ==
    LET last == Scan(pattern)
    IN  IF last.from >= Len(pattern) THEN last
        ELSE [last EXCEPT !.fragments = Append(@, Substr(pattern, last.from, Len(pattern)))]

\* One fragment, and the capture behind it if it has one: all up to the next
\* separator, which is passed over and belongs to no fragment.
MatchFragment(path, compiled, before, i) ==
    LET fragment == compiled.fragments[i]
        behind   == before.at + Len(fragment)
        end      == FindFrom(path, Separator, behind)
    IN  IF \/ ~before.ok \/ behind > Len(path)
           \/ Substr(path, before.at, behind) # fragment
        THEN [before EXCEPT !.ok = FALSE]
        ELSE IF i > Len(compiled.names) THEN [before EXCEPT !.at = behind]
        ELSE [ok |-> TRUE, at |-> end + 1,
              captured |-> Append(before.captured, Substr(path, behind, end))]

MatchFragments(pattern, path) ==
    LET compiled == Compile(pattern)
        n        == Len(compiled.fragments)
        matched[i \in 0 .. n] ==
          IF i = 0 THEN [ok |-> TRUE, at |-> 0, captured |-> <<>>]
          ELSE MatchFragment(path, compiled, matched[i - 1], i)
    IN  matched[n]

\* Mutant: the rest of the path does not matter.
MatchPrefix(pattern, path) == MatchFragments(pattern, path)

\* match: the path has to end where the last fragment or capture does.
Match(pattern, path) ==
    LET last == MatchFragments(pattern, path)
    IN  [last EXCEPT !.ok = @ /\ last.at >= Len(path)]

\* path_params, by name: emplace leaves a name the value that it has.
FirstOf(names, name) == Min({i \in DOMAIN names : names[i] = name})
PathParamsOf(pattern, path) ==
    LET names == Compile(pattern).names
    IN  [name \in ToSet(names) |-> Match(pattern, path).captured[FirstOf(names, name)]]

-----------------------------------------------------------------------------
\* Position i of the pattern belongs to a parameter; it is its first one.
InParam(pattern, i) ==
    \E j \in 1 .. i : pattern[j] = Marker /\ \A k \in j .. i : pattern[k] # Separator
StartsParam(pattern, i) ==
    InParam(pattern, i) /\ (i = 1 \/ ~InParam(pattern, i - 1))
Params(pattern, i) == Cardinality({j \in 1 .. i : StartsParam(pattern, j)})

\* The pattern with these values in place of its parameters.
Fill(pattern, values) ==
    FlattenSeq([i \in DOMAIN pattern |->
        IF StartsParam(pattern, i) THEN values[Params(pattern, i)]
        ELSE IF InParam(pattern, i) THEN <<>>
        ELSE <<pattern[i]>>])

\* Without a separator behind a parameter at the end.
Core(pattern) ==
    LET n == Len(pattern)
    IN  IF n > 1 /\ pattern[n] = Separator /\ InParam(pattern, n - 1)
        THEN Front(pattern) ELSE pattern

\* The path is the pattern filled in; behind a parameter at the end it may
\* have one more separator.
Fits(pattern, path, values) ==
    LET core   == Core(pattern)
        filled == Fill(core, values)
    IN  \/ path = filled
        \/ InParam(core, Len(core)) /\ path = Append(filled, Separator)

Values(path) ==
    {v \in {Substr(path, at[1], at[2]) : at \in (0 .. Len(path)) \X (0 .. Len(path))} :
        Separator \notin ToSet(v)}

\* A handler runs exactly for the paths that are its pattern with some values
\* filled in, and under each name it finds the value filled in for it: nothing
\* of a neighbouring segment, none left out, none out of order.  Of a name that
\* is used twice it is the first value.
CapturesFill(pattern, path) ==
    LET match  == Match(pattern, path)
        names  == Compile(pattern).names
        fills  == [1 .. Params(pattern, Len(pattern)) -> Values(path)]
        Found(values) == \A i \in DOMAIN values :
                            i = FirstOf(names, names[i]) =>
                               PathParamsOf(pattern, path)[names[i]] = values[i]
    IN  /\ match.ok <=> \E values \in fills : Fits(pattern, path, values)
        /\ match.ok => \E values \in fills : Fits(pattern, path, values) /\ Found(values)
=============================================================================
