---------------------------- MODULE MCUdsServer -----------------------------
(* Two processes, for TLC: keys k, .k, s.k, t.k, and those made of zero    *)
(* bytes.                                                                  *)
EXTENDS UdsServer

CONSTANTS p, q

MCKeyOrder == << <<"", "NUL">>, <<"", "k">>, <<"k">>, <<"s", "NUL">>, <<"s", "k">>,
                 <<"t", "NUL">>, <<"t", "k">> >>

MCValues == {"", "1", "2"}

MCPresets == { << >>, <<"k">> :> "1", (<<"s", "k">> :> "1") @@ (<<"t", "k">> :> "1") }

MCTexts == { <<Pair("k", "2"), Section("t"), Pair("k", "1"), Pair("k", "2"), Section("s")>>,
             <<Section("s"), Pair("k", "2"), Throws, Pair("k", "1")>> }
=============================================================================
