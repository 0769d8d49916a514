----------------------------- MODULE MCDbusServer -----------------------------
(* Servers over libdbus, for TLC.                                          *)
EXTENDS DbusServer, TLC

CONSTANTS s1, s2, lender, i1, n1, h1, h2, m1

OneName == [p \in Servers |-> n1]

\* One program handles a signal, another a method and a signal.
SomeOffers ==
    {[x \in Members |-> IF x = "signal" THEN h1 ELSE NoHandler],
     [x \in Members |-> h2]}
=============================================================================
