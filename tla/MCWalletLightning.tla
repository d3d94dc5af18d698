------------------------- MODULE MCWalletLightning -------------------------
(* Instances of WalletLightning.                                           *)
EXTENDS WalletLightning

CONSTANTS i1, i2, i3, m1, w1, h1, a, b, p, rec1

MCSwapOf(t) == <<"swap", t>>

MCToken(o) == {}

MCSwapIds == {MCSwapOf(t) : t \in Swaps \cup Melts}

MCSagas == Issues \cup Melts \cup Swaps \cup Checkers \cup {Recovery} \cup MCSwapIds

MCQuotesOf(o) == IF o = i3 THEN {a, b} ELSE {a}

MCQuoteOf(t) == p

MCScenarios == {{i1, h1}, {i1, i2}, {i3, h1}, {i1, w1}, {m1, h1}}
=============================================================================
