--------------------------- MODULE MCWalletEcash ---------------------------
(* Instances of WalletEcash: every task may run one swap saga.             *)
EXTENDS WalletEcash

CONSTANTS r1, s1, s2, w1, h1, h2, x1

MCSwapOf(t) == <<"swap", t>>

MCToken(o) == {x1}

MCSwapIds == {MCSwapOf(t) : t \in Sends \cup Swaps \cup Callers}

MCSagas == Receives \cup Sends \cup Swaps \cup Callers \cup MCSwapIds

MCScenarios == {{r1, s1}, {s1, h1, h2}, {s1, s2}, {w1, r1}}
=============================================================================
