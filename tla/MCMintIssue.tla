---------------------------- MODULE MCMintIssue ----------------------------
(* Instances of MintIssue: a bolt11 quote of 2 sat and a bolt12 quote.     *)
EXTENDS MintIssue

CONSTANTS b11, b12, p1, p2, p3, m1, o1, o2, x1, x2, c1, s1

MCMsat(p) ==
    CASE p = p1 -> 2000 [] p = p2 -> 1000 [] p = p3 -> 1500 [] p = m1 -> 2000 [] OTHER -> 1

MCPaysQuote(p) == IF p \in {p1, m1} THEN b11 ELSE b12

MCQuoteSat(q) == 2

MCSatOf(ps) == MapThenSumSet(ConvertToSat, ps)

NoAmount(ys) == 0

Single(q, outs) ==
    [batch |-> FALSE, quotes |-> {q}, amounts |-> <<>>, outs |-> outs, signed |-> {q} \cap {b12}]

Batch(amounts, outs) ==
    [batch |-> TRUE, quotes |-> {b11, b12}, amounts |-> amounts, outs |-> outs, signed |-> {b12}]

BatchAmounts == [q \in {b11, b12} |-> 1]

MCRequests ==
    {Single(b11, [b \in {x1} |-> 2]), Single(b11, [b \in {x2} |-> 2]),
     Single(b12, [b \in {x1} |-> 1]),
     Batch(BatchAmounts, [b \in {x1, x2} |-> IF b = x1 THEN 2 ELSE 1]), Batch(<<>>, [b \in {x2} |-> 3])}
(* Requests for both quotes race; the payments of the bolt12 quote are     *)
(* reported by events, checks and subscriptions.                           *)
MCScenarios == {{b11, p1, m1, o1, o2}, {b11, b12, p1, p2, o1, o2}, {b12, p2, p3, c1, s1}}
=============================================================================
