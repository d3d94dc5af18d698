---------------------------- MODULE MCMintMelt ----------------------------
(***************************************************************************)
(* Model checking the melt saga.  A proof is worth 4 and costs an input    *)
(* fee of 1 (two cost 2, at 800 ppk); a quote pays 1 with a fee reserve of *)
(* 2, so one proof covers it exactly.  With routing fees of 0 and 2 the    *)
(* change is 2 or 0 for one proof, and 5 or 3 for two: more denominations  *)
(* than one output can take.                                               *)
(***************************************************************************)
EXTENDS MintMelt, TLC

CONSTANTS y1, y2, b1, b2, q1, q2, q3

MCInputsAmount(ys) == 4 * Cardinality(ys)
MCQuoteAmount == [q \in Quotes |-> 1]
MCFeeReserve == [q \in Quotes |-> 2]

(* All quotes are for one invoice, or q3 is for an invoice of this mint.   *)
OneInvoice == [q \in Quotes |-> "l1"]
TwoInvoices == [q \in Quotes |-> IF q = q3 THEN "l2" ELSE "l1"]

(* Behaviours with a keyset rotation have one melt and no crash.           *)
RotationBound ==
    rotation # "none" => meltCrashes = 0 /\ Cardinality({o \in MeltOps : meltPc[o] # "idle"}) <= 1

Symmetry ==
    Permutations(MeltOps) \cup Permutations(Ys) \cup Permutations(Outs) \cup Permutations(Pollers)
=============================================================================
