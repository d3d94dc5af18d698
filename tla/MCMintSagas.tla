---------------------------- MODULE MCMintSagas ----------------------------
(***************************************************************************)
(* Model checking swaps beside a melt.  A proof is worth 4 and costs a fee *)
(* of 1, two cost 2.  A proof swaps for one output of 3 and both for both, *)
(* or a proof pays a quote of 1 with a fee reserve of 2, and an output     *)
(* takes the change.  Either there are swaps only, over both proofs and    *)
(* both outputs, or swaps and melts that compete for one of each.          *)
(***************************************************************************)
EXTENDS MintSagas

CONSTANTS y1, y2, b1, b2, q1, q3

VARIABLE swapsOnly

MCInputsAmount(ys) == 4 * Cardinality(ys)
MCOutAmount == [b \in Outs |-> 3]
MCOutputsAmount(bs) == 3 * Cardinality(bs)
MCQuoteAmount == [q \in Quotes |-> 1]
MCFeeReserve == [q \in Quotes |-> 2]
MCLookupId == [q \in Quotes |-> IF q = q3 THEN "l2" ELSE "l1"]

MCInit == SagasInit /\ swapsOnly \in BOOLEAN

MCNext ==
    /\ SagasNext
    /\ IF swapsOnly
       THEN UNCHANGED <<backVars, meltPc, rotation>>
       ELSE proof'[y2].state = "None" /\ blind_signature'[b2].state = "None"
    /\ UNCHANGED swapsOnly

MCSpec == MCInit /\ [][MCNext]_<<sagaVars, swapsOnly>> /\ SagasFairness
=============================================================================
