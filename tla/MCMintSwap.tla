---------------------------- MODULE MCMintSwap ----------------------------
(***************************************************************************)
(* Model checking the swap saga: two proofs of amount 2 and two outputs of *)
(* amount 1.  At 800 ppk a proof costs a fee of 1 and both together 2, so  *)
(* a proof swaps for either output and both proofs for both outputs: swaps *)
(* overlap in part of their inputs and outputs.                            *)
(***************************************************************************)
EXTENDS MintSwap, TLC

CONSTANTS y1, y2, b1, b2

MCYs == {y1, y2}
MCInputsAmount(ys) == 2 * Cardinality(ys)
MCOuts == {b1, b2}
MCOutAmount == [b \in MCOuts |-> 1]
MCOutputsAmount(bs) == Cardinality(bs)

(* Behaviours with a crash have two swaps.                                 *)
CrashBound == crashes > 0 => Cardinality({o \in SwapOps : swapPc[o] # "idle"}) <= 2

Symmetry == Permutations(SwapOps) \cup Permutations(MCYs) \cup Permutations(MCOuts)
=============================================================================
