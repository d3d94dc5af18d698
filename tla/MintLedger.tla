----------------------------- MODULE MintLedger -----------------------------
(***************************************************************************)
(* What the mint promises about swaps, with no sagas, no database and no   *)
(* crashes in it: a swap happens at once or not at all, it spends proofs   *)
(* that were never spent before, signs outputs that were never signed      *)
(* before, and what it spends is what it signs plus the input fee.         *)
(***************************************************************************)
EXTENDS Naturals

CONSTANTS Ys, Outs, InputsAmount(_), OutputsAmount(_), InputFee(_)

VARIABLES spent, signed, amounts

ledger == <<spent, signed, amounts>>

Init ==
    /\ spent = {}
    /\ signed = {}
    /\ amounts = [issued |-> 0, redeemed |-> 0, fee |-> 0]

Swap(ys, bs) ==
    /\ ys # {} /\ ys \cap spent = {}
    /\ bs # {} /\ bs \cap signed = {}
    /\ OutputsAmount(bs) + InputFee(ys) = InputsAmount(ys)
    /\ spent' = spent \cup ys
    /\ signed' = signed \cup bs
    /\ amounts' = [issued   |-> amounts.issued + OutputsAmount(bs),
                   redeemed |-> amounts.redeemed + InputsAmount(ys),
                   fee      |-> amounts.fee + InputFee(ys)]

Next == \E ys \in SUBSET Ys, bs \in SUBSET Outs : Swap(ys, bs)

Spec == Init /\ [][Next]_ledger
=============================================================================
