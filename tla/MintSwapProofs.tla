--------------------------- MODULE MintSwapProofs ---------------------------
(***************************************************************************)
(* Proofs about the swap saga, for every set of proofs, outputs and        *)
(* operations, any number of crashes, and every choice of which errors     *)
(* happen: the inductive invariant, step by step, what follows from it,    *)
(* and that the swap saga implements MintLedger.                           *)
(***************************************************************************)
EXTENDS MintSwap, FiniteSetTheorems, TLAPS

(* What an operation reserves it asked for, and a request that holds a     *)
(* reservation was balanced.                                               *)
Owned ==
    /\ \A y \in Ys : proof[y].state # "None" =>
          proof[y].op \in SwapOps /\ y \in swapReq[proof[y].op].ys
    /\ \A b \in Outs : blind_signature[b].state = "Unsigned" =>
          blind_signature[b].op \in SwapOps /\ b \in swapReq[blind_signature[b].op].bs

(* A request that has not been set up has left nothing anywhere.           *)
IdleIsFresh ==
    \A o \in SwapOps : swapPc[o] = "idle" =>
        /\ swapReq[o] = NoSetup
        /\ saga_state[o] = "None"
        /\ o \notin completed_operations
        /\ o \notin swapTodo
        /\ o # swapRec.op

SetUpIsBalanced ==
    \A o \in SwapOps : swapPc[o] # "idle" =>
        /\ swapReq[o].ys # {}
        /\ swapReq[o].bs # {}
        /\ Balanced(swapReq[o].ys, swapReq[o].bs)

(* The compensation a recovery is about to execute covers every row that   *)
(* the saga still owns.                                                    *)
RecoveryCovers ==
    swapRec # NoRec =>
        /\ swapRec.op \in SwapOps
        /\ \A y \in Ys : proof[y].state # "None" /\ proof[y].op = swapRec.op => y \in swapRec.ys
        /\ \A b \in Outs :
              blind_signature[b].state = "Unsigned" /\ blind_signature[b].op = swapRec.op
                  => b \in swapRec.bs

SwapInv ==
    /\ SwapTypeOK
    /\ Owned
    /\ IdleIsFresh
    /\ SetUpIsBalanced
    /\ RecoveryCovers
    /\ NoDoubleSpend
    /\ NothingStranded
    /\ ValueConserved

LEMMA FeeType ==
    ASSUME NEW ys \in SUBSET Ys
    PROVE  CalculateFee(ys) \in Nat
<1>1. Cardinality(ys) \in Nat
  BY StoreAssumption, FS_Subset, FS_CardinalityType, Zenon
<1>2. InputFeePpk * Cardinality(ys) \in Nat
  BY <1>1, StoreAssumption
<1> QED
  BY <1>2 DEF CalculateFee

LEMMA OpsFacts ==
    /\ SwapOps \subseteq Ops
    /\ \A o \in SwapOps : o # NoOp
    /\ OutAmount \in [Outs -> Nat]
  BY StoreAssumption, SwapAssumption, Zenon

LEMMA InitInv == Init => SwapInv
<1> USE StoreAssumption, SwapAssumption
    DEF Init, StoreInit, NoProof, NoOutput, NoSetup, NoRec
<1> SUFFICES ASSUME Init PROVE SwapInv
  BY Zenon
<1>1. SwapTypeOK
  BY DEF SwapTypeOK, ProofTable, ProofState, OutputTable, AmountsRow, SwapPcs, SwapSetup
<1>2. Owned /\ IdleIsFresh /\ SetUpIsBalanced /\ RecoveryCovers
  BY Zenon DEF Owned, IdleIsFresh, SetUpIsBalanced, RecoveryCovers
<1>3. NoDoubleSpend /\ NothingStranded /\ ValueConserved
  BY DEF NoDoubleSpend, NothingStranded, ValueConserved
<1> QED
  BY <1>1, <1>2, <1>3, Zenon DEF SwapInv

LEMMA SetupInv ==
    ASSUME SwapInv, NEW o \in SwapOps, SetupSwap(o)
    PROVE  SwapInv'
<1> USE DEF SwapInv, SwapSetup
<1> PICK ys \in (SUBSET Ys) \ {{}}, bs \in (SUBSET Outs) \ {{}} :
        /\ Balanced(ys, bs)
        /\ AddProofsOk(proof, ys)
        /\ AddBlindedMessagesOk(blind_signature, bs)
        /\ proof' = UpdateProofsState(AddProofs(proof, ys, o), ys, "Pending")
        /\ blind_signature' = AddBlindedMessages(blind_signature, bs, o)
        /\ swapReq' = [swapReq EXCEPT ![o] = [ys |-> ys, bs |-> bs]]
        /\ Publish(ys, "Pending")
  BY Zenon DEF SetupSwap
<1>p. \A y \in Ys : proof'[y] = IF y \in ys THEN [state |-> "Pending", op |-> o] ELSE proof[y]
  BY DEF UpdateProofsState, AddProofs
<1>b. \A b \in Outs : blind_signature'[b] =
        IF b \in bs THEN [state |-> "Unsigned", op |-> o, amount |-> 0] ELSE blind_signature[b]
  BY Zenon DEF AddBlindedMessages
<1>f. swapPc[o] = "idle" /\ o \notin completed_operations /\ o # swapRec.op
  BY Zenon DEF SetupSwap, IdleIsFresh
<1>1. SwapTypeOK'
  <2>1. proof' \in ProofTable
    BY OpsFacts, Zenon DEF SwapTypeOK, ProofTable, ProofState, UpdateProofsState, AddProofs
  <2>2. blind_signature' \in OutputTable
    BY OpsFacts, Zenon DEF SwapTypeOK, OutputTable, AddBlindedMessages
  <2> QED
    BY <2>1, <2>2, ZenonT(30) DEF SwapTypeOK, SetupSwap, Publish, ProofState, SwapPcs
<1>2. Owned'
  <2>1. swapReq[o].ys = {} /\ swapReq[o].bs = {}
    BY <1>f DEF IdleIsFresh, NoSetup
  <2>2. /\ swapReq'[o].ys = ys /\ swapReq'[o].bs = bs
        /\ \A p \in SwapOps \ {o} : swapReq'[p] = swapReq[p]
    BY Zenon DEF SwapTypeOK
  <2>3. Owned
    BY Zenon
  <2>4. o \in SwapOps
    BY Zenon
  <2>5. \A y \in Ys : proof'[y].state # "None" =>
          proof'[y].op \in SwapOps /\ y \in swapReq'[proof'[y].op].ys
    BY ONLY <1>p, <2>1, <2>2, <2>3, <2>4 DEF Owned
  <2>6. \A b \in Outs : blind_signature'[b].state = "Unsigned" =>
          blind_signature'[b].op \in SwapOps /\ b \in swapReq'[blind_signature'[b].op].bs
    BY ONLY <1>b, <2>1, <2>2, <2>3, <2>4 DEF Owned
  <2> QED
    BY ONLY <2>5, <2>6 DEF Owned
<1>3. IdleIsFresh'
  BY DEF IdleIsFresh, SetupSwap, SwapTypeOK
<1>4. SetUpIsBalanced'
  BY SMTT(30) DEF SetUpIsBalanced, SetupSwap, SwapTypeOK, Balanced, CalculateFee
<1>5. RecoveryCovers'
  BY <1>p, <1>b, <1>f, OpsFacts, SMTT(30) DEF RecoveryCovers, SetupSwap, SwapTypeOK, NoRec
<1>6. NoDoubleSpend'
  <2>1. SpentYs' = SpentYs /\ SignedOuts' = SignedOuts
    BY <1>p, <1>b DEF SpentYs, SignedOuts, AddProofsOk, AddBlindedMessagesOk
  <2>2. \A p \in completed_operations : swapReq'[p] = swapReq[p]
    BY <1>f, Zenon DEF SwapTypeOK
  <2> QED
    BY <2>1, <2>2, Zenon DEF NoDoubleSpend, SetupSwap
<1>7. NothingStranded'
  <2>1. /\ saga_state'[o] = "SetupComplete"
        /\ \A p \in SwapOps \ {o} : saga_state'[p] = saga_state[p]
    BY OpsFacts, Zenon DEF SetupSwap, SwapTypeOK
  <2>2. \A y \in Ys : proof'[y].state = "Pending" => saga_state'[proof'[y].op] # "None"
    BY <1>p, <2>1 DEF NothingStranded, Owned
  <2>3. \A b \in Outs : blind_signature'[b].state = "Unsigned"
                           => saga_state'[blind_signature'[b].op] # "None"
    BY <1>b, <2>1 DEF NothingStranded, Owned
  <2> QED
    BY <2>2, <2>3, Zenon DEF NothingStranded
<1>8. ValueConserved'
  BY Zenon DEF ValueConserved, SetupSwap
<1> QED
  BY <1>1, <1>2, <1>3, <1>4, <1>5, <1>6, <1>7, <1>8, Zenon

(* A step that only moves a request between states other than idle.        *)
LEMMA PcInv ==
    ASSUME SwapInv, NEW o \in SwapOps, NEW pc \in SwapPcs \ {"idle"},
           swapPc[o] # "idle", swapPc' = [swapPc EXCEPT ![o] = pc],
           UNCHANGED <<storeVars, mint, told, swapReq, swapTodo, swapRec, crashes>>
    PROVE  SwapInv'
<1> USE DEF SwapInv, storeVars
<1>1. SwapTypeOK'
  BY Zenon DEF SwapTypeOK
<1>2. Owned' /\ RecoveryCovers' /\ NoDoubleSpend' /\ NothingStranded' /\ ValueConserved'
  BY DEF Owned, RecoveryCovers, NoDoubleSpend, SpentYs, SignedOuts, NothingStranded, ValueConserved
<1>3. IdleIsFresh'
  BY Zenon DEF IdleIsFresh, SwapTypeOK
<1>4. SetUpIsBalanced'
  BY DEF SetUpIsBalanced, SwapTypeOK, Balanced, CalculateFee
<1> QED
  BY <1>1, <1>2, <1>3, <1>4, Zenon

(* finalize changes rows by Y and by B_, whoever owns them: none of them   *)
(* was Spent or Signed, and all that the operation itself owns are among   *)
(* them, so that its saga may go.                                          *)
LEMMA FinalizeInv ==
    ASSUME SwapInv, NEW o \in SwapOps, FinalizeSwap(o)
    PROVE  SwapInv'
<1> USE DEF SwapInv
<1> DEFINE ys == swapReq[o].ys
           bs == swapReq[o].bs
<1>t. ys \in SUBSET Ys /\ bs \in SUBSET Outs
  BY Zenon DEF SwapTypeOK, SwapSetup
<1>pc. /\ \A p \in SwapOps : swapPc'[p] = "idle" <=> swapPc[p] = "idle"
       /\ swapPc' \in [SwapOps -> SwapPcs]
       /\ swapPc[o] # "idle"
  BY Zenon DEF FinalizeSwap, SwapTypeOK, SwapPcs
<1>1. CASE UNCHANGED storeVars
  <2> USE <1>1 DEF storeVars
  <2>1. SwapTypeOK'
    BY <1>t, <1>pc, SMTT(30) DEF FinalizeSwap, SwapTypeOK, Publish, ProofState
  <2>2. Owned' /\ RecoveryCovers' /\ NoDoubleSpend' /\ NothingStranded' /\ ValueConserved'
    BY DEF FinalizeSwap, Owned, RecoveryCovers, NoDoubleSpend, SpentYs, SignedOuts,
           NothingStranded, ValueConserved
  <2>3. IdleIsFresh' /\ SetUpIsBalanced'
    BY <1>pc DEF FinalizeSwap, IdleIsFresh, SetUpIsBalanced, Balanced, CalculateFee
  <2> QED
    BY <2>1, <2>2, <2>3, Zenon
<1>2. CASE /\ FinalizeTx(o)
           /\ SagaDeleted(o) \/ UNCHANGED saga_state
  <2>p. \A y \in Ys : /\ y \in ys => /\ proof[y].state \notin {"None", "Spent"}
                                     /\ proof'[y].state = "Spent"
                                     /\ proof'[y].op = proof[y].op
                      /\ y \notin ys => proof'[y] = proof[y]
    BY <1>2, SMTT(30) DEF FinalizeTx, UpdateProofsState, FinalizeSwap, FinalizeOk, UpdateProofsOk,
                CheckStateTransition, SwapTypeOK, ProofTable
  <2>b. \A b \in Outs :
          /\ b \in bs => /\ blind_signature[b].state # "Signed"
                         /\ blind_signature'[b].state = "Signed"
          /\ b \notin bs => blind_signature'[b] = blind_signature[b]
    BY Zenon, <1>2 DEF FinalizeTx, AddBlindSignatures, FinalizeSwap, FinalizeOk,
                AddBlindSignaturesOk, SwapSigs
  <2>s. /\ saga_state' \in [Ops -> {"None", "SetupComplete"}]
        /\ \A p \in SwapOps \ {o} : saga_state'[p] = saga_state[p]
    BY <1>2, OpsFacts, Zenon DEF SagaDeleted, SwapTypeOK
  <2>q. SpentYs' = SpentYs \cup ys /\ SignedOuts' = SignedOuts \cup bs
    BY <1>t, <2>p, <2>b, Zenon DEF SpentYs, SignedOuts
  <2>a. /\ InputsAmount(ys) \in Nat /\ OutputsAmount(bs) \in Nat /\ CalculateFee(ys) \in Nat
        /\ OutputsAmount(bs) + CalculateFee(ys) = InputsAmount(ys)
    BY <1>t, <1>pc, FeeType, StoreAssumption, SwapAssumption, Zenon DEF SetUpIsBalanced, Balanced
  <2>k. keyset_amounts' = [issued   |-> keyset_amounts.issued + OutputsAmount(bs),
                           redeemed |-> keyset_amounts.redeemed + InputsAmount(ys),
                           fee      |-> keyset_amounts.fee + CalculateFee(ys)]
    BY <1>2, Zenon DEF FinalizeTx, AddAmounts
  <2>1. SwapTypeOK'
    <3>1. proof' \in ProofTable
      BY <1>2, SMTT(30) DEF FinalizeTx, UpdateProofsState, SwapTypeOK, ProofTable, ProofState
    <3>2. blind_signature' \in OutputTable
      BY <1>2, <1>t, OpsFacts, SMTT(30) DEF FinalizeTx, AddBlindSignatures, SwapSigs, SwapTypeOK, OutputTable
    <3>3. keyset_amounts' \in AmountsRow
      BY <2>k, <2>a, SMTT(30) DEF AmountsRow, SwapTypeOK
    <3>4. completed_operations' \subseteq SwapOps
      BY <1>2, SMTT(30) DEF FinalizeTx, SwapTypeOK
    <3>5. told' \in [Ys -> ProofState]
      BY Zenon DEF FinalizeSwap, Publish, SwapTypeOK, ProofState
    <3> QED
      BY <3>1, <3>2, <3>3, <3>4, <3>5, <2>s, <1>pc, Zenon DEF FinalizeSwap, SwapTypeOK
  <2>2. Owned'
    BY <2>p, <2>b, SMTT(30) DEF Owned, FinalizeSwap
  <2>3. IdleIsFresh'
    BY <1>pc, <1>2, <2>s, SMTT(30) DEF IdleIsFresh, FinalizeSwap, FinalizeTx
  <2>4. SetUpIsBalanced'
    BY <1>pc, SMTT(30) DEF SetUpIsBalanced, FinalizeSwap, Balanced, CalculateFee
  <2>5. RecoveryCovers'
    BY <2>p, <2>b, Zenon DEF RecoveryCovers, FinalizeSwap
  <2>6. NoDoubleSpend'
    <3>1. ys \cap SpentYs = {} /\ bs \cap SignedOuts = {}
      BY <2>p, <2>b, SMTT(30) DEF SpentYs, SignedOuts
    <3>2. UNCHANGED swapReq /\ completed_operations' = completed_operations \cup {o}
      BY <1>2, Zenon DEF FinalizeSwap, FinalizeTx
    <3> QED
      BY <3>1, <3>2, <2>q, Zenon DEF NoDoubleSpend
  <2>7. NothingStranded'
    <3>1. \A y \in Ys : proof'[y].state = "Pending" =>
             proof'[y] = proof[y] /\ proof[y].op \in SwapOps \ {o}
      BY <2>p, Zenon DEF Owned
    <3>2. \A b \in Outs : blind_signature'[b].state = "Unsigned" =>
             blind_signature'[b] = blind_signature[b] /\ blind_signature[b].op \in SwapOps \ {o}
      BY <2>b, Zenon DEF Owned
    <3> QED
      BY <3>1, <3>2, <2>s DEF NothingStranded
  <2>8. ValueConserved'
    BY <2>a, <2>k, SMTT(30) DEF ValueConserved, SwapTypeOK, AmountsRow
  <2> QED
    BY <2>1, <2>2, <2>3, <2>4, <2>5, <2>6, <2>7, <2>8, Zenon
<1> QED
  BY <1>1, <1>2, Zenon DEF FinalizeSwap

-----------------------------------------------------------------------------
(***************************************************************************)
(* The steps that undo a setup or belong to the life of the process, and   *)
(* the invariants of every behaviour.                                      *)
(***************************************************************************)
(* RemoveSwapSetup, run by a request or by a recovery, takes away rows     *)
(* that are neither Spent nor Signed, and the saga row only when no row of *)
(* the operation is left.                                                  *)
RemoveEffect(o, ys, bs) ==
    /\ proof' \in ProofTable
    /\ blind_signature' \in OutputTable
    /\ saga_state' \in [Ops -> {"None", "SetupComplete"}]
    /\ UNCHANGED <<keyset_amounts, completed_operations>>
    /\ \A y \in Ys : \/ proof'[y] = proof[y]
                     \/ proof'[y].state = "None" /\ proof[y].state # "Spent"
    /\ \A b \in Outs : \/ blind_signature'[b] = blind_signature[b]
                       \/ /\ blind_signature'[b].state = "None"
                          /\ blind_signature[b].state = "Unsigned"
    /\ \A p \in SwapOps \ {o} : saga_state'[p] = saga_state[p]
    /\ \/ saga_state'[o] = saga_state[o]
       \/ /\ saga_state'[o] = "None"
          /\ \A y \in ys : proof'[y].state = "None"
          /\ \A b \in bs : blind_signature'[b].state # "Unsigned"

LEMMA RemoveFacts ==
    ASSUME SwapInv, NEW o \in SwapOps, NEW ys \in SUBSET Ys, NEW bs \in SUBSET Outs,
           RemoveSwapSetup(o, ys, bs)
    PROVE  RemoveEffect(o, ys, bs)
<1> USE DEF SwapInv, SwapTypeOK, RemoveEffect
<1>1. CASE UNCHANGED storeVars
  BY <1>1, Zenon DEF storeVars
<1>2. CASE /\ RemoveProofsOk(proof, ys)
           /\ RemoveSwapSetupTx(ys, bs)
           /\ SagaDeleted(o) \/ UNCHANGED saga_state
  <2>1. proof' \in ProofTable
    BY <1>2, SMTT(30) DEF RemoveSwapSetupTx, RemoveProofs, ProofTable, ProofState, NoProof
  <2>2. blind_signature' \in OutputTable
    BY <1>2, SMTT(30) DEF RemoveSwapSetupTx, DeleteBlindedMessages, OutputTable, NoOutput
  <2>3. /\ saga_state' \in [Ops -> {"None", "SetupComplete"}]
        /\ \A p \in SwapOps \ {o} : saga_state'[p] = saga_state[p]
        /\ saga_state'[o] \in {saga_state[o], "None"}
    BY <1>2, OpsFacts, SMTT(30) DEF SagaDeleted
  <2>4. UNCHANGED <<keyset_amounts, completed_operations>>
    BY <1>2, SMTT(30) DEF RemoveSwapSetupTx
  <2>5. \A y \in Ys : /\ y \in ys => proof'[y].state = "None" /\ proof[y].state # "Spent"
                      /\ y \notin ys => proof'[y] = proof[y]
    BY <1>2, SMTT(30) DEF RemoveSwapSetupTx, RemoveProofsOk, RemoveProofs, Removable, NoProof
  <2>6. \A b \in Outs :
          IF b \in bs /\ blind_signature[b].state = "Unsigned"
          THEN blind_signature'[b].state = "None"
          ELSE blind_signature'[b] = blind_signature[b]
    BY <1>2, SMTT(30) DEF RemoveSwapSetupTx, DeleteBlindedMessages, NoOutput
  <2> QED
    BY <2>1, <2>2, <2>3, <2>4, <2>5, <2>6, SMTT(30)
<1>3. RemoveSwapSetup(o, ys, bs)
  BY Zenon
<1> QED
  BY ONLY <1>1, <1>2, <1>3 DEF RemoveSwapSetup

LEMMA RemoveInv ==
    ASSUME SwapInv, NEW o \in SwapOps, NEW ys \in SUBSET Ys, NEW bs \in SUBSET Outs,
           RemoveSwapSetup(o, ys, bs),
           \A y \in Ys : proof[y].state # "None" /\ proof[y].op = o => y \in ys,
           \A b \in Outs : blind_signature[b].state = "Unsigned" /\ blind_signature[b].op = o
                               => b \in bs,
           UNCHANGED <<mint, told, swapReq, swapTodo, crashes>>,
           swapPc' \in [SwapOps -> SwapPcs],
           \A p \in SwapOps : swapPc'[p] = "idle" <=> swapPc[p] = "idle",
           swapPc[o] # "idle",
           UNCHANGED swapRec \/ swapRec' = NoRec
    PROVE  SwapInv'
<1>r. RemoveEffect(o, ys, bs)
  BY RemoveFacts, Zenon
<1>1. SwapTypeOK'
  <2>1. NoRec \in [op : SwapOps \cup {NoOp}, ys : SUBSET Ys, bs : SUBSET Outs]
    BY ONLY DEF NoRec
  <2>2. swapRec' \in [op : SwapOps \cup {NoOp}, ys : SUBSET Ys, bs : SUBSET Outs]
    BY <2>1, Zenon DEF SwapInv, SwapTypeOK
  <2>3. /\ UNCHANGED <<mint, told, swapReq, swapTodo, crashes>>
        /\ swapPc' \in [SwapOps -> SwapPcs]
    BY Zenon
  <2> QED
    BY ONLY <2>2, <2>3, <1>r, SwapInv, Zenon DEF RemoveEffect, SwapInv, SwapTypeOK
<1>2. Owned'
  BY <1>r, ZenonT(30) DEF RemoveEffect, SwapInv, Owned
<1>3. IdleIsFresh'
  <2> SUFFICES ASSUME NEW p \in SwapOps, swapPc'[p] = "idle"
               PROVE  /\ swapReq'[p] = NoSetup
                      /\ saga_state'[p] = "None"
                      /\ p \notin completed_operations'
                      /\ p \notin swapTodo'
                      /\ p # swapRec'.op
    BY Zenon DEF IdleIsFresh
  <2>1. swapPc[p] = "idle" /\ p # o
    BY Zenon
  <2>2. saga_state'[p] = saga_state[p] /\ completed_operations' = completed_operations
    BY <1>r, <2>1, Zenon DEF RemoveEffect
  <2>3. /\ swapReq[p] = NoSetup
        /\ saga_state[p] = "None"
        /\ p \notin completed_operations
        /\ p \notin swapTodo
        /\ p # swapRec.op
    BY <2>1, Zenon DEF SwapInv, IdleIsFresh
  <2>4. p # NoOp
    BY OpsFacts, Zenon
  <2>5. p # swapRec'.op
    BY <2>3, <2>4 DEF NoRec
  <2> QED
    BY <2>2, <2>3, <2>5, Zenon
<1>4. SetUpIsBalanced'
  <2>1. UNCHANGED swapReq /\ \A p \in SwapOps : swapPc'[p] # "idle" => swapPc[p] # "idle"
    BY Zenon
  <2> QED
    BY ONLY <2>1, SwapInv DEF SwapInv, SetUpIsBalanced, Balanced, CalculateFee
<1>5. RecoveryCovers'
  BY <1>r, ZenonT(30) DEF RemoveEffect, SwapInv, RecoveryCovers
<1>6. NoDoubleSpend'
  <2>1. SpentYs' = SpentYs /\ SignedOuts' = SignedOuts
    BY <1>r DEF RemoveEffect, SpentYs, SignedOuts
  <2> QED
    BY <2>1, <1>r, SMTT(30) DEF RemoveEffect, SwapInv, NoDoubleSpend
<1>7. NothingStranded'
  <2>1. \A y \in Ys : proof'[y].state = "Pending" => saga_state'[proof'[y].op] # "None"
    BY <1>r, SMTT(30) DEF RemoveEffect, SwapInv, Owned, NothingStranded
  <2>2. \A b \in Outs : blind_signature'[b].state = "Unsigned"
                           => saga_state'[blind_signature'[b].op] # "None"
    BY <1>r DEF RemoveEffect, SwapInv, Owned, NothingStranded
  <2> QED
    BY <2>1, <2>2, SMTT(30) DEF NothingStranded
<1>8. ValueConserved'
  BY <1>r, SMTT(30) DEF RemoveEffect, SwapInv, ValueConserved
<1> QED
  BY <1>1, <1>2, <1>3, <1>4, <1>5, <1>6, <1>7, <1>8, Zenon DEF SwapInv

(* A step of the process's life or of the recovery loop that writes no     *)
(* table.                                                                  *)
LEMMA LifeInv ==
    ASSUME SwapInv,
           UNCHANGED <<storeVars, told, swapReq>>,
           mint' \in {"up", "down", "starting"},
           crashes' \in 0..MaxCrashes,
           swapPc' \in [SwapOps -> SwapPcs],
           \A p \in SwapOps : swapPc'[p] = "idle" <=> swapPc[p] = "idle",
           swapTodo' \subseteq SwapOps,
           \A p \in swapTodo' : swapPc[p] # "idle",
           \/ swapRec' \in {swapRec, NoRec}
           \/ \E o \in SwapOps :
                 /\ swapPc[o] # "idle"
                 /\ swapRec' = [op |-> o,
                                ys |-> ProofYsByOperationId(proof, o),
                                bs |-> BlindedSecretsByOperationId(blind_signature, o)]
    PROVE  SwapInv'
<1> USE DEF SwapInv, storeVars
<1>1. SwapTypeOK'
  <2>1. \A o \in SwapOps : /\ ProofYsByOperationId(proof, o) \in SUBSET Ys
                           /\ BlindedSecretsByOperationId(blind_signature, o) \in SUBSET Outs
    BY Zenon DEF ProofYsByOperationId, BlindedSecretsByOperationId
  <2> QED
    BY <2>1, SMTT(30) DEF SwapTypeOK, NoRec
<1>2. Owned' /\ NoDoubleSpend' /\ NothingStranded' /\ ValueConserved'
  BY DEF Owned, NoDoubleSpend, SpentYs, SignedOuts, NothingStranded, ValueConserved
<1>3. IdleIsFresh'
  BY OpsFacts, SMTT(30) DEF IdleIsFresh, NoRec
<1>4. SetUpIsBalanced'
  BY Zenon DEF SetUpIsBalanced
<1>5. RecoveryCovers'
  BY SMTT(30) DEF RecoveryCovers, ProofYsByOperationId, BlindedSecretsByOperationId
<1> QED
  BY <1>1, <1>2, <1>3, <1>4, <1>5, SMTT(30)

LEMMA NextInv == SwapInv /\ [Next]_vars => SwapInv'
<1> SUFFICES ASSUME SwapInv, [Next]_vars PROVE SwapInv'
  BY Zenon
<1>type. SwapTypeOK
  BY Zenon DEF SwapInv
<1>1. ASSUME NEW o \in SwapOps, SetupSwap(o) PROVE SwapInv'
  BY <1>1, SetupInv, Zenon
<1>2. ASSUME NEW o \in SwapOps, SignOutputs(o) PROVE SwapInv'
  <2>1. PICK pc \in {"Signed", "compensating"} : swapPc' = [swapPc EXCEPT ![o] = pc]
    BY <1>2, Zenon DEF SignOutputs
  <2> QED
    BY <1>2, <2>1, PcInv, Zenon DEF SignOutputs, SwapPcs
<1>3. ASSUME NEW o \in SwapOps, FinalizeSwap(o) PROVE SwapInv'
  BY <1>3, FinalizeInv, Zenon
<1>4. ASSUME NEW o \in SwapOps, FinalizeSwapFails(o) PROVE SwapInv'
  BY <1>4, PcInv, Zenon DEF FinalizeSwapFails, SwapPcs
<1>5. ASSUME NEW o \in SwapOps, CompensateSwap(o) PROVE SwapInv'
  <2> DEFINE ys == swapReq[o].ys
             bs == swapReq[o].bs
  <2>1. ys \in SUBSET Ys /\ bs \in SUBSET Outs
    BY <1>type, SMTT(30) DEF SwapTypeOK, SwapSetup
  <2>2. /\ swapPc' \in [SwapOps -> SwapPcs]
        /\ \A p \in SwapOps : swapPc'[p] = "idle" <=> swapPc[p] = "idle"
        /\ swapPc[o] # "idle"
        /\ RemoveSwapSetup(o, ys, bs)
        /\ UNCHANGED <<mint, told, swapReq, swapTodo, swapRec, crashes>>
    <3>1. \E pc \in SwapPcs \ {"idle"} : swapPc' = [swapPc EXCEPT ![o] = pc]
      BY <1>5, Zenon DEF CompensateSwap, SwapPcs
    <3>2. swapPc \in [SwapOps -> SwapPcs] /\ swapPc[o] # "idle"
      BY <1>5, <1>type, Zenon DEF CompensateSwap, SwapTypeOK
    <3>3. /\ swapPc' \in [SwapOps -> SwapPcs]
          /\ \A p \in SwapOps : swapPc'[p] = "idle" <=> swapPc[p] = "idle"
      BY ONLY <3>1, <3>2
    <3> QED
      BY <1>5, <3>2, <3>3, Zenon DEF CompensateSwap
  <2>3. /\ \A y \in Ys : proof[y].state # "None" /\ proof[y].op = o => y \in ys
        /\ \A b \in Outs : blind_signature[b].state = "Unsigned" /\ blind_signature[b].op = o
                               => b \in bs
    BY Zenon DEF SwapInv, Owned
  <2> HIDE DEF ys, bs
  <2> QED
    BY <2>1, <2>2, <2>3, RemoveInv, SMTT(30)
<1>6. ASSUME NEW o \in SwapOps, DropSwap(o) PROVE SwapInv'
  BY <1>6, PcInv, Zenon DEF DropSwap, Running, SwapPcs
<1>7. ASSUME NEW o \in SwapOps, RecoverSwapSaga(o) PROVE SwapInv'
  <2>1. \A p \in swapTodo : swapPc[p] # "idle"
    BY <1>type, Zenon DEF SwapInv, IdleIsFresh, SwapTypeOK
  <2> QED
    BY <1>7, <1>type, <2>1, LifeInv, SMTT(30) DEF RecoverSwapSaga, SwapTypeOK
<1>8. CASE CompensateSwapSaga
  <2>1. swapRec.op \in SwapOps /\ swapRec.ys \in SUBSET Ys /\ swapRec.bs \in SUBSET Outs
    BY <1>8, <1>type, SMTT(30) DEF CompensateSwapSaga, SwapInv, RecoveryCovers, SwapTypeOK
  <2>2. swapPc[swapRec.op] # "idle"
    BY <2>1, Zenon DEF SwapInv, IdleIsFresh
  <2>3. /\ \A y \in Ys : proof[y].state # "None" /\ proof[y].op = swapRec.op => y \in swapRec.ys
        /\ \A b \in Outs : blind_signature[b].state = "Unsigned"
                               /\ blind_signature[b].op = swapRec.op => b \in swapRec.bs
    BY <1>8, Zenon DEF CompensateSwapSaga, SwapInv, RecoveryCovers
  <2>4. /\ RemoveSwapSetup(swapRec.op, swapRec.ys, swapRec.bs)
        /\ UNCHANGED <<mint, told, swapReq, swapTodo, crashes>>
        /\ swapPc' \in [SwapOps -> SwapPcs]
        /\ \A p \in SwapOps : swapPc'[p] = "idle" <=> swapPc[p] = "idle"
        /\ swapRec' = NoRec
    BY <1>8, <1>type, Zenon DEF CompensateSwapSaga, SwapTypeOK
  <2> QED
    BY <2>1, <2>2, <2>3, <2>4, RemoveInv, SMTT(30)
<1>9. CASE SwapRecoveryAborts
  BY <1>9, <1>type, LifeInv, ZenonT(30) DEF SwapRecoveryAborts, SwapTypeOK
<1>10. CASE Crash
  <2>1. crashes' \in 0..MaxCrashes
    BY ONLY <1>10, <1>type, SwapAssumption, SMTT(30) DEF Crash, SwapTypeOK
  <2>2. /\ swapPc' \in [SwapOps -> SwapPcs]
        /\ \A p \in SwapOps : swapPc'[p] = "idle" <=> swapPc[p] = "idle"
    BY ONLY <1>10, <1>type, SMTT(30) DEF Crash, SwapTypeOK, Running, SwapPcs
  <2> QED
    BY <1>10, <2>1, <2>2, LifeInv, ZenonT(30) DEF Crash
<1>11. CASE StartMint
  <2>1. \A p \in IncompleteSwapSagas : p \in SwapOps /\ swapPc[p] # "idle"
    BY SMTT(30) DEF IncompleteSwapSagas, SwapInv, IdleIsFresh
  <2> QED
    BY <1>11, <1>type, <2>1, LifeInv, Zenon DEF StartMint, SwapTypeOK
<1>12. CASE StartDone
  BY <1>12, <1>type, LifeInv, SMTT(30) DEF StartDone, SwapTypeOK, swapVars
<1>13. CASE UNCHANGED vars
  <2>1. \A p \in swapTodo : swapPc[p] # "idle"
    BY <1>type, Zenon DEF SwapInv, IdleIsFresh, SwapTypeOK
  <2> QED
    BY <1>13, <1>type, <2>1, LifeInv, SMTT(30) DEF vars, swapVars, SwapTypeOK
<1> QED
  BY <1>1, <1>2, <1>3, <1>4, <1>5, <1>6, <1>7, <1>8, <1>9, <1>10, <1>11, <1>12, <1>13, Zenon
     DEF Next, SwapStep, SwapRecovery

(* SwapInv is an invariant of every behaviour of the saga.                 *)
THEOREM SwapInvariant == Spec => []SwapInv
<1> QED
  BY InitInv, NextInv, PTL DEF Spec

(* Every variable keeps its type, so that no statement is ever run on a    *)
(* row or a request of a shape the code does not expect.                   *)
THEOREM SwapTypeCorrect == Spec => []SwapTypeOK
<1>1. SwapInv => SwapTypeOK
  BY Zenon DEF SwapInv
<1> QED
  BY <1>1, SwapInvariant, PTL

(* No two completed swaps consume a proof or sign an output in common.     *)
THEOREM SwapNoDoubleSpend == Spec => []NoDoubleSpend
<1>1. SwapInv => NoDoubleSpend
  BY Zenon DEF SwapInv
<1> QED
  BY <1>1, SwapInvariant, PTL

(* Whatever fails and whenever the mint crashes, every reserved proof and  *)
(* output stays reachable from a saga row that recovery will look at.      *)
THEOREM SwapNothingStranded == Spec => []NothingStranded
<1>1. SwapInv => NothingStranded
  BY Zenon DEF SwapInv
<1> QED
  BY <1>1, SwapInvariant, PTL

(* The mint's books balance: redeemed = issued + fees.                     *)
THEOREM SwapValueConserved == Spec => []ValueConserved
<1>1. SwapInv => ValueConserved
  BY SMTT(30) DEF SwapInv
<1> QED
  BY <1>1, SwapInvariant, PTL

-----------------------------------------------------------------------------
(***************************************************************************)
(* What a step does to spent proofs and signed outputs, that the saga      *)
(* implements MintLedger, and what clients are told.                       *)
(***************************************************************************)
LedgerKept ==
    /\ SpentYs' = SpentYs /\ SignedOuts' = SignedOuts
    /\ UNCHANGED keyset_amounts
    /\ \A y \in SpentYs : proof'[y] = proof[y]
    /\ \A b \in SignedOuts : blind_signature'[b] = blind_signature[b]

(* What a step does to spent proofs and signed outputs: a FinalizeTx adds  *)
(* to them, any other step leaves them as they are.                        *)
LEMMA StepEffect ==
    ASSUME SwapInv, [Next]_vars
    PROVE  \/ LedgerKept
           \/ \E o \in SwapOps : swapPc[o] = "Signed" /\ FinalizeOk(o) /\ FinalizeTx(o)
<1>type. SwapTypeOK
  BY Zenon DEF SwapInv
<1>1. ASSUME NEW o \in SwapOps, SetupSwap(o)
      PROVE  LedgerKept
  <2> PICK ys \in (SUBSET Ys) \ {{}}, bs \in (SUBSET Outs) \ {{}} :
          /\ AddProofsOk(proof, ys)
          /\ AddBlindedMessagesOk(blind_signature, bs)
          /\ proof' = UpdateProofsState(AddProofs(proof, ys, o), ys, "Pending")
          /\ blind_signature' = AddBlindedMessages(blind_signature, bs, o)
    BY <1>1, Zenon DEF SetupSwap
  <2>1. \A y \in Ys : IF y \in ys THEN proof[y].state = "None" /\ proof'[y].state = "Pending"
                                  ELSE proof'[y] = proof[y]
    BY Zenon DEF UpdateProofsState, AddProofs, AddProofsOk
  <2>2. \A b \in Outs :
          IF b \in bs THEN blind_signature[b].state = "None" /\ blind_signature'[b].state = "Unsigned"
                      ELSE blind_signature'[b] = blind_signature[b]
    BY Zenon DEF AddBlindedMessages, AddBlindedMessagesOk
  <2>3. SpentYs' = SpentYs /\ \A y \in SpentYs : proof'[y] = proof[y]
    BY ONLY <2>1 DEF SpentYs
  <2>4. SignedOuts' = SignedOuts /\ \A b \in SignedOuts : blind_signature'[b] = blind_signature[b]
    BY ONLY <2>2, SMTT(30) DEF SignedOuts
  <2> QED
    BY <1>1, <2>3, <2>4, Zenon DEF LedgerKept, SetupSwap
<1>2. ASSUME NEW o \in SwapOps, NEW ys \in SUBSET Ys, NEW bs \in SUBSET Outs,
             RemoveSwapSetup(o, ys, bs)
      PROVE  LedgerKept
  <2>1. RemoveEffect(o, ys, bs)
    BY <1>2, RemoveFacts, Zenon
  <2>2. /\ UNCHANGED keyset_amounts
        /\ \A y \in Ys : \/ proof'[y] = proof[y]
                         \/ proof'[y].state = "None" /\ proof[y].state # "Spent"
        /\ \A b \in Outs : \/ blind_signature'[b] = blind_signature[b]
                           \/ /\ blind_signature'[b].state = "None"
                              /\ blind_signature[b].state = "Unsigned"
    BY <2>1, Zenon DEF RemoveEffect
  <2>3. SpentYs' = SpentYs /\ \A y \in SpentYs : proof'[y] = proof[y]
    BY ONLY <2>2 DEF SpentYs
  <2>4. SignedOuts' = SignedOuts /\ \A b \in SignedOuts : blind_signature'[b] = blind_signature[b]
    BY ONLY <2>2, SMTT(30) DEF SignedOuts
  <2> QED
    BY <2>2, <2>3, <2>4, SMTT(30) DEF LedgerKept
<1>3. ASSUME NEW o \in SwapOps, CompensateSwap(o)
      PROVE  RemoveSwapSetup(o, swapReq[o].ys, swapReq[o].bs)
             /\ swapReq[o].ys \in SUBSET Ys /\ swapReq[o].bs \in SUBSET Outs
  BY <1>3, <1>type, SMTT(30) DEF CompensateSwap, SwapTypeOK, SwapSetup
<1>4. CompensateSwapSaga =>
        /\ RemoveSwapSetup(swapRec.op, swapRec.ys, swapRec.bs)
        /\ swapRec.op \in SwapOps /\ swapRec.ys \in SUBSET Ys /\ swapRec.bs \in SUBSET Outs
  BY <1>type, SMTT(30) DEF CompensateSwapSaga, SwapInv, RecoveryCovers, SwapTypeOK
<1>5. UNCHANGED storeVars => LedgerKept
  BY Zenon DEF storeVars, LedgerKept, SpentYs, SignedOuts
<1>6. \/ UNCHANGED storeVars
      \/ CompensateSwapSaga
      \/ \E o \in SwapOps : SetupSwap(o) \/ CompensateSwap(o)
                           \/ (swapPc[o] = "Signed" /\ FinalizeOk(o) /\ FinalizeTx(o))
  BY Zenon DEF Next, SwapStep, SwapRecovery, SignOutputs, FinalizeSwap, FinalizeSwapFails, DropSwap,
         RecoverSwapSaga, SwapRecoveryAborts, Crash, StartMint, StartDone, vars
<1> QED
  BY <1>1, <1>2, <1>3, <1>4, <1>5, <1>6, Zenon

LEMMA FinalizeEffect ==
    ASSUME SwapInv, NEW o \in SwapOps, FinalizeOk(o), FinalizeTx(o)
    PROVE  /\ swapReq[o].ys \in SUBSET Ys /\ swapReq[o].bs \in SUBSET Outs
           /\ swapReq[o].ys \cap SpentYs = {} /\ swapReq[o].bs \cap SignedOuts = {}
           /\ SpentYs' = SpentYs \cup swapReq[o].ys
           /\ SignedOuts' = SignedOuts \cup swapReq[o].bs
           /\ \A y \in SpentYs : proof'[y] = proof[y]
           /\ \A b \in SignedOuts : blind_signature'[b] = blind_signature[b]
<1> USE DEF SwapInv
<1>1. swapReq[o].ys \in SUBSET Ys /\ swapReq[o].bs \in SUBSET Outs
  BY Zenon DEF SwapTypeOK, SwapSetup
<1>2. \A y \in Ys : IF y \in swapReq[o].ys
                    THEN proof[y].state # "Spent" /\ proof'[y].state = "Spent"
                    ELSE proof'[y] = proof[y]
  BY SMTT(30) DEF FinalizeTx, UpdateProofsState, FinalizeOk, UpdateProofsOk, CheckStateTransition,
         SwapTypeOK, ProofTable
<1>3. \A b \in Outs : IF b \in swapReq[o].bs
                      THEN /\ blind_signature[b].state # "Signed"
                           /\ blind_signature'[b].state = "Signed"
                      ELSE blind_signature'[b] = blind_signature[b]
  BY Zenon DEF FinalizeTx, AddBlindSignatures, FinalizeOk, AddBlindSignaturesOk, SwapSigs
<1> QED
  BY <1>1, <1>2, <1>3, Zenon DEF SpentYs, SignedOuts

(* No step un-spends a proof or takes a signature back.                    *)
THEOREM SwapSpentIsFinal == Spec => SpentIsFinal
<1>1. SwapInv /\ [Next]_vars =>
        [/\ \A y \in SpentYs : proof'[y] = proof[y]
         /\ \A b \in SignedOuts : blind_signature'[b] = blind_signature[b]]_vars
  BY StepEffect, FinalizeEffect, Zenon DEF LedgerKept
<1> QED
  BY <1>1, SwapInvariant, PTL DEF Spec, SpentIsFinal

(* The saga, with all its intermediate states, failures and recoveries,    *)
(* implements the atomic swap of MintLedger.                               *)
THEOREM SwapRefinesLedger == Spec => RefinesLedger
<1>1. Init => Ledger!Init
  BY DEF Init, StoreInit, NoProof, NoOutput, Ledger!Init, SpentYs, SignedOuts
<1>2. SwapInv /\ [Next]_vars => [Ledger!Next]_(Ledger!ledger)
  <2> SUFFICES ASSUME SwapInv, [Next]_vars PROVE [Ledger!Next]_(Ledger!ledger)
    BY Zenon
  <2>1. CASE LedgerKept
    BY <2>1, Zenon DEF LedgerKept, Ledger!ledger
  <2>2. ASSUME NEW o \in SwapOps, swapPc[o] = "Signed", FinalizeOk(o), FinalizeTx(o)
        PROVE  Ledger!Next
    <3>1. Ledger!Swap(swapReq[o].ys, swapReq[o].bs)
      BY <2>2, FinalizeEffect, Zenon
         DEF Ledger!Swap, SwapInv, SetUpIsBalanced, Balanced, FinalizeTx, AddAmounts
    <3> QED
      BY <2>2, <3>1, FinalizeEffect, Zenon DEF Ledger!Next
  <2> QED
    BY <2>1, <2>2, StepEffect, Zenon
<1> QED
  BY <1>1, <1>2, SwapInvariant, PTL DEF Spec, RefinesLedger, Ledger!Spec

(* A request that answered is in completed_operations, and what was        *)
(* published as Spent is Spent.                                            *)
AnsweredInv ==
    /\ \A o \in SwapOps : swapPc[o] = "done" => o \in completed_operations
    /\ ToldSpentIsSpent

LEMMA AnsweredStep ==
    ASSUME ~(DeleteSagaFails /\ AbortedCommitsOk), SwapInv, AnsweredInv, [Next]_vars
    PROVE  AnsweredInv'
<1>type. SwapTypeOK
  BY Zenon DEF SwapInv
<1>kept. UNCHANGED completed_operations => LedgerKept
  BY StepEffect, Zenon DEF FinalizeOk, FinalizeTx
<1>1. ASSUME NEW o \in SwapOps, SetupSwap(o) PROVE AnsweredInv'
  <2>1. LedgerKept
    BY <1>1, <1>kept, Zenon DEF SetupSwap
  <2>2. PICK ys \in SUBSET Ys : Publish(ys, "Pending")
    BY <1>1, Zenon DEF SetupSwap
  <2>3. \A y \in Ys : told'[y] = "Spent" => told[y] = "Spent"
    BY <2>2, Zenon DEF Publish
  <2>4. ToldSpentIsSpent'
    BY <2>1, <2>3, Zenon DEF AnsweredInv, ToldSpentIsSpent, LedgerKept, SpentYs
  <2>5. \A p \in SwapOps : swapPc'[p] = "done" => swapPc[p] = "done"
    BY <1>1, <1>type, Zenon DEF SetupSwap, SwapTypeOK
  <2> QED
    BY <1>1, <2>4, <2>5, Zenon DEF AnsweredInv, SetupSwap
<1>2. ASSUME NEW o \in SwapOps, FinalizeSwap(o) PROVE AnsweredInv'
  <2>1. FinalizeOk(o) /\ FinalizeTx(o)
    BY <1>2, Zenon DEF FinalizeSwap
  <2>2. SpentYs' = SpentYs \cup swapReq[o].ys /\ swapReq[o].ys \in SUBSET Ys
    BY <2>1, FinalizeEffect, SMTT(30)
  <2>3. \A y \in Ys : told'[y] = "Spent" => told[y] = "Spent" \/ y \in swapReq[o].ys
    BY <1>2, Zenon DEF FinalizeSwap, Publish
  <2>4. ToldSpentIsSpent'
    BY <2>2, <2>3, Zenon DEF AnsweredInv, ToldSpentIsSpent, SpentYs
  <2>5. \A p \in SwapOps : swapPc'[p] = "done" => swapPc[p] = "done" \/ p = o
    BY <1>2, <1>type, Zenon DEF FinalizeSwap, SwapTypeOK
  <2> QED
    BY <2>1, <2>4, <2>5, Zenon DEF AnsweredInv, FinalizeTx
<1>3. ASSUME LedgerKept, UNCHANGED <<told, completed_operations>>,
             \A p \in SwapOps : swapPc'[p] = "done" => swapPc[p] = "done"
      PROVE  AnsweredInv'
  BY <1>3, Zenon DEF AnsweredInv, ToldSpentIsSpent, LedgerKept, SpentYs
<1>4. \/ \E o \in SwapOps : SetupSwap(o) \/ FinalizeSwap(o)
      \/ UNCHANGED <<told, completed_operations>>
         /\ \A p \in SwapOps : swapPc'[p] = "done" => swapPc[p] = "done"
  BY <1>type, Zenon DEF Next, SwapStep, SwapRecovery, SignOutputs, FinalizeSwapFails, CompensateSwap,
         DropSwap, RecoverSwapSaga, CompensateSwapSaga, SwapRecoveryAborts, Crash, StartMint,
         StartDone, RemoveSwapSetup, RemoveSwapSetupTx, vars, storeVars, swapVars, SwapTypeOK
<1> QED
  BY <1>1, <1>2, <1>3, <1>4, <1>kept, Zenon

LEMMA AnsweredInvariant ==
    ASSUME ~(DeleteSagaFails /\ AbortedCommitsOk)
    PROVE  Spec => [](SwapInv /\ AnsweredInv)
<1>1. Init => AnsweredInv
  BY Zenon DEF Init, StoreInit, AnsweredInv, ToldSpentIsSpent
<1>2. SwapInv /\ AnsweredInv /\ [Next]_vars => AnsweredInv'
  BY AnsweredStep, Zenon
<1> QED
  BY <1>1, <1>2, SwapInvariant, PTL DEF Spec

(* On a database where a commit that succeeds has committed, a client that *)
(* holds the signatures of a swap has paid for them.                       *)
THEOREM SwapSignaturesPaidFor ==
    ASSUME ~(DeleteSagaFails /\ AbortedCommitsOk)
    PROVE  Spec => []SignaturesPaidFor
<1>1. SwapInv /\ AnsweredInv => SignaturesPaidFor
  BY Zenon DEF SwapInv, AnsweredInv, NoDoubleSpend, SignaturesPaidFor
<1> QED
  BY <1>1, AnsweredInvariant, PTL

(* On such a database nobody is ever told Spent about an unspent proof.    *)
THEOREM SwapToldSpentIsSpent ==
    ASSUME ~(DeleteSagaFails /\ AbortedCommitsOk)
    PROVE  Spec => []ToldSpentIsSpent
<1>1. AnsweredInv => ToldSpentIsSpent
  BY Zenon DEF AnsweredInv
<1> QED
  BY <1>1, AnsweredInvariant, PTL

-----------------------------------------------------------------------------
(***************************************************************************)
(* A request that fails leaves nothing behind, if no statement fails on    *)
(* its own and recovery runs only while no request is served: then every   *)
(* request under way owns all of its rows, and nobody else's compensation  *)
(* can come across them.                                                   *)
(***************************************************************************)
NoErrors == ~DbErrors /\ ~DeleteSagaFails /\ ~SecondStart

RowsOf(o, ys, bs) ==
    /\ ProofYsByOperationId(proof, o) = ys
    /\ BlindedSecretsByOperationId(blind_signature, o) = bs

OwnsAll(o) ==
    /\ RowsOf(o, swapReq[o].ys, swapReq[o].bs)
    /\ \A y \in swapReq[o].ys : proof[y].state = "Pending"
    /\ \A b \in swapReq[o].bs : blind_signature[b].state = "Unsigned"

LeftNothing(o) == saga_state[o] = "None" /\ RowsOf(o, {}, {})

AloneInv ==
    /\ mint = "up" => swapRec = NoRec /\ swapTodo = {}
    /\ mint # "up" => \A o \in SwapOps : swapPc[o] \notin Running
    /\ \A o \in SwapOps : swapPc[o] \in {"idle", "failed"} => LeftNothing(o)
    /\ \A o \in SwapOps : swapPc[o] \in Running => OwnsAll(o)

(* A step does not touch the rows of p.                                    *)
SameRows(p) ==
    /\ saga_state'[p] = saga_state[p] /\ swapReq'[p] = swapReq[p]
    /\ \A y \in Ys : \/ proof[y].op = p /\ proof[y].state # "None"
                     \/ proof'[y].op = p /\ proof'[y].state # "None"
                     => proof'[y] = proof[y]
    /\ \A b \in Outs : \/ blind_signature[b].op = p /\ blind_signature[b].state # "None"
                       \/ blind_signature'[b].op = p /\ blind_signature'[b].state # "None"
                       => blind_signature'[b] = blind_signature[b]

LEMMA SameRowsKept ==
    ASSUME NEW p \in SwapOps, SameRows(p)
    PROVE  /\ LeftNothing(p) => LeftNothing(p)'
           /\ OwnsAll(p) => OwnsAll(p)'
<1>1. ProofYsByOperationId(proof, p)' = ProofYsByOperationId(proof, p)
  BY Zenon DEF SameRows, ProofYsByOperationId
<1>2. BlindedSecretsByOperationId(blind_signature, p)' = BlindedSecretsByOperationId(blind_signature, p)
  BY Zenon DEF SameRows, BlindedSecretsByOperationId
<1>3. LeftNothing(p) => LeftNothing(p)'
  BY <1>1, <1>2, Zenon DEF LeftNothing, RowsOf, SameRows
<1>4. ASSUME OwnsAll(p) PROVE OwnsAll(p)'
  <2>1. RowsOf(p, swapReq[p].ys, swapReq[p].bs)' /\ swapReq'[p] = swapReq[p]
    BY <1>1, <1>2, <1>4, Zenon DEF OwnsAll, RowsOf, SameRows
  <2>2. ASSUME NEW y \in swapReq[p].ys PROVE proof'[y].state = "Pending"
    <3>1. y \in ProofYsByOperationId(proof, p) /\ proof[y].state = "Pending"
      BY <1>4, Zenon DEF OwnsAll, RowsOf
    <3> QED
      BY <3>1, Zenon DEF SameRows, ProofYsByOperationId
  <2>3. ASSUME NEW b \in swapReq[p].bs PROVE blind_signature'[b].state = "Unsigned"
    <3>1. b \in BlindedSecretsByOperationId(blind_signature, p) /\ blind_signature[b].state = "Unsigned"
      BY <1>4, Zenon DEF OwnsAll, RowsOf
    <3> QED
      BY <3>1, Zenon DEF SameRows, BlindedSecretsByOperationId
  <2> QED
    BY <2>1, <2>2, <2>3, Zenon DEF OwnsAll
<1> QED
  BY <1>3, <1>4, Zenon

(* A request takes a step: it keeps or gives up what it owns, the others   *)
(* are not concerned.                                                      *)
LEMMA RequestAlone ==
    ASSUME SwapInv, AloneInv, NEW o \in SwapOps, mint = "up",
           UNCHANGED <<mint, swapTodo, swapRec>>,
           \A p \in SwapOps \ {o} : SameRows(p) /\ swapPc'[p] = swapPc[p],
           swapPc'[o] \in {"idle", "failed"} => LeftNothing(o)',
           swapPc'[o] \in Running => OwnsAll(o)'
    PROVE  AloneInv'
<1>1. \A p \in SwapOps \ {o} : /\ LeftNothing(p) => LeftNothing(p)'
                               /\ OwnsAll(p) => OwnsAll(p)'
  BY SameRowsKept, Zenon
<1> QED
  BY <1>1, Zenon DEF AloneInv

LEMMA SetupAlone ==
    ASSUME SwapInv, AloneInv, NEW o \in SwapOps, SetupSwap(o)
    PROVE  AloneInv'
<1>t. SwapTypeOK /\ IdleIsFresh
  BY Zenon DEF SwapInv
<1>1. PICK ys \in SUBSET Ys, bs \in SUBSET Outs :
        /\ AddProofsOk(proof, ys)
        /\ AddBlindedMessagesOk(blind_signature, bs)
        /\ proof' = UpdateProofsState(AddProofs(proof, ys, o), ys, "Pending")
        /\ blind_signature' = AddBlindedMessages(blind_signature, bs, o)
        /\ swapReq' = [swapReq EXCEPT ![o] = [ys |-> ys, bs |-> bs]]
  BY Zenon DEF SetupSwap
<1>2. \A y \in Ys : IF y \in ys
                    THEN /\ proof[y].state = "None"
                         /\ proof'[y].state = "Pending" /\ proof'[y].op = o
                    ELSE proof'[y] = proof[y]
  BY <1>1, Zenon DEF UpdateProofsState, AddProofs, AddProofsOk
<1>3. \A b \in Outs : IF b \in bs
                      THEN /\ blind_signature[b].state = "None"
                           /\ blind_signature'[b].state = "Unsigned" /\ blind_signature'[b].op = o
                      ELSE blind_signature'[b] = blind_signature[b]
  BY <1>1, Zenon DEF AddBlindedMessages, AddBlindedMessagesOk
<1>4. /\ swapReq'[o] = [ys |-> ys, bs |-> bs] /\ \A p \in SwapOps \ {o} : swapReq'[p] = swapReq[p]
      /\ swapPc'[o] = "SetupComplete" /\ \A p \in SwapOps \ {o} : swapPc'[p] = swapPc[p]
      /\ \A p \in SwapOps \ {o} : saga_state'[p] = saga_state[p]
      /\ mint = "up" /\ UNCHANGED <<mint, swapTodo, swapRec>> /\ swapPc[o] = "idle"
  BY <1>t, <1>1, OpsFacts, Zenon DEF SetupSwap, SwapTypeOK
<1>5. RowsOf(o, {}, {})
  BY <1>4, Zenon DEF AloneInv, LeftNothing
<1>6. OwnsAll(o)'
  <2>1. \A y \in Ys : proof'[y].state # "None" /\ proof'[y].op = o <=> y \in ys
    BY <1>2, <1>5, Zenon DEF RowsOf, ProofYsByOperationId
  <2>2. \A b \in Outs : blind_signature'[b].state # "None" /\ blind_signature'[b].op = o <=> b \in bs
    BY <1>3, <1>5, Zenon DEF RowsOf, BlindedSecretsByOperationId
  <2>3. RowsOf(o, ys, bs)'
    BY <2>1, <2>2, Zenon DEF RowsOf, ProofYsByOperationId, BlindedSecretsByOperationId
  <2>4. swapReq'[o].ys = ys /\ swapReq'[o].bs = bs
    BY <1>4
  <2> QED
    BY <1>2, <1>3, <2>3, <2>4, Zenon DEF OwnsAll
<1>7. \A p \in SwapOps \ {o} : SameRows(p)
  BY <1>2, <1>3, <1>4, Zenon DEF SameRows
<1>8. "SetupComplete" \notin {"idle", "failed"}
  BY Zenon
<1> QED
  BY <1>4, <1>6, <1>7, <1>8, RequestAlone, Zenon

(* What a request under way finds when it finalizes or compensates: all of *)
(* its rows.                                                               *)
LEMMA FinalizeAlone ==
    ASSUME NoErrors, SwapInv, AloneInv, NEW o \in SwapOps, FinalizeSwap(o)
    PROVE  AloneInv'
<1>t. SwapTypeOK
  BY Zenon DEF SwapInv
<1>1. /\ mint = "up" /\ UNCHANGED <<mint, swapTodo, swapRec, swapReq>>
      /\ swapPc[o] = "Signed" /\ swapPc'[o] = "done" /\ \A p \in SwapOps \ {o} : swapPc'[p] = swapPc[p]
      /\ FinalizeTx(o) /\ SagaDeleted(o)
  BY <1>t, Zenon DEF FinalizeSwap, NoErrors, SwapTypeOK
<1>2. OwnsAll(o)
  BY <1>1, Zenon DEF AloneInv, Running
<1>3. \A y \in Ys : IF y \in swapReq[o].ys THEN proof[y].op = o /\ proof'[y].op = o
                                           ELSE proof'[y] = proof[y]
  <2>1. \A y \in swapReq[o].ys : proof[y].op = o
    BY <1>2, Zenon DEF OwnsAll, RowsOf, ProofYsByOperationId
  <2>2. \A y \in Ys : proof[y] \in [state : ProofState, op : Ops \cup {NoOp}]
    BY <1>t, Zenon DEF SwapTypeOK, ProofTable
  <2>3. \A y \in Ys : IF y \in swapReq[o].ys THEN proof'[y].op = proof[y].op ELSE proof'[y] = proof[y]
    BY <1>1, <2>2, Zenon DEF FinalizeTx, UpdateProofsState
  <2> QED
    BY <2>1, <2>3, Zenon
<1>4. \A b \in Outs : IF b \in swapReq[o].bs
                      THEN blind_signature[b].op = o /\ blind_signature'[b].op = o
                      ELSE blind_signature'[b] = blind_signature[b]
  <2>1. \A b \in swapReq[o].bs : blind_signature[b].op = o
    BY <1>2, Zenon DEF OwnsAll, RowsOf, BlindedSecretsByOperationId
  <2> QED
    BY <1>1, <2>1, Zenon DEF FinalizeTx, AddBlindSignatures, SwapSigs
<1>5. \A p \in SwapOps \ {o} : saga_state'[p] = saga_state[p]
  BY <1>t, <1>1, OpsFacts, Zenon DEF SagaDeleted, SwapTypeOK
<1>6. \A p \in SwapOps \ {o} : SameRows(p) /\ swapPc'[p] = swapPc[p]
  BY <1>1, <1>3, <1>4, <1>5, SMTT(30) DEF SameRows
<1>7. "done" \notin {"idle", "failed"} /\ "done" \notin Running
  BY Zenon DEF Running
<1> QED
  BY <1>1, <1>6, <1>7, RequestAlone, Zenon

LEMMA CompensateAlone ==
    ASSUME NoErrors, SwapInv, AloneInv, NEW o \in SwapOps, CompensateSwap(o)
    PROVE  AloneInv'
<1> DEFINE ys == swapReq[o].ys
           bs == swapReq[o].bs
<1>t. SwapTypeOK
  BY Zenon DEF SwapInv
<1>1. /\ mint = "up" /\ UNCHANGED <<mint, swapTodo, swapRec, swapReq>>
      /\ swapPc[o] = "compensating" /\ swapPc'[o] = "failed"
      /\ \A p \in SwapOps \ {o} : swapPc'[p] = swapPc[p]
      /\ RemoveSwapSetup(o, ys, bs)
  BY <1>t, Zenon DEF CompensateSwap, SwapTypeOK
<1>2. OwnsAll(o)
  BY <1>1, Zenon DEF AloneInv, Running
<1>3. ys # {}
  BY <1>1, Zenon DEF SwapInv, SetUpIsBalanced
<1>4. /\ \A y \in ys : proof[y].state = "Pending" /\ proof[y].op = o
      /\ \A b \in bs : blind_signature[b].state = "Unsigned" /\ blind_signature[b].op = o
      /\ \A y \in Ys : proof[y].op = o /\ proof[y].state # "None" => y \in ys
      /\ \A b \in Outs : blind_signature[b].op = o /\ blind_signature[b].state # "None" => b \in bs
  BY <1>2, Zenon DEF OwnsAll, RowsOf, ProofYsByOperationId, BlindedSecretsByOperationId
<1>5. RemoveProofsOk(proof, ys)
  BY <1>4, Zenon DEF RemoveProofsOk, Removable
<1>6. RemoveSwapSetupTx(ys, bs) /\ SagaDeleted(o)
  BY <1>1, <1>3, <1>5, Zenon DEF RemoveSwapSetup, NoErrors
<1>7. \A y \in Ys : IF y \in ys THEN proof'[y].state = "None" ELSE proof'[y] = proof[y]
  BY <1>5, <1>6, Zenon DEF RemoveSwapSetupTx, RemoveProofs, RemoveProofsOk, NoProof
<1>8. \A b \in Outs : IF b \in bs THEN blind_signature'[b].state = "None"
                                  ELSE blind_signature'[b] = blind_signature[b]
  BY <1>4, <1>6, Zenon DEF RemoveSwapSetupTx, DeleteBlindedMessages, NoOutput
<1>9. /\ saga_state'[o] = "None"
      /\ \A p \in SwapOps \ {o} : saga_state'[p] = saga_state[p]
  BY <1>t, <1>6, OpsFacts, Zenon DEF SagaDeleted, SwapTypeOK
<1>10. LeftNothing(o)'
  <2>1. \A y \in Ys : ~(proof'[y].state # "None" /\ proof'[y].op = o)
    BY <1>4, <1>7, Zenon
  <2>2. \A b \in Outs : ~(blind_signature'[b].state # "None" /\ blind_signature'[b].op = o)
    BY <1>4, <1>8, Zenon
  <2> QED
    BY <1>9, <2>1, <2>2, Zenon
       DEF LeftNothing, RowsOf, ProofYsByOperationId, BlindedSecretsByOperationId
<1>11. \A p \in SwapOps \ {o} : SameRows(p) /\ swapPc'[p] = swapPc[p]
  BY <1>1, <1>4, <1>7, <1>8, <1>9, SMTT(30) DEF SameRows
<1>12. "failed" \notin Running
  BY Zenon DEF Running
<1> QED
  BY <1>1, <1>10, <1>11, <1>12, RequestAlone, Zenon

(* Recovery only takes rows away, while no request is under way.           *)
LEMMA RecoveryAlone ==
    ASSUME SwapInv, AloneInv, CompensateSwapSaga
    PROVE  AloneInv'
<1>1. /\ swapRec # NoRec /\ swapRec' = NoRec /\ UNCHANGED <<mint, swapPc, swapTodo>>
      /\ RemoveSwapSetup(swapRec.op, swapRec.ys, swapRec.bs)
  BY Zenon DEF CompensateSwapSaga
<1>2. swapRec.op \in SwapOps /\ swapRec.ys \in SUBSET Ys /\ swapRec.bs \in SUBSET Outs
  BY <1>1, Zenon DEF SwapInv, SwapTypeOK, RecoveryCovers
<1>3. RemoveEffect(swapRec.op, swapRec.ys, swapRec.bs)
  BY <1>1, <1>2, RemoveFacts, Zenon
<1>4. /\ \A y \in Ys : proof'[y] = proof[y] \/ proof'[y].state = "None"
      /\ \A b \in Outs : blind_signature'[b] = blind_signature[b] \/ blind_signature'[b].state = "None"
      /\ \A p \in SwapOps : saga_state'[p] = saga_state[p] \/ saga_state'[p] = "None"
  BY <1>3, Zenon DEF RemoveEffect
<1>5. ASSUME NEW p \in SwapOps, LeftNothing(p) PROVE LeftNothing(p)'
  BY <1>4, <1>5, Zenon DEF LeftNothing, RowsOf, ProofYsByOperationId, BlindedSecretsByOperationId
<1>6. mint # "up"
  BY <1>1, Zenon DEF AloneInv
<1> QED
  BY <1>1, <1>5, <1>6, Zenon DEF AloneInv

(* The rows stay, and no request is where it was not.                      *)
LEMMA LifeAlone ==
    ASSUME AloneInv, UNCHANGED <<proof, blind_signature, saga_state, swapReq>>,
           \A p \in SwapOps : \/ swapPc'[p] = swapPc[p]
                              \/ swapPc[p] \in Running /\ swapPc'[p] \in Running \cup {"dropped"},
           mint' = "up" => swapRec' = NoRec /\ swapTodo' = {},
           mint' # "up" => \A p \in SwapOps : swapPc'[p] \notin Running
    PROVE  AloneInv'
<1>1. \A p \in SwapOps : LeftNothing(p)' = LeftNothing(p) /\ OwnsAll(p)' = OwnsAll(p)
  BY Zenon DEF LeftNothing, OwnsAll, RowsOf
<1>2. \A c \in Running \cup {"dropped"} : c \notin {"idle", "failed"}
  BY Zenon DEF Running
<1>3. "dropped" \notin Running
  BY Zenon DEF Running
<1> QED
  BY <1>1, <1>2, <1>3, Zenon DEF AloneInv

LEMMA AloneStep ==
    ASSUME NoErrors, SwapInv, AloneInv, [Next]_vars
    PROVE  AloneInv'
<1>t. SwapTypeOK
  BY Zenon DEF SwapInv
<1>r. "SetupComplete" \in Running /\ "Signed" \in Running /\ "compensating" \in Running
  BY Zenon DEF Running
<1>1. ASSUME NEW o \in SwapOps, SignOutputs(o) \/ FinalizeSwapFails(o) \/ DropSwap(o)
      PROVE  AloneInv'
  <2>1. /\ mint = "up" /\ UNCHANGED <<proof, blind_signature, saga_state, swapReq, mint, swapTodo, swapRec>>
        /\ swapPc[o] \in Running /\ swapPc'[o] \in Running \cup {"dropped"}
        /\ \A p \in SwapOps \ {o} : swapPc'[p] = swapPc[p]
    BY <1>t, <1>r, <1>1, Zenon
       DEF SignOutputs, FinalizeSwapFails, DropSwap, storeVars, SwapTypeOK
  <2>2. swapRec' = NoRec /\ swapTodo' = {} /\ mint' = "up"
    BY <2>1, Zenon DEF AloneInv
  <2> QED
    BY <2>1, <2>2, LifeAlone, Zenon
<1>2. ASSUME Crash PROVE AloneInv'
  <2>1. /\ UNCHANGED <<proof, blind_signature, saga_state, swapReq>> /\ mint' = "down"
        /\ \A p \in SwapOps : swapPc'[p] = IF swapPc[p] \in Running THEN "dropped" ELSE swapPc[p]
    BY <1>2, Zenon DEF Crash, storeVars
  <2>2. "dropped" \notin Running /\ "down" # "up"
    BY Zenon DEF Running
  <2> QED
    BY <2>1, <2>2, LifeAlone, Zenon
<1>3. ASSUME \/ \E o \in SwapOps : RecoverSwapSaga(o)
             \/ SwapRecoveryAborts \/ StartMint \/ StartDone \/ UNCHANGED vars
      PROVE  AloneInv'
  <2>1. UNCHANGED <<proof, blind_signature, saga_state, swapReq, swapPc>>
    BY <1>3, Zenon DEF RecoverSwapSaga, SwapRecoveryAborts, StartMint, StartDone, vars, storeVars, swapVars
  <2>2. mint' = "up" => swapRec' = NoRec /\ swapTodo' = {}
    <3>1. "starting" # "up"
      OBVIOUS
    <3> QED
      BY <1>3, <3>1, Zenon
         DEF RecoverSwapSaga, SwapRecoveryAborts, StartMint, StartDone, vars, swapVars, AloneInv, NoErrors
  <2>3. mint' # "up" => mint # "up"
    BY <1>3, Zenon
       DEF RecoverSwapSaga, SwapRecoveryAborts, StartMint, StartDone, vars, NoErrors
  <2>4. mint' # "up" => \A p \in SwapOps : swapPc'[p] \notin Running
    BY <2>1, <2>3, Zenon DEF AloneInv
  <2> QED
    BY <2>1, <2>2, <2>4, LifeAlone, Zenon
<1> QED
  BY <1>1, <1>2, <1>3, SetupAlone, FinalizeAlone, CompensateAlone, RecoveryAlone, Zenon
     DEF Next, SwapStep, SwapRecovery

(* If no statement fails on its own and recovery does not run beside       *)
(* requests, a swap that answered with an error has removed its saga and   *)
(* all of its rows (compensate_all).                                       *)
THEOREM SwapFailedLeavesNothing ==
    ASSUME NoErrors
    PROVE  Spec => []FailedLeavesNothing
<1>1. Init => AloneInv
  <2> SUFFICES ASSUME Init PROVE AloneInv
    BY Zenon
  <2>1. /\ mint = "up" /\ swapRec = NoRec /\ swapTodo = {}
        /\ \A o \in SwapOps : saga_state[o] = "None" /\ swapPc[o] = "idle"
        /\ \A y \in Ys : proof[y].state = "None"
        /\ \A b \in Outs : blind_signature[b].state = "None"
    BY OpsFacts, Zenon DEF Init, StoreInit, NoProof, NoOutput
  <2>2. "idle" \notin Running
    BY Zenon DEF Running
  <2> QED
    BY <2>1, <2>2, Zenon
       DEF AloneInv, LeftNothing, RowsOf, ProofYsByOperationId, BlindedSecretsByOperationId
<1>2. SwapInv /\ AloneInv /\ [Next]_vars => AloneInv'
  BY AloneStep, Zenon
<1>3. AloneInv => FailedLeavesNothing
  BY Zenon DEF AloneInv, FailedLeavesNothing, LeftNothing, RowsOf
<1> QED
  BY <1>1, <1>2, <1>3, SwapInvariant, PTL DEF Spec
=============================================================================
