------------------------------ MODULE MintSwap ------------------------------
(***************************************************************************)
(* The swap saga of the mint: setup_swap (TX1), sign_outputs, finalize     *)
(* (TX2), the compensation RemoveSwapSetup, and the recovery of incomplete *)
(* sagas that Mint::start runs.                                            *)
(*                                                                         *)
(* Requests interleave at their awaits, so each transaction and the        *)
(* signing call are steps of their own.  A request can be dropped at any   *)
(* await (its HTTP client disconnects, or a commit returns an error), and  *)
(* the process can crash.                                                  *)
(***************************************************************************)
EXTENDS MintStore

CONSTANTS
    SwapOps,           \* the operation ids of swaps
    OutAmount,         \* the amount the client asks for on each output
    OutputsAmount(_),  \* the total of OutAmount over a set of outputs
    DbErrors,          \* can a statement or a commit fail?
    DeleteSagaFails,   \* can DELETE FROM saga_state fail on its own?
    AbortedCommitsOk,  \* PostgreSQL: after a failed statement COMMIT rolls
                       \* back, and reports success (SQLite: FALSE)
    SecondStart,       \* is start() called again, or by a second instance,
                       \* while requests are served?
    MaxCrashes

ASSUME SwapAssumption ==
    /\ SwapOps \subseteq Ops
    /\ OutAmount \in [Outs -> Nat]
    /\ \A bs \in SUBSET Outs : OutputsAmount(bs) \in Nat
    /\ {DbErrors, DeleteSagaFails, AbortedCommitsOk, SecondStart} \subseteq BOOLEAN
    /\ MaxCrashes \in Nat

VARIABLES
    swapPc,    \* where each swap request is
    swapReq,   \* its inputs and outputs, in the saga's memory
    swapTodo,  \* the sagas the running recovery has still to look at
    swapRec,   \* the RemoveSwapSetup the recovery is about to execute
    crashes

swapVars == <<swapPc, swapReq, swapTodo, swapRec, crashes>>
vars == <<storeVars, mint, told, swapVars>>

SwapSetup == [ys : SUBSET Ys, bs : SUBSET Outs]
NoSetup == [ys |-> {}, bs |-> {}]
NoRec == [op |-> NoOp, ys |-> {}, bs |-> {}]

SwapPcs == {"idle", "SetupComplete", "Signed", "compensating", "done", "failed", "dropped"}
Running == {"SetupComplete", "Signed", "compensating"}

(* Every store, program and publication variable has its type.             *)
SwapTypeOK ==
    /\ proof \in ProofTable
    /\ blind_signature \in OutputTable
    /\ saga_state \in [Ops -> {"None", "SetupComplete"}]
    /\ keyset_amounts \in AmountsRow
    /\ completed_operations \subseteq SwapOps
    /\ mint \in {"up", "down", "starting"}
    /\ told \in [Ys -> ProofState]
    /\ swapPc \in [SwapOps -> SwapPcs]
    /\ swapReq \in [SwapOps -> SwapSetup]
    /\ swapTodo \subseteq SwapOps
    /\ swapRec \in [op : SwapOps \cup {NoOp}, ys : SUBSET Ys, bs : SUBSET Outs]
    /\ crashes \in 0..MaxCrashes

Init ==
    /\ StoreInit
    /\ swapPc = [o \in SwapOps |-> "idle"]
    /\ swapReq = [o \in SwapOps |-> NoSetup]
    /\ swapTodo = {}
    /\ swapRec = NoRec
    /\ crashes = 0

Balanced(ys, bs) == OutputsAmount(bs) + CalculateFee(ys) = InputsAmount(ys)

(* setup_swap.  A request that fails one of the guards is answered with an *)
(* error and leaves nothing behind.                                        *)
SetupSwap(o) ==
    /\ mint = "up"
    /\ swapPc[o] = "idle"
    /\ \E ys \in (SUBSET Ys) \ {{}}, bs \in (SUBSET Outs) \ {{}} :
        /\ Balanced(ys, bs)
        /\ AddProofsOk(proof, ys)
        /\ AddBlindedMessagesOk(blind_signature, bs)
        /\ proof' = UpdateProofsState(AddProofs(proof, ys, o), ys, "Pending")
        /\ blind_signature' = AddBlindedMessages(blind_signature, bs, o)
        /\ swapReq' = [swapReq EXCEPT ![o] = [ys |-> ys, bs |-> bs]]
        /\ Publish(ys, "Pending")
    /\ saga_state' = [saga_state EXCEPT ![o] = "SetupComplete"]
    /\ swapPc' = [swapPc EXCEPT ![o] = "SetupComplete"]
    /\ UNCHANGED <<keyset_amounts, completed_operations, mint, swapTodo, swapRec, crashes>>

(* sign_outputs: the signer answers, or fails and the saga compensates.    *)
SignOutputs(o) ==
    /\ mint = "up"
    /\ swapPc[o] = "SetupComplete"
    /\ \E pc \in {"Signed", "compensating"} : swapPc' = [swapPc EXCEPT ![o] = pc]
    /\ UNCHANGED <<storeVars, mint, told, swapReq, swapTodo, swapRec, crashes>>

SwapSigs(o) == [b \in swapReq[o].bs |-> OutAmount[b]]

FinalizeOk(o) ==
    /\ AddBlindSignaturesOk(blind_signature, SwapSigs(o))
    /\ UpdateProofsOk(proof, swapReq[o].ys, "Spent")
    /\ o \notin completed_operations

(* What TX2 of finalize writes, saga_state apart.                          *)
FinalizeTx(o) ==
    /\ blind_signature' = AddBlindSignatures(blind_signature, SwapSigs(o))
    /\ proof' = UpdateProofsState(proof, swapReq[o].ys, "Spent")
    /\ keyset_amounts' =
           AddAmounts(keyset_amounts, OutputsAmount(swapReq[o].bs),
                      InputsAmount(swapReq[o].ys), CalculateFee(swapReq[o].ys))
    /\ completed_operations' = completed_operations \cup {o}

SagaDeleted(o) == saga_state' = [saga_state EXCEPT ![o] = "None"]

(* Mutant: the result of the commit is not looked at.                      *)
FinalizeSwapMutant(o) ==
    /\ mint = "up"
    /\ swapPc[o] = "Signed"
    /\ FinalizeOk(o)
    /\ (FinalizeTx(o) /\ SagaDeleted(o)) \/ UNCHANGED storeVars
    /\ Publish(swapReq[o].ys, "Spent")
    /\ swapPc' = [swapPc EXCEPT ![o] = "done"]
    /\ UNCHANGED <<mint, swapReq, swapTodo, swapRec, crashes>>

(* finalize, up to a successful commit and the response.  Deleting the     *)
(* saga is best effort.                                                    *)
FinalizeSwap(o) ==
    /\ mint = "up"
    /\ swapPc[o] = "Signed"
    /\ FinalizeOk(o)
    /\ \/ FinalizeTx(o) /\ SagaDeleted(o)
       \/ DeleteSagaFails /\ ~AbortedCommitsOk /\ FinalizeTx(o) /\ UNCHANGED saga_state
       \/ DeleteSagaFails /\ AbortedCommitsOk /\ UNCHANGED storeVars
    /\ Publish(swapReq[o].ys, "Spent")
    /\ swapPc' = [swapPc EXCEPT ![o] = "done"]
    /\ UNCHANGED <<mint, swapReq, swapTodo, swapRec, crashes>>

(* finalize, when a statement of TX2 fails: rollback, then compensate_all. *)
FinalizeSwapFails(o) ==
    /\ mint = "up"
    /\ swapPc[o] = "Signed"
    /\ DbErrors \/ ~FinalizeOk(o)
    /\ swapPc' = [swapPc EXCEPT ![o] = "compensating"]
    /\ UNCHANGED <<storeVars, mint, told, swapReq, swapTodo, swapRec, crashes>>

(* Mutant: the outputs are left behind.                                    *)
RemoveSwapSetupTxMutant(ys, bs) ==
    /\ proof' = RemoveProofs(proof, ys)
    /\ UNCHANGED <<blind_signature, keyset_amounts, completed_operations>>

(* RemoveSwapSetup::execute, one transaction.  Its error is logged by the  *)
(* caller and the transaction is rolled back.                              *)
RemoveSwapSetupTx(ys, bs) ==
    /\ blind_signature' = DeleteBlindedMessages(blind_signature, bs)
    /\ proof' = RemoveProofs(proof, ys)
    /\ UNCHANGED <<keyset_amounts, completed_operations>>

RemoveSwapSetup(o, ys, bs) ==
    \/ /\ \/ ys = {} /\ bs = {}
          \/ ~RemoveProofsOk(proof, ys)
          \/ DbErrors
          \/ DeleteSagaFails /\ AbortedCommitsOk
       /\ UNCHANGED storeVars
    \/ /\ ys # {} \/ bs # {}
       /\ RemoveProofsOk(proof, ys)
       /\ RemoveSwapSetupTx(ys, bs)
       /\ \/ SagaDeleted(o)
          \/ DeleteSagaFails /\ ~AbortedCommitsOk /\ UNCHANGED saga_state

(* compensate_all of a request whose signing or finalization failed.       *)
CompensateSwap(o) ==
    /\ mint = "up"
    /\ swapPc[o] = "compensating"
    /\ RemoveSwapSetup(o, swapReq[o].ys, swapReq[o].bs)
    /\ swapPc' = [swapPc EXCEPT ![o] = "failed"]
    /\ UNCHANGED <<mint, told, swapReq, swapTodo, swapRec, crashes>>

(* The request's future is dropped at an await, or a `?` on begin or       *)
(* commit leaves it without compensation.                                  *)
DropSwap(o) ==
    /\ mint = "up"
    /\ swapPc[o] \in Running
    /\ swapPc' = [swapPc EXCEPT ![o] = "dropped"]
    /\ UNCHANGED <<storeVars, mint, told, swapReq, swapTodo, swapRec, crashes>>

Crash ==
    /\ mint # "down"
    /\ crashes < MaxCrashes
    /\ crashes' = crashes + 1
    /\ mint' = "down"
    /\ swapPc' = [o \in SwapOps |-> IF swapPc[o] \in Running THEN "dropped" ELSE swapPc[o]]
    /\ swapTodo' = {}
    /\ swapRec' = NoRec
    /\ UNCHANGED <<storeVars, told, swapReq>>

(* get_incomplete_sagas(Swap), at the head of start().                     *)
IncompleteSwapSagas == {o \in SwapOps : saga_state[o] # "None"}

StartMint ==
    /\ \/ mint = "down" /\ mint' = "starting"
       \/ SecondStart /\ mint = "up" /\ swapTodo = {} /\ swapRec = NoRec /\ UNCHANGED mint
    /\ swapTodo' = IncompleteSwapSagas
    /\ UNCHANGED <<storeVars, told, swapPc, swapReq, swapRec, crashes>>

(* The body of the recovery loop: look up what the saga owns ...           *)
RecoverSwapSaga(o) ==
    /\ o \in swapTodo
    /\ swapRec = NoRec
    /\ swapRec' = [op |-> o,
                   ys |-> ProofYsByOperationId(proof, o),
                   bs |-> BlindedSecretsByOperationId(blind_signature, o)]
    /\ swapTodo' = swapTodo \ {o}
    /\ UNCHANGED <<storeVars, mint, told, swapPc, swapReq, crashes>>

(* ... and compensate it.                                                  *)
CompensateSwapSaga ==
    /\ swapRec # NoRec
    /\ RemoveSwapSetup(swapRec.op, swapRec.ys, swapRec.bs)
    /\ swapRec' = NoRec
    /\ UNCHANGED <<mint, told, swapPc, swapReq, swapTodo, crashes>>

(* The lookups end the whole recovery with `?` when they fail; start()     *)
(* only logs that.                                                         *)
SwapRecoveryAborts ==
    /\ DbErrors
    /\ swapTodo # {}
    /\ swapRec = NoRec
    /\ swapTodo' = {}
    /\ UNCHANGED <<storeVars, mint, told, swapPc, swapReq, swapRec, crashes>>

StartDone ==
    /\ mint = "starting"
    /\ swapTodo = {}
    /\ swapRec = NoRec
    /\ mint' = "up"
    /\ UNCHANGED <<storeVars, told, swapVars>>

SwapStep(o) ==
    \/ SetupSwap(o)
    \/ SignOutputs(o)
    \/ FinalizeSwap(o)
    \/ FinalizeSwapFails(o)
    \/ CompensateSwap(o)
    \/ DropSwap(o)

SwapRecovery ==
    \/ \E o \in SwapOps : RecoverSwapSaga(o)
    \/ CompensateSwapSaga
    \/ SwapRecoveryAborts

Next ==
    \/ \E o \in SwapOps : SwapStep(o)
    \/ SwapRecovery
    \/ Crash
    \/ StartMint
    \/ StartDone

Spec == Init /\ [][Next]_vars

(***************************************************************************)
(* Properties.                                                             *)
(***************************************************************************)
SpentYs == {y \in Ys : proof[y].state = "Spent"}
SignedOuts == {b \in Outs : blind_signature[b].state = "Signed"}

(* Value is conserved: what keyset_amounts says was redeemed is what it    *)
(* says was issued plus the fees collected, however setups, compensations  *)
(* and recoveries interleave.                                              *)
ValueConserved == keyset_amounts.redeemed = keyset_amounts.issued + keyset_amounts.fee

(* No two completed swaps consumed the same proof or signed the same       *)
(* output, and what a completed swap consumed stays Spent: TX2 looks its   *)
(* proofs up by Y, whoever owns the rows by then.                          *)
NoDoubleSpend ==
    /\ \A o \in completed_operations :
          swapReq[o].ys \subseteq SpentYs /\ swapReq[o].bs \subseteq SignedOuts
    /\ \A o, p \in completed_operations :
          o # p => /\ swapReq[o].ys \cap swapReq[p].ys = {}
                   /\ swapReq[o].bs \cap swapReq[p].bs = {}

(* Every Pending proof and every unsigned output belongs to an operation   *)
(* with a row in saga_state.  Recovery starts from that table alone, so a  *)
(* row without a saga would keep the client's money out of reach for ever. *)
NothingStranded ==
    /\ \A y \in Ys : proof[y].state = "Pending" => saga_state[proof[y].op] # "None"
    /\ \A b \in Outs :
          blind_signature[b].state = "Unsigned" => saga_state[blind_signature[b].op] # "None"

(* A client that got its signatures has paid for them: the inputs of a     *)
(* swap that answered are Spent and its signatures are stored.             *)
SignaturesPaidFor ==
    \A o \in SwapOps : swapPc[o] = "done" =>
        swapReq[o].ys \subseteq SpentYs /\ swapReq[o].bs \subseteq SignedOuts

(* A subscriber that was told Spent was told the truth: finalize publishes *)
(* only after the commit, and nothing un-spends a proof later.             *)
ToldSpentIsSpent == \A y \in Ys : told[y] = "Spent" => proof[y].state = "Spent"

(* A swap that answered with an error leaves no trace when no statement    *)
(* failed on its own: its inputs and outputs can be used again at once.    *)
FailedLeavesNothing ==
    \A o \in SwapOps : swapPc[o] = "failed" =>
        /\ saga_state[o] = "None"
        /\ ProofYsByOperationId(proof, o) = {}
        /\ BlindedSecretsByOperationId(blind_signature, o) = {}

(* No step un-spends a proof or takes back, changes or re-assigns a        *)
(* signature: RemoveSwapSetup deletes by Y and by B_, also rows that a     *)
(* later operation completed.                                              *)
SpentIsFinal ==
    [][/\ \A y \in SpentYs : proof'[y] = proof[y]
       /\ \A b \in SignedOuts : blind_signature'[b] = blind_signature[b]]_vars

(* The proofs of a swap that a crash leaves Pending are released or spent  *)
(* eventually.                                                             *)
CrashedInputsResolved ==
    \A y \in Ys :
        (mint = "down" /\ proof[y].state = "Pending" /\ proof[y].op \in SwapOps)
            ~> (proof[y].state # "Pending")

(* The inputs of a swap that answered are never released: "Don't rollback  *)
(* - swap succeeded, orphaned saga is harmless" (swap_saga/mod.rs:436).    *)
AnsweredSwapKeepsInputs ==
    \A o \in SwapOps : swapPc[o] = "done" =>
        \A y \in swapReq[o].ys : proof[y].state \in {"Pending", "Spent"}

(* The saga implements the atomic swap of MintLedger.                      *)
Ledger == INSTANCE MintLedger WITH
    InputFee <- CalculateFee,
    spent    <- SpentYs,
    signed   <- SignedOuts,
    amounts  <- keyset_amounts

RefinesLedger == Ledger!Spec
=============================================================================
