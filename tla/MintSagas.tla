----------------------------- MODULE MintSagas -----------------------------
(***************************************************************************)
(* Swaps and melts of one mint, over one database: what a swap does to the *)
(* rows of a melt, and the other way round.  Both reserve proofs and       *)
(* insert outputs in the same tables, both delete them by Y and by B_, and *)
(* a crash ends, and a start recovers, the two of them: the swaps first.   *)
(***************************************************************************)
EXTENDS MintSwap, MintMelt

meltOwn == <<backVars, procVars>>
sagaVars == <<storeVars, mint, told, swapVars, meltOwn>>

SagasInit == Init /\ MeltInit

SwapOfSagas ==
    /\ \/ \E o \in SwapOps : SwapStep(o)
       \/ SwapRecovery
    /\ UNCHANGED meltOwn

SwapsRecovered == swapTodo = {} /\ swapRec = NoRec

MeltOfSagas ==
    /\ \/ \E o \in MeltOps : MeltStep(o)
       \/ SwapsRecovered /\ \E o \in MeltOps : RecoverMeltSaga(o)
       \/ \E w \in Workers : WorkerStep(w) \/ WorkerFails(w)
       \/ \E w \in Workers, q \in Quotes : PollQuote(w, q)
       \/ \E l \in LookupIds : LnSettles(l)
       \/ \E l \in InternalIds : InvoicePaid(l)
       \/ RotateSignatory
       \/ StoreKeysets
    /\ UNCHANGED swapVars

ProcessOfSagas ==
    \/ Crash /\ MeltCrash
    \/ StartMint /\ MeltStart
    \/ StartDone /\ MeltStartDone

SagasNext == SwapOfSagas \/ MeltOfSagas \/ ProcessOfSagas

SagasSpec == SagasInit /\ [][SagasNext]_sagaVars

(* A crashed mint is started again, and its recovery runs on: it is a loop *)
(* of awaits in one task, which the runtime keeps polling.                 *)
SagasFairness ==
    /\ WF_sagaVars(StartMint /\ MeltStart)
    /\ WF_sagaVars(StartDone /\ MeltStartDone)
    /\ WF_sagaVars(SwapRecovery /\ UNCHANGED meltOwn)
    /\ WF_sagaVars(SwapsRecovered /\ (\E o \in MeltOps : RecoverMeltSaga(o)) /\ UNCHANGED swapVars)
    /\ WF_sagaVars(WorkerStep("recovery") /\ UNCHANGED swapVars)

(***************************************************************************)
(* Properties.                                                             *)
(***************************************************************************)
(* What an operation was paid with: the inputs of a swap whose signatures  *)
(* are stored, and of a melt whose payment is under way or made.           *)
Consumed(o) ==
    IF o \in completed_operations \cap SwapOps THEN swapReq[o].ys
    ELSE IF o \in MeltOps /\ \E l \in LookupIds : ln[l].by = o /\ ln[l].state \in {"inflight", "paid"}
    THEN meltReq[o].ys
    ELSE {}

(* No proof pays for two things: a swap and a melt, or two of a kind, that *)
(* were both carried out had no input in common, though either may         *)
(* compensate, or be recovered, while the other one runs.                  *)
NoProofPaysTwice ==
    \A o, p \in SwapOps \cup MeltOps : o # p => Consumed(o) \cap Consumed(p) = {}
=============================================================================
