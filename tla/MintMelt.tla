------------------------------ MODULE MintMelt ------------------------------
(***************************************************************************)
(* The melt saga of the mint: a client hands in proofs and the mint pays a *)
(* Lightning request.  Three kinds of actors race for a quote:             *)
(*   - the request itself: setup_melt (TX1), attempt_internal_settlement,  *)
(*     make_payment, finalize (TX2), with RemoveMeltSetup as compensation; *)
(*   - check_melt_quote, which resumes a Pending quote whenever a client   *)
(*     polls it;                                                           *)
(*   - recover_from_incomplete_melt_sagas, run by Mint::start.             *)
(* The last two are workers: both end in the same shared functions         *)
(* rollback_melt_quote and finalize_melt_quote.  Every transaction, every  *)
(* call of the payment backend and every read between two awaits is a step *)
(* of its own.  The backend is external: only what it may answer is here.  *)
(***************************************************************************)
EXTENDS MintMeltStore

(***************************************************************************)
(* The payment backend (external).  What it can answer about a payment is  *)
(* what happened to it; an error or a lagging answer hides that.           *)
(***************************************************************************)
CheckOutgoingPayment(l) ==
    (CASE ln[l].state = "none" -> {"Unknown"}
       [] ln[l].state = "inflight" -> {"Pending"}
       [] ln[l].state = "paid" -> {"Paid"}
       [] ln[l].state = "failed" -> {"Failed"})
    \cup (IF CheckErrors THEN {"error"} ELSE {})

(* An in-flight payment is settled or fails.                               *)
LnSettles(l) ==
    /\ ln[l].state = "inflight"
    /\ \/ \E f \in PayFees : ln' = [ln EXCEPT ![l].state = "paid", ![l].fee = f]
       \/ ln' = [ln EXCEPT ![l].state = "failed"]
    /\ UNCHANGED <<storeVars, mint, told, melt_quote, melt_request, mint_payments, procVars>>

(* Someone pays the invoice of the mint quote over Lightning.              *)
InvoicePaid(l) ==
    /\ mint = "up"
    /\ mint_payments[l] = {}
    /\ mint_payments' = [mint_payments EXCEPT ![l] = {"invoice"}]
    /\ UNCHANGED <<storeVars, mint, told, melt_quote, melt_request, ln, procVars>>

TotalSpent(q) == QuoteAmount[q] + ln[LookupId[q]].fee

(***************************************************************************)
(* The melt request.                                                       *)
(***************************************************************************)
Covers(q, ys) == InputsAmount(ys) >= QuoteAmount[q] + FeeReserve[q] + CalculateFee(ys)

(* setup_melt.  A request that fails one of the guards is answered with an *)
(* error and leaves nothing behind.                                        *)
SetupMelt(o) ==
    /\ mint = "up"
    /\ meltPc[o] = "idle"
    /\ \E q \in Quotes, ys \in (SUBSET Ys) \ {{}}, bs \in SUBSET Outs :
        /\ Retries \/ ln[LookupId[q]].state # "failed"
        /\ NoConflict(q)
        /\ AddProofsOk(proof, ys)
        /\ melt_quote[q] \in {"Unpaid", "Failed"}
        /\ Covers(q, ys)
        /\ melt_request[q] = NoOp
        /\ AddBlindedMessagesOk(blind_signature, bs)
        /\ proof' = UpdateProofsState(AddProofs(proof, ys, o), ys, "Pending")
        /\ blind_signature' = AddBlindedMessages(blind_signature, bs, o)
        /\ melt_quote' = [melt_quote EXCEPT ![q] = "Pending"]
        /\ melt_request' = [melt_request EXCEPT ![q] = o]
        /\ meltReq' = [meltReq EXCEPT ![o] = [quote |-> q, ys |-> ys, bs |-> bs]]
        /\ Publish(ys, "Pending")
    /\ saga_state' = [saga_state EXCEPT ![o] = "SetupComplete"]
    /\ GoTo(o, "setup")
    /\ retired' = IF rotation = "signatory" THEN retired \cup {o} ELSE retired
    /\ UNCHANGED <<keyset_amounts, completed_operations, mint, mint_payments, ln,
                   meltMem, work, meltTodo, meltCrashes, rotation>>

(* attempt_internal_settlement: the request is an invoice of a mint quote  *)
(* of this mint, which is credited in one transaction with the saga state; *)
(* one that is already paid makes the melt compensate.                     *)
InternalSettlement(o) ==
    LET q == meltReq[o].quote
        l == LookupId[q]
    IN  /\ mint = "up"
        /\ meltPc[o] = "setup"
        /\ \/ /\ l \notin InternalIds
              /\ GoTo(o, "external")
              /\ UNCHANGED <<saga_state, mint_payments, meltMem>>
           \/ /\ MeltDbErrors \/ (l \in InternalIds /\ mint_payments[l] # {})
              /\ GoTo(o, "compensating")
              /\ UNCHANGED <<saga_state, mint_payments, meltMem>>
           \/ /\ l \in InternalIds
              /\ mint_payments[l] = {}
              /\ UpdateSaga(o, "PaymentAttempted")
              /\ mint_payments' = [mint_payments EXCEPT ![l] = {q}]
              /\ meltMem' = [meltMem EXCEPT ![o].spent = QuoteAmount[q]]
              /\ GoTo(o, "confirmed")
        /\ UNCHANGED <<proof, blind_signature, keyset_amounts, completed_operations, mint, told,
                       melt_quote, melt_request, ln, meltReq, work, meltTodo, runVars>>

(* Mutant: the write-ahead record of the attempt is left out.              *)
AttemptPaymentMutant(o) ==
    /\ mint = "up"
    /\ meltPc[o] = "external"
    /\ GoTo(o, "attempted")
    /\ UNCHANGED <<storeVars, mint, told, backVars, meltReq, meltMem, work, meltTodo, runVars>>

(* attempt_external_payment, first half: PaymentAttempted is on disk       *)
(* before the backend is called ...                                        *)
AttemptPayment(o) ==
    /\ mint = "up"
    /\ meltPc[o] = "external"
    /\ UpdateSaga(o, "PaymentAttempted")
    /\ GoTo(o, "attempted")
    /\ UNCHANGED <<proof, blind_signature, keyset_amounts, completed_operations, mint, told,
                   backVars, meltReq, meltMem, work, meltTodo, runVars>>

(* ... then make_payment is called: the backend sends the payment, or      *)
(* refuses it, as it does one that is in flight or paid.                   *)
MakePayment(o) ==
    LET l == LookupId[meltReq[o].quote]
    IN  /\ mint = "up"
        /\ meltPc[o] = "attempted"
        /\ \/ /\ ln[l].state \in {"none", "failed"}
              /\ ln' = [ln EXCEPT ![l] = [state |-> "inflight", by |-> o, fee |-> 0]]
           \/ UNCHANGED ln
        /\ GoTo(o, "paying")
        /\ UNCHANGED <<storeVars, mint, told, melt_quote, melt_request, mint_payments,
                       meltReq, meltMem, work, meltTodo, runVars>>

(* make_payment returns: Paid, Pending, or an error or anything else.      *)
PaymentReturns(o) ==
    LET q == meltReq[o].quote
        l == LookupId[q]
    IN  /\ mint = "up"
        /\ meltPc[o] = "paying"
        /\ \/ /\ ln[l].state = "paid" /\ ln[l].by = o
              /\ meltMem' = [meltMem EXCEPT ![o].spent = TotalSpent(q)]
              /\ GoTo(o, "confirmed")
           \/ /\ ln[l].state # "none" /\ ln[l].by = o
              /\ GoTo(o, "verifyPending")
              /\ UNCHANGED meltMem
           \/ /\ GoTo(o, "verify")
              /\ UNCHANGED meltMem
        /\ UNCHANGED <<storeVars, mint, told, backVars, meltReq, work, meltTodo, runVars>>

(* verify_ambiguous_payment and handle_payment_error: what the saga does   *)
(* with the status of the follow-up check.                                 *)
Verified(pc, status) ==
    CASE status = "Paid" -> "confirmed"
      [] status = "Failed" -> "compensating"
      [] status = "Unknown" -> IF pc = "verifyPending" THEN "failed" ELSE "compensating"
      [] status \in {"Pending", "error"} -> "failed"

VerifyPayment(o) ==
    LET q == meltReq[o].quote
        lag == LnLag /\ meltPc[o] = "verifyPending"
    IN  /\ mint = "up"
        /\ meltPc[o] \in {"verify", "verifyPending"}
        /\ \E s \in CheckOutgoingPayment(LookupId[q]) \cup (IF lag THEN {"Unknown"} ELSE {}) :
              /\ GoTo(o, Verified(meltPc[o], s))
              /\ meltMem' = [meltMem EXCEPT ![o].spent = IF s = "Paid" THEN TotalSpent(q) ELSE 0]
        /\ UNCHANGED <<storeVars, mint, told, backVars, meltReq, work, meltTodo, runVars>>

FinalizeMeltOk(o) ==
    LET q == meltReq[o].quote
    IN  /\ NoConflict(q)
        /\ melt_request[q] # NoOp
        /\ FinalizeCoreOk(q, meltReq[o].ys, meltMem[o].spent, FALSE)

(* The end of finalize, in the transaction that stored the change.         *)
CompleteMelt(o, issued, redeemed) ==
    /\ DeleteMeltSaga(o)
    /\ completed_operations' = completed_operations \cup {o}
    /\ keyset_amounts' = AddAmounts(keyset_amounts, issued, redeemed, InputsFee(o))
    /\ GoTo(o, "done")

(* finalize, first transaction: mark the inputs Spent and the quote Paid.  *)
(* Without change that is the only one.                                    *)
FinalizeMelt(o) ==
    LET q == meltReq[o].quote
        r == melt_request[q]
        redeemed == InputsAmount(meltReq[o].ys)
    IN  /\ mint = "up"
        /\ meltPc[o] = "confirmed"
        /\ FinalizeMeltOk(o)
        /\ FinalizeCore(q, meltReq[o].ys)
        /\ \/ /\ ~NeedsChange(r, meltMem[o].spent, FALSE)
              /\ DeleteMeltRequest(q, blind_signature)
              /\ CompleteMelt(o, 0, redeemed)
              /\ UNCHANGED meltMem
           \/ /\ NeedsChange(r, meltMem[o].spent, FALSE)
              /\ UpdateSaga(o, "Finalizing")
              /\ keyset_amounts' = AddAmounts(keyset_amounts, 0, redeemed, 0)
              /\ meltMem' = [meltMem EXCEPT
                    ![o].bs = OutputsByQuoteId(blind_signature, q, "Unsigned"), ![o].req = r]
              /\ GoTo(o, "change")
              /\ UNCHANGED <<blind_signature, completed_operations, melt_request>>
        /\ UNCHANGED <<mint, mint_payments, ln, meltReq, work, meltTodo, runVars>>

(* Mutant: a finalization that fails is compensated.                       *)
FinalizeMeltFailsMutant(o) ==
    /\ mint = "up"
    /\ meltPc[o] = "confirmed"
    /\ \/ ~FinalizeMeltOk(o) /\ UNCHANGED told
       \/ MeltDbErrors /\ FinalizeMeltOk(o) /\ Publish(meltReq[o].ys, "Spent")
    /\ GoTo(o, "compensating")
    /\ UNCHANGED <<storeVars, mint, backVars, meltReq, meltMem, work, meltTodo, runVars>>

(* finalize, when the first transaction fails: the payment was made, so    *)
(* nothing is compensated.  A failed commit comes after Spent was          *)
(* published.                                                              *)
FinalizeMeltFails(o) ==
    /\ mint = "up"
    /\ meltPc[o] = "confirmed"
    /\ \/ ~FinalizeMeltOk(o) /\ UNCHANGED told
       \/ MeltDbErrors /\ FinalizeMeltOk(o) /\ Publish(meltReq[o].ys, "Spent")
    /\ GoTo(o, "failed")
    /\ UNCHANGED <<storeVars, mint, backVars, meltReq, meltMem, work, meltTodo, runVars>>

(* finalize, second transaction: sign and store the change.                *)
ChangeMelt(o) ==
    LET mem == meltMem[o]
        target == ChangeTarget(mem.req, mem.spent)
    IN  /\ mint = "up"
        /\ meltPc[o] = "change"
        /\ mem.bs = {} \/ CanSign(mem.req, target)
        /\ \E sigs \in ChangeSigs(mem.bs, target) :
              /\ StoreChange(meltReq[o].quote, sigs)
              /\ CompleteMelt(o, SigsAmount(sigs), 0)
        /\ UNCHANGED <<proof, mint, told, melt_quote, mint_payments, ln, meltReq, meltMem,
                       work, meltTodo, runVars>>

(* compensate_all with the one RemoveMeltSetup; its error is only logged.  *)
CompensateMelt(o) ==
    /\ mint = "up"
    /\ meltPc[o] = "compensating"
    /\ RollbackMeltQuote(o, meltReq[o].quote, meltReq[o].ys, meltReq[o].bs)
    /\ GoTo(o, "failed")
    /\ UNCHANGED <<mint, meltReq, meltMem, work, meltTodo, runVars>>

(* The request's future is dropped at an await, or a `?` ends it without   *)
(* compensation.                                                           *)
DropMelt(o) ==
    /\ mint = "up"
    /\ meltPc[o] \in LiveMeltPcs
    /\ GoTo(o, "failed")
    /\ UNCHANGED <<storeVars, mint, told, backVars, meltReq, meltMem, work, meltTodo, runVars>>

MeltStep(o) ==
    \/ SetupMelt(o)
    \/ InternalSettlement(o)
    \/ AttemptPayment(o)
    \/ MakePayment(o)
    \/ PaymentReturns(o)
    \/ VerifyPayment(o)
    \/ FinalizeMelt(o)
    \/ FinalizeMeltFails(o)
    \/ ChangeMelt(o)
    \/ CompensateMelt(o)
    \/ DropMelt(o)

(***************************************************************************)
(* Workers: check_melt_quote and the recovery loop.                        *)
(***************************************************************************)
MeltSagas(q) == {o \in MeltOps : saga_state[o] # "None" /\ OfQuote(o, q)}

(* check_melt_quote reads a Pending quote ...                              *)
PollQuote(w, q) ==
    /\ w # "recovery"
    /\ WorkerAt(w, "idle")
    /\ melt_quote[q] = "Pending"
    /\ Becomes(w, [Idle EXCEPT !.pc = "find", !.quote = q])
    /\ UNCHANGED <<storeVars, mint, told, backVars, meltPc, meltReq, meltMem, meltTodo, runVars>>

(* ... and handle_pending_melt_quote looks for a saga of it.               *)
FindSaga(w) ==
    /\ WorkerAt(w, "find")
    /\ \/ /\ MeltSagas(work[w].quote) = {}
          /\ Becomes(w, Idle)
       \/ \E o \in MeltSagas(work[w].quote) :
             work' = [work EXCEPT ![w].op = o, ![w].pc = "check"]
    /\ UNCHANGED <<storeVars, mint, told, backVars, meltPc, meltReq, meltMem, meltTodo, runVars>>

(* Mutant: a failed payment is left for later, like a pending one.         *)
OutcomeFailedMutant(status) == IF status = "Paid" THEN "finalize" ELSE "idle"

(* process_melt_saga_outcome: finalize, compensate, or leave it for later. *)
Outcome(status) ==
    CASE status = "Paid" -> "finalize"
      [] status = "Failed" -> "collect"
      [] status \in {"Pending", "Unknown", "error"} -> "idle"

(* check_melt_payment_status.                                              *)
CheckPayment(w) ==
    LET q == work[w].quote
    IN  /\ WorkerAt(w, "check")
        /\ \E s \in CheckOutgoingPayment(LookupId[q]) :
              Becomes(w, IF Outcome(s) = "idle" THEN Idle
                         ELSE [work[w] EXCEPT !.pc = Outcome(s),
                                  !.spent = IF s = "Paid" THEN TotalSpent(q) ELSE 0,
                                  !.foreign = MsatChecks])
        /\ UNCHANGED <<storeVars, mint, told, backVars, meltPc, meltReq, meltMem, meltTodo, runVars>>

Collected(rec) ==
    [rec EXCEPT !.pc = "rollback",
                !.ys = ProofYsByOperationId(proof, rec.op),
                !.bs = BlindedSecretsByOperationId(blind_signature, rec.op)]

CollectSetup(w) ==
    /\ WorkerAt(w, "collect")
    /\ Becomes(w, Collected(work[w]))
    /\ UNCHANGED <<storeVars, mint, told, backVars, meltPc, meltReq, meltMem, meltTodo, runVars>>

RollbackQuote(w) ==
    /\ WorkerAt(w, "rollback")
    /\ RollbackMeltQuote(work[w].op, work[w].quote, work[w].ys, work[w].bs)
    /\ Becomes(w, Idle)
    /\ UNCHANGED <<mint, meltPc, meltReq, meltMem, meltTodo, runVars>>

(* What finalize_melt_quote finds: no melt_request row or no inputs (done  *)
(* by someone else), a quote that is Paid already (only the change is      *)
(* left), or the inputs to finalize.                                       *)
NothingToFinalize(q) == melt_request[q] = NoOp \/ ProofYsByQuoteId(q) = {}

(* Mutant: a quote that is Paid already is an error.                       *)
FinalizeQuoteOkMutant(w) ==
    LET q == work[w].quote
    IN  /\ NoConflict(q)
        /\ \/ NothingToFinalize(q)
           \/ FinalizeCoreOk(q, ProofYsByQuoteId(q), work[w].spent, work[w].foreign)

FinalizeQuoteOk(w) ==
    LET q == work[w].quote
    IN  /\ NoConflict(q)
        /\ \/ NothingToFinalize(q)
           \/ melt_quote[q] = "Paid"
           \/ FinalizeCoreOk(q, ProofYsByQuoteId(q), work[w].spent, work[w].foreign)

(* finalize_melt_quote, first transaction.                                 *)
FinalizeQuote(w) ==
    LET q  == work[w].quote
        ys == ProofYsByQuoteId(q)
    IN  /\ WorkerAt(w, "finalize")
        /\ FinalizeQuoteOk(w)
        /\ IF NothingToFinalize(q)
           THEN Moves(w, "delete")
           ELSE Becomes(w, [work[w] EXCEPT !.pc = "sigs", !.req = melt_request[q],
                               !.bs = OutputsByQuoteId(blind_signature, q, "Unsigned")])
        /\ IF NothingToFinalize(q) \/ melt_quote[q] = "Paid"
           THEN UNCHANGED <<proof, melt_quote, told, keyset_amounts>>
           ELSE /\ FinalizeCore(q, ys)
                /\ keyset_amounts' = AddAmounts(keyset_amounts, 0, InputsAmount(ys), 0)
        /\ UNCHANGED <<blind_signature, saga_state, completed_operations, mint, melt_request,
                       mint_payments, ln, meltPc, meltReq, meltMem, meltTodo, runVars>>

(* get_blind_signatures_for_quote: change that is signed already is not    *)
(* signed again.                                                           *)
ReadSignatures(w) ==
    LET rec == work[w]
    IN  /\ WorkerAt(w, "sigs")
        /\ Moves(w, IF /\ NeedsChange(rec.req, rec.spent, rec.foreign)
                       /\ rec.bs # {}
                       /\ OutputsByQuoteId(blind_signature, rec.quote, "Signed") = {}
                    THEN "sign" ELSE "close")
        /\ UNCHANGED <<storeVars, mint, told, backVars, meltPc, meltReq, meltMem, meltTodo, runVars>>

(* process_melt_change and the cleanup of finalize_melt_quote.             *)
SignChange(w) ==
    LET rec == work[w]
        target == ChangeTarget(rec.req, rec.spent)
    IN  /\ WorkerAt(w, "sign")
        /\ CanSign(rec.req, target)
        /\ \E sigs \in ChangeSigs(rec.bs, target) :
              /\ StoreChange(rec.quote, sigs)
              /\ keyset_amounts' = AddAmounts(keyset_amounts, SigsAmount(sigs), 0, 0)
        /\ Moves(w, "delete")
        /\ UNCHANGED <<proof, saga_state, completed_operations, mint, told, melt_quote,
                       mint_payments, ln, meltPc, meltReq, meltMem, meltTodo, runVars>>

CloseRequest(w) ==
    /\ WorkerAt(w, "close")
    /\ DeleteMeltRequest(work[w].quote, blind_signature)
    /\ Moves(w, "delete")
    /\ UNCHANGED <<proof, saga_state, keyset_amounts, completed_operations, mint, told, melt_quote,
                   mint_payments, ln, meltPc, meltReq, meltMem, meltTodo, runVars>>

(* The saga is deleted in a transaction of its own.                        *)
DeleteSaga(w) ==
    /\ WorkerAt(w, "delete")
    /\ DeleteMeltSaga(work[w].op)
    /\ Becomes(w, Idle)
    /\ UNCHANGED <<proof, blind_signature, keyset_amounts, completed_operations, mint, told,
                   backVars, meltPc, meltReq, meltMem, meltTodo, runVars>>

(* An error ends the worker's call: a conflicting or illegal finalization, *)
(* change that someone else signed, an over-paid quote, a database error.  *)
(* A poll can also be dropped by its client.                               *)
WorkerFails(w) ==
    LET rec == work[w]
        publishes == /\ rec.pc = "finalize"
                     /\ MeltDbErrors
                     /\ FinalizeQuoteOk(w)
                     /\ ~NothingToFinalize(rec.quote) /\ melt_quote[rec.quote] # "Paid"
    IN  /\ Active(w)
        /\ rec.pc # "idle"
        /\ \/ w # "recovery"
           \/ MeltDbErrors
           \/ rec.pc = "finalize" /\ ~FinalizeQuoteOk(w)
           \/ rec.pc = "sign" /\ ~CanSign(rec.req, ChangeTarget(rec.req, rec.spent))
        /\ Becomes(w, Idle)
        /\ \/ publishes /\ Publish(ProofYsByQuoteId(rec.quote), "Spent")
           \/ UNCHANGED told
        /\ UNCHANGED <<storeVars, mint, backVars, meltPc, meltReq, meltMem, meltTodo, runVars>>

(* The body of the recovery loop, up to its first call.                    *)
RecoverMeltSaga(o) ==
    LET q   == meltReq[o].quote
        l   == LookupId[q]
        rec == [Idle EXCEPT !.quote = q, !.op = o]
        settled == l \in InternalIds /\ q \in mint_payments[l]
    IN  /\ mint = "starting"
        /\ o \in meltTodo
        /\ work["recovery"] = Idle
        /\ meltTodo' = meltTodo \ {o}
        /\ CASE saga_state[o] = "SetupComplete" -> Becomes("recovery", Collected(rec))
             [] saga_state[o] = "Finalizing" \/ (saga_state[o] = "PaymentAttempted" /\ settled) ->
                   Becomes("recovery", [rec EXCEPT !.pc = "finalize", !.spent = QuoteAmount[q]])
             [] saga_state[o] = "PaymentAttempted" /\ ~settled ->
                   Becomes("recovery", [rec EXCEPT !.pc = "check"])
        /\ UNCHANGED <<storeVars, mint, told, backVars, meltPc, meltReq, meltMem, runVars>>

WorkerStep(w) ==
    \/ FindSaga(w)
    \/ CheckPayment(w)
    \/ CollectSetup(w)
    \/ RollbackQuote(w)
    \/ FinalizeQuote(w)
    \/ ReadSignatures(w)
    \/ SignChange(w)
    \/ CloseRequest(w)
    \/ DeleteSaga(w)

(***************************************************************************)
(* Mint::rotate_keyset.  The signatory stores the new keyset and signs     *)
(* with no other from then on; setup_melt accepts outputs of the keyset    *)
(* that the mint's own list has as active, which is replaced later, by     *)
(* rotate_keyset or at the next start.  The keys of swaps and mint         *)
(* requests may be rotated as well: their signing fails and they are given *)
(* up.                                                                     *)
(***************************************************************************)
RotateSignatory ==
    /\ mint = "up"
    /\ Rotates /\ rotation = "none"
    /\ rotation' = "signatory"
    /\ retired' = {o \in MeltOps : meltPc[o] # "idle"}
    /\ UNCHANGED <<storeVars, mint, told, backVars, meltPc, meltReq, meltMem, work, meltTodo,
                   meltCrashes>>

StoreKeysets ==
    /\ mint = "up"
    /\ rotation = "signatory"
    /\ rotation' = "done"
    /\ UNCHANGED <<storeVars, mint, told, backVars, meltPc, meltReq, meltMem, work, meltTodo,
                   meltCrashes, retired>>

(***************************************************************************)
(* The process.                                                            *)
(***************************************************************************)
MeltCrash ==
    /\ mint # "down"
    /\ meltCrashes < MeltMaxCrashes
    /\ meltCrashes' = meltCrashes + 1
    /\ mint' = "down"
    /\ meltPc' = [o \in MeltOps |-> IF meltPc[o] \in LiveMeltPcs THEN "failed" ELSE meltPc[o]]
    /\ work' = [w \in Workers |-> Idle]
    /\ meltTodo' = {}
    /\ rotation' = IF rotation = "signatory" THEN "done" ELSE rotation
    /\ UNCHANGED <<storeVars, told, backVars, meltReq, meltMem, retired>>

(* start() recovers before the mint serves requests.                       *)
MeltStart ==
    /\ mint = "down"
    /\ mint' = "starting"
    /\ meltTodo' = {o \in MeltOps : saga_state[o] # "None"}
    /\ UNCHANGED <<storeVars, told, backVars, meltPc, meltReq, meltMem, work, runVars>>

MeltStartDone ==
    /\ mint = "starting"
    /\ work["recovery"] = Idle
    /\ meltTodo = {} \/ MeltDbErrors
    /\ mint' = "up"
    /\ meltTodo' = {}
    /\ UNCHANGED <<storeVars, told, backVars, meltPc, meltReq, meltMem, work, runVars>>

MeltNext ==
    \/ \E o \in MeltOps : MeltStep(o) \/ RecoverMeltSaga(o)
    \/ \E w \in Workers : WorkerStep(w) \/ WorkerFails(w)
    \/ \E w \in Workers, q \in Quotes : PollQuote(w, q)
    \/ \E l \in LookupIds : LnSettles(l)
    \/ \E l \in InternalIds : InvoicePaid(l)
    \/ RotateSignatory
    \/ StoreKeysets
    \/ MeltCrash
    \/ MeltStart
    \/ MeltStartDone

MeltSpec == MeltInit /\ [][MeltNext]_meltVars

(* A client polls its quote until it is settled and does not drop every    *)
(* poll at the same await, payments settle, a crashed mint is started      *)
(* again, and the recovery loop runs on.                                   *)
MeltFairSpec ==
    /\ MeltSpec
    /\ \A w \in Pollers, q \in Quotes : SF_meltVars(PollQuote(w, q))
    /\ \A w \in Pollers :
          /\ SF_meltVars(FindSaga(w))
          /\ SF_meltVars(CheckPayment(w))
          /\ SF_meltVars(CollectSetup(w))
          /\ SF_meltVars(RollbackQuote(w))
          /\ SF_meltVars(FinalizeQuote(w))
    /\ WF_meltVars(WorkerStep("recovery"))
    /\ WF_meltVars(\E o \in MeltOps : RecoverMeltSaga(o))
    /\ \A l \in LookupIds : WF_meltVars(LnSettles(l))
    /\ WF_meltVars(MeltStart)
    /\ WF_meltVars(MeltStartDone)

(***************************************************************************)
(* Properties.                                                             *)
(***************************************************************************)
MeltSpentYs == {y \in Ys : proof[y].state = "Spent"}
MeltSignedOuts == {b \in Outs : blind_signature[b].state = "Signed"}

(* The inputs of the operation are still reserved or spent, by it.         *)
HoldsInputs(o) ==
    \A y \in meltReq[o].ys : proof[y].op = o /\ proof[y].state \in {"Pending", "Spent"}

(* The mint never returns the proofs of a payment it makes: while a        *)
(* payment is in flight, and once it is paid, over Lightning or by         *)
(* crediting a mint quote, the melt that caused it holds its inputs.       *)
(* "This two-phase approach prevents fund loss where the mint pays the LN  *)
(* invoice but returns the proofs to the user" (melt_saga/mod.rs:91).      *)
PaymentHoldsInputs ==
    /\ \A l \in LookupIds : ln[l].state \in {"inflight", "paid"} => HoldsInputs(ln[l].by)
    /\ \A l \in InternalIds : \A q \in mint_payments[l] \cap Quotes :
          \E o \in MeltOps : OfQuote(o, q) /\ HoldsInputs(o)

(* The client's proofs are spent, and the quote is Paid, only if the       *)
(* payment went through; a Paid quote has all its inputs Spent.  Of the    *)
(* quotes that share a lookup id at most one is Pending or Paid: a payment *)
(* is never charged to two melts.                                          *)
PaidMeansPaid ==
    /\ \A q \in Quotes : melt_quote[q] = "Paid" =>
          PaymentMade(q) /\ \A y \in ProofYsByQuoteId(q) : proof[y].state = "Spent"
    /\ \A y \in MeltSpentYs : melt_quote[meltReq[proof[y].op].quote] = "Paid"
    /\ \A p, q \in {x \in Quotes : melt_quote[x] \in {"Pending", "Paid"}} :
          LookupId[p] = LookupId[q] => p = q

(* Nothing is out of reach of recovery: a Pending quote, a Pending proof,  *)
(* an unsigned change output and a melt_request row that waits for its     *)
(* change all belong to an operation that still has a saga row.            *)
MeltNothingStranded ==
    /\ \A q \in Quotes : melt_quote[q] = "Pending" => MeltSagas(q) # {}
    /\ \A y \in Ys : proof[y].state = "Pending" => saga_state[proof[y].op] # "None"
    /\ \A b \in Outs : blind_signature[b].state = "Unsigned" =>
          melt_request[meltReq[blind_signature[b].op].quote] # NoOp
    /\ \A q \in Quotes : melt_request[q] # NoOp => saga_state[melt_request[q]] # "None"

(* The change signed for a quote, and the change that is due for a payment *)
(* that cost the amount.                                                   *)
ChangeSigned(q) ==
    MapThenSumSet(LAMBDA b : blind_signature[b].amount, OutputsByQuoteId(blind_signature, q, "Signed"))

ChangeDue(o, spent) ==
    MapThenSumSet(LAMBDA a : a, ChangeAmounts(ChangeTarget(o, spent), Cardinality(meltReq[o].bs)))

(* The melts whose quote is Paid and closed.                               *)
Closed ==
    {o \in MeltOps : /\ meltReq[o].quote # NoOp
                     /\ melt_quote[meltReq[o].quote] = "Paid"
                     /\ melt_request[meltReq[o].quote] = NoOp
                     /\ ProofYsByOperationId(proof, o) # {}}


(* The tables hold what they may, and the counters agree with the rows:    *)
(* each proof is redeemed once and each signature is counted once, though  *)
(* two transactions finalize a melt.                                       *)
MeltTablesAgree ==
    /\ MeltTypeOK
    /\ keyset_amounts.redeemed = InputsAmount(MeltSpentYs)
    /\ keyset_amounts.issued =
          MapThenSumSet(LAMBDA b : blind_signature[b].amount, MeltSignedOuts)

(* A subscriber who was told Spent does not get the proof back, though     *)
(* finalize_melt_core publishes before the commit.                         *)
ToldSpentStays ==
    [][\A y \in Ys : told[y] = "Spent" => proof'[y].state \in {"Pending", "Spent"}]_meltVars

(* No step takes back a Paid quote, a Spent proof or a change signature.   *)
MeltIsFinal ==
    [][/\ \A q \in Quotes : melt_quote[q] = "Paid" => melt_quote'[q] = "Paid"
       /\ \A y \in MeltSpentYs : proof'[y] = proof[y]
       /\ \A b \in MeltSignedOuts : blind_signature'[b] = blind_signature[b]]_meltVars

(* After a crash a Pending quote whose payment the backend knows is        *)
(* settled or released, by recovery or by a client that keeps polling.     *)
KnownPaymentResolved ==
    \A q \in Quotes :
        (mint = "down" /\ melt_quote[q] = "Pending" /\ ln[LookupId[q]].state # "none")
            ~> (melt_quote[q] # "Pending")

(* A crash between the two transactions of a melt costs the client         *)
(* nothing: recovery signs the change and closes the request, "so the user *)
(* receives their change" (melt/shared.rs:551); except when the keyset of  *)
(* its change outputs has been rotated in between.                         *)
ChangeReachesClient ==
    \A q \in Quotes, o \in MeltOps :
        (mint = "down" /\ melt_quote[q] = "Paid" /\ melt_request[q] = o)
            ~> (melt_request[q] = NoOp \/ o \in retired)
=============================================================================
