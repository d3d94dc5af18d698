----------------------------- MODULE WalletMelt -----------------------------
(***************************************************************************)
(* The melt saga of the wallet, and the calls that resume it: a check of   *)
(* the quote, finalize_pending_melts, and recovery.                        *)
(*                                                                         *)
(* The quote and the coins are reserved and the saga is written; confirm   *)
(* swaps the coins if need be, notes them as Pending with the id of the    *)
(* saga, writes MeltRequested, and posts the request.  After any error the *)
(* mint is asked for the state of the quote: Unpaid releases the coins.    *)
(***************************************************************************)
EXTENDS WalletQuotes

CONSTANTS
    Melts,      \* melt operations
    QuoteOf(_)  \* the quote of a melt operation

ASSUME WalletMeltAssumption ==
    Melts \subseteq Sagas /\ \A t \in Melts : QuoteOf(t) \in MeltQuotes /\ SwapOf(t) \in SwapIds

(***************************************************************************)
(* The mint.  A payment is of one coin; it holds the inputs until it has   *)
(* succeeded, when the rest is returned as change, or failed.              *)
(***************************************************************************)
MeltRequest(t) == [quote |-> QuoteOf(t), ins |-> task[t].ins, outs |-> task[t].outs]

MeltAllowed(r) ==
    /\ bank.melt[r.quote].state = "Unpaid"
    /\ r.ins \cap (mint.spent \cup mint.held) = {} /\ r.outs \cap mint.signed = {}
    /\ r.ins \cap Own \subseteq mint.signed /\ Real(r.ins)

MintMelts(r, sent) ==
    IF MeltAllowed(r)
    THEN /\ bank' = [bank EXCEPT !.melts = sent,
                        !.melt[r.quote] = [state |-> "Pending", ins |-> r.ins, outs |-> r.outs]]
         /\ mint' = [mint EXCEPT !.held = @ \cup r.ins]
    ELSE bank' = [bank EXCEPT !.melts = sent] /\ UNCHANGED mint

(* The payment succeeds, or fails.                                         *)
SettlePayment(q) ==
    LET m == bank.melt[q] IN
    /\ m.state = "Pending"
    /\ \/ /\ bank' = [bank EXCEPT !.melt[q].state = "Paid"]
          /\ mint' = [mint EXCEPT !.held = @ \ m.ins, !.spent = @ \cup m.ins,
                                  !.signed = @ \cup m.outs]
       \/ /\ bank' = [bank EXCEPT !.melt[q] = [state |-> "Unpaid", ins |-> {}, outs |-> {}]]
          /\ mint' = [mint EXCEPT !.held = @ \ m.ins]
    /\ UNCHANGED <<proofs, counter, sagas, net, task, hist, quotes>>

LateMelt(r) ==
    /\ r \in bank.melts
    /\ MintMelts(r, bank.melts \ {r})
    /\ hist' = [hist EXCEPT !.late = TRUE]
    /\ UNCHANGED <<proofs, counter, sagas, net, task, quotes>>

(***************************************************************************)
(* MeltSaga::prepare and prepare_with_proofs.                              *)
(***************************************************************************)
StartMelt(t) ==
    /\ t \in Melts /\ task[t].pc = "idle"
    /\ task' = [task EXCEPT ![t].pc = "mreserve", ![t].infos = QuoteOf(t) :> quotes[QuoteOf(t)]]
    /\ UNCHANGED <<proofs, counter, sagas, mint, net, hist, quotes, bank>>

ReserveMeltQuote(t) ==
    /\ task[t].pc = "mreserve"
    /\ IF ReserveQuoteOk(QuoteOf(t))
       THEN ReserveQuote(QuoteOf(t), t) /\ Goto(t, "mselect")
       ELSE Goto(t, "failed") /\ UNCHANGED quotes
    /\ UNCHANGED <<proofs, counter, sagas, mint, net, hist, bank>>

(* One coin that is melted as it is, or two that are swapped first or give *)
(* change.  InsufficientFunds leaves the quote reserved.                   *)
SelectMelt(t) ==
    /\ task[t].pc = "mselect"
    /\ \/ \E ins \in SUBSET GetProofs({"Unspent"}) :
             /\ Cardinality(ins) \in {1, 2}
             /\ task' = [task EXCEPT ![t].pc = "mhold", ![t].ins = ins]
       \/ GetProofs({"Unspent"}) = {} /\ Goto(t, "failed")
    /\ UNCHANGED <<proofs, counter, sagas, mint, net, hist, quotes, bank>>

ReserveMelt(t) ==
    /\ task[t].pc = "mhold"
    /\ proofs' = UpdateProofsState(task[t].ins, "Reserved")
    /\ Clash(task[t].ins, "Unspent")
    /\ Goto(t, "mlog")
    /\ UNCHANGED <<counter, sagas, mint, net, quotes, bank>>

MeltAddSaga(t) ==
    /\ task[t].pc = "mlog"
    /\ AddSaga(t, [NoSaga EXCEPT !.state = "ProofsReserved"])
    /\ Goto(t, "mprepared")
    /\ UNCHANGED <<proofs, counter, mint, net, hist, quotes, bank>>

(* cancel_prepared_melt does not look at the saga.                         *)
CancelMelt(t) ==
    /\ task[t].pc = "mprepared"
    /\ Goto(t, "mfail")
    /\ UNCHANGED <<proofs, counter, sagas, mint, net, hist, quotes, bank>>

(***************************************************************************)
(* confirm_prepared_melt: request_melt and execute_async.                  *)
(***************************************************************************)
ConfirmMelt(t) ==
    /\ task[t].pc = "mprepared"
    /\ IF sagas[t] = NoSaga
       THEN Goto(t, "failed")
       ELSE \/ Goto(t, "mpending")
            \/ Cardinality(task[t].ins) = 2 /\ CallSwap(t, task[t].ins, 1, "Reserved")
    /\ UNCHANGED <<proofs, counter, sagas, mint, net, hist, quotes, bank>>

(* A swap that fails ends the call: there is nothing in compensations.     *)
MeltSwapped(t) ==
    /\ t \in Melts /\ task[t].pc = "swapping" /\ Ending(t) \in Ended
    /\ task' = IF Ending(t) = "done"
               THEN [task EXCEPT ![t].pc = "mpending", ![t].ins = task[SwapOf(t)].token]
               ELSE [task EXCEPT ![t].pc = "failed"]
    /\ UNCHANGED <<proofs, counter, sagas, mint, net, hist, quotes, bank>>

SetPending(t) ==
    /\ task[t].pc = "mpending"
    /\ proofs' = UpdateProofs([c \in task[t].ins |-> Row("Pending", t)], {})
    /\ hist' = [hist EXCEPT !.clash = @ \/ ~(task[t].ins \subseteq GetProofs({"Reserved"}))]
    /\ Goto(t, IF Cardinality(task[t].ins) = 2 THEN "mcounter" ELSE "mrequest")
    /\ UNCHANGED <<counter, sagas, mint, net, quotes, bank>>

(* One blank output for the coin of change.                                *)
ChangeCounter(t) ==
    /\ task[t].pc = "mcounter"
    /\ IncrementKeysetCounter(1)
    /\ task' = [task EXCEPT ![t].pc = "mrange", ![t].outs = TakenBy(1)]
    /\ UNCHANGED <<proofs, sagas, mint, net, hist, quotes, bank>>

ChangeRange(t) ==
    /\ task[t].pc = "mrange"
    /\ task' = [task EXCEPT ![t].pc = "mrequest", ![t].range = RangeBefore(1)]
    /\ hist' = [hist EXCEPT !.shifted = @ \/ RangeBefore(1) # task[t].outs]
    /\ UNCHANGED <<proofs, counter, sagas, mint, net, quotes, bank>>

(* ConcurrentUpdate leaves the coins Pending.                              *)
RequestMelt(t) ==
    /\ task[t].pc = "mrequest"
    /\ IF UpdateSagaOk(t, 0)
       THEN /\ UpdateSaga(t, [sagas[t] EXCEPT !.state = "MeltRequested", !.outs = task[t].outs,
                                              !.range = task[t].range])
            /\ Goto(t, "mposted")
       ELSE Goto(t, "failed") /\ UNCHANGED sagas
    /\ UNCHANGED <<proofs, counter, mint, net, hist, quotes, bank>>

(* The mint takes the request, or refuses it.  An error that says that the *)
(* quote is paid (code 20006, which a client reads as RequestAlreadyPaid)  *)
(* comes after the checks of the inputs, and releases the coins.           *)
RefusedPc(r) ==
    IF r.ins \cap (mint.spent \cup mint.held) = {} /\ bank.melt[r.quote].state = "Paid"
    THEN "mfail" ELSE "mcheck"

TakeMelt(t) ==
    LET r == MeltRequest(t) IN
    /\ task[t].pc = "mposted"
    /\ MintMelts(r, bank.melts)
    /\ Goto(t, IF MeltAllowed(r) THEN "mtaken" ELSE RefusedPc(r))
    /\ UNCHANGED <<proofs, counter, sagas, net, hist, quotes>>

(* The answer of the mint, at once or when the payment is over.  A payment *)
(* that has failed is an error.                                            *)
AnswerMelt(t) ==
    /\ task[t].pc = "mtaken"
    /\ Goto(t, CASE bank.melt[QuoteOf(t)].state = "Pending" -> "mwait"
                 [] bank.melt[QuoteOf(t)].state = "Paid"    -> "mquote"
                 [] OTHER                                   -> "mcheck")
    /\ UNCHANGED <<proofs, counter, sagas, mint, net, hist, quotes, bank>>

(* No answer: the request may be on its way.  It is sent again, or the     *)
(* client gives up.                                                        *)
LoseMelt(t) ==
    /\ task[t].pc \in {"mposted", "mtaken"}
    /\ bank' \in {bank} \cup
           (IF task[t].pc = "mposted" THEN {[bank EXCEPT !.melts = @ \cup {MeltRequest(t)}]} ELSE {})
    /\ Goto(t, "mcheck") \/ Goto(t, "mposted")
    /\ UNCHANGED <<proofs, counter, sagas, mint, net, hist, quotes>>

(* internal_check_melt_status after an error: without an answer the        *)
(* payment is taken to be pending.                                         *)
CheckPosted(t) ==
    /\ task[t].pc = "mcheck"
    /\ \/ Goto(t, CASE bank.melt[QuoteOf(t)].state = "Pending" -> "mwait"
                    [] bank.melt[QuoteOf(t)].state = "Paid"    -> "mquote"
                    [] OTHER                                   -> "mfail")
       \/ Goto(t, "mwait")
    /\ UNCHANGED <<proofs, counter, sagas, mint, net, hist, quotes, bank>>

(* PendingMelt::wait: a notification of the state, or the subscription is  *)
(* closed.                                                                 *)
WaitMelt(t) ==
    /\ task[t].pc = "mwait"
    /\ \/ bank.melt[QuoteOf(t)].state = "Paid" /\ Goto(t, "mquote")
       \/ bank.melt[QuoteOf(t)].state = "Unpaid" /\ Goto(t, "mfail")
       \/ Goto(t, "failed")
    /\ UNCHANGED <<proofs, counter, sagas, mint, net, hist, quotes, bank>>

(* finalize_melt_common: add_melt_quote first.                             *)
SavePaidQuote(t) ==
    LET row == [task[t].infos[QuoteOf(t)] EXCEPT !.state = "Paid"] IN
    /\ task[t].pc = "mquote"
    /\ IF AddQuoteOk(QuoteOf(t), row)
       THEN AddQuote(QuoteOf(t), row) /\ Goto(t, "mchange")
       ELSE Goto(t, "failed") /\ UNCHANGED quotes
    /\ UNCHANGED <<proofs, counter, sagas, mint, net, hist, bank>>

StoreChange(t) ==
    /\ task[t].pc = "mchange"
    /\ proofs' = UpdateProofs(NewRows(task[t].outs, "Unspent", TRUE), {})
    /\ hist' = [hist EXCEPT !.raced = @ \/ task[t].outs \cap DOMAIN proofs # {}]
    /\ Goto(t, "mspend")
    /\ UNCHANGED <<counter, sagas, mint, net, quotes, bank>>

SpendMelted(t) ==
    /\ task[t].pc = "mspend"
    /\ proofs' = UpdateProofsState(task[t].ins, "Spent")
    /\ Goto(t, "mrelease")
    /\ UNCHANGED <<counter, sagas, mint, net, hist, quotes, bank>>

ReleaseMelted(t) ==
    /\ task[t].pc = "mrelease"
    /\ ReleaseQuotes(t)
    /\ Goto(t, "finish")
    /\ UNCHANGED <<proofs, counter, sagas, mint, net, hist, bank>>

(* handle_failure, and cancel: the coins, the quote, the saga.             *)
FailMelt(t) ==
    /\ task[t].pc = "mfail"
    /\ proofs' = UpdateProofsState(task[t].ins, "Unspent")
    /\ Goto(t, "mundo")
    /\ UNCHANGED <<counter, sagas, mint, net, hist, quotes, bank>>

ReleaseFailed(t) ==
    /\ task[t].pc = "mundo"
    /\ ReleaseQuotes(t)
    /\ Goto(t, "drop")
    /\ UNCHANGED <<proofs, counter, sagas, mint, net, hist, bank>>

(***************************************************************************)
(* check_melt_quote_status and finalize_pending_melts.                     *)
(***************************************************************************)
StartCheckMelt(h) ==
    /\ h \in Checkers /\ task[h].pc = "idle"
    /\ \E q \in MeltQuotes :
          task' = [task EXCEPT ![h].chk = q, ![h].infos = q :> quotes[q], ![h].op = quotes[q].op,
                               ![h].pc = IF quotes[q].op = NoOp THEN "mcask" ELSE "cget"]
    /\ UNCHANGED <<proofs, counter, sagas, mint, net, hist, quotes, bank>>

ResumeMeltPc(row) == IF row.state = "ProofsReserved" THEN "mrrelease" ELSE "mrstate"

CheckMeltSaga(h) ==
    LET row == sagas[task[h].op] IN
    /\ task[h].pc = "cget" /\ task[h].chk \in MeltQuotes
    /\ task' = [task EXCEPT ![h].row = row,
                            ![h].pc = IF row = NoSaga THEN "corphan" ELSE ResumeMeltPc(row)]
    /\ TakenUp(task[h].op, row.state # "MeltRequested")
    /\ UNCHANGED <<proofs, counter, sagas, mint, net, quotes, bank>>

(* finalize_pending_melts, for one saga that is MeltRequested.             *)
FinalizePending(h) ==
    /\ h \in Checkers /\ task[h].pc = "idle"
    /\ \E t \in Melts :
          /\ sagas[t].state = "MeltRequested"
          /\ task' = [task EXCEPT ![h].op = t, ![h].row = sagas[t], ![h].pc = "mrstate"]
          /\ TakenUp(t, FALSE)
    /\ UNCHANGED <<proofs, counter, sagas, mint, net, quotes, bank>>


(* recover_or_compensate_melt: a payment that is pending, or of which the  *)
(* mint says nothing, is left for later.                                   *)
ResumeMeltState(h) ==
    LET state == bank.melt[QuoteOf(task[h].op)].state IN
    /\ task[h].pc = "mrstate"
    /\ \/ state = "Paid" /\ Goto(h, "mrfind") /\ UNCHANGED hist
       \/ state = "Unpaid" /\ Goto(h, "mrrelease") /\ Undone(task[h].op)
       \/ Resumed(h, "done") /\ UNCHANGED hist
    /\ UNCHANGED <<proofs, counter, sagas, mint, net, quotes, bank>>

(* complete_melt_from_restore: get_reserved_proofs, and Spent.             *)
FindMelted(h) ==
    /\ task[h].pc = "mrfind"
    /\ task' = [task EXCEPT ![h].pc = "mrspend", ![h].back = GetReservedProofs(task[h].op)]
    /\ UNCHANGED <<proofs, counter, sagas, mint, net, hist, quotes, bank>>

SpendResumed(h) ==
    /\ task[h].pc = "mrspend"
    /\ proofs' = UpdateProofsState(task[h].back, "Spent")
    /\ Goto(h, IF task[h].row.outs = {} THEN "mrdone" ELSE "mrchange")
    /\ UNCHANGED <<counter, sagas, mint, net, hist, quotes, bank>>

(* restore_outputs: the change, if the mint answers and the stored range   *)
(* is the one of the blank outputs.                                        *)
RestoreChange(h) ==
    LET row == task[h].row IN
    /\ task[h].pc = "mrchange"
    /\ \/ /\ row.range = row.outs /\ row.outs \subseteq mint.signed
          /\ proofs' = UpdateProofs(NewRows(row.outs, "Unspent", TRUE), {})
          /\ hist' = [hist EXCEPT !.raced = @ \/ row.outs \cap DOMAIN proofs # {}]
       \/ proofs' = proofs /\ hist' = [hist EXCEPT !.forgone = @ \cup row.outs]
    /\ Goto(h, "mrdone")
    /\ UNCHANGED <<counter, sagas, mint, net, quotes, bank>>

(* compensate_melt: the quote, and RevertProofReservation of the coins     *)
(* that carry the id of the saga.                                          *)
ReleaseResumed(h) ==
    /\ task[h].pc = "mrrelease"
    /\ ReleaseQuotes(task[h].op)
    /\ Goto(h, "mrread")
    /\ UNCHANGED <<proofs, counter, sagas, mint, net, hist, bank>>

ReadReserved(h) ==
    /\ task[h].pc = "mrread"
    /\ task' = [task EXCEPT ![h].pc = "mrrevert",
                   ![h].back = GetReservedProofs(task[h].op) \cap GetProofs({"Reserved", "Pending"})]
    /\ UNCHANGED <<proofs, counter, sagas, mint, net, hist, quotes, bank>>

RevertResumed(h) ==
    /\ task[h].pc = "mrrevert"
    /\ proofs' = UpdateProofsState(task[h].back, "Unspent")
    /\ Goto(h, "mrdone")
    /\ UNCHANGED <<counter, sagas, mint, net, hist, quotes, bank>>

DeleteMelt(h) ==
    /\ task[h].pc = "mrdone"
    /\ DeleteSaga(task[h].op)
    /\ Resumed(h, "mcreread")
    /\ UNCHANGED <<proofs, counter, mint, net, hist, quotes, bank>>

(* The quote is read again, the mint is asked, and the state is written;   *)
(* on ConcurrentUpdate the quote is read and written once more.            *)
RereadMelt(h) ==
    /\ task[h].pc \in {"mcreread", "mcretry"}
    /\ LET q == task[h].chk IN
       task' = [task EXCEPT
           ![h].infos[q] = IF task[h].pc = "mcretry" THEN [quotes[q] EXCEPT !.state = task[h].infos[q].state]
                           ELSE quotes[q],
           ![h].pc = IF task[h].pc = "mcretry" THEN "mcagain" ELSE "mcask"]
    /\ UNCHANGED <<proofs, counter, sagas, mint, net, hist, quotes, bank>>

AskMelt(h) ==
    /\ task[h].pc = "mcask"
    /\ \/ task' = [task EXCEPT ![h].pc = "mcsave", ![h].infos[task[h].chk].state = bank.melt[task[h].chk].state]
       \/ Goto(h, "failed")
    /\ UNCHANGED <<proofs, counter, sagas, mint, net, hist, quotes, bank>>

UpdateMeltQuoteState(h) ==
    LET q == task[h].chk
        row == task[h].infos[q] IN
    /\ task[h].pc \in {"mcsave", "mcagain"}
    /\ IF AddQuoteOk(q, row)
       THEN AddQuote(q, row) /\ Goto(h, "done")
       ELSE Goto(h, IF task[h].pc = "mcsave" THEN "mcretry" ELSE "failed") /\ UNCHANGED quotes
    /\ UNCHANGED <<proofs, counter, sagas, mint, net, hist, bank>>

CheckMeltNext(h) ==
    \/ StartCheckMelt(h) \/ CheckMeltSaga(h) \/ FinalizePending(h)
    \/ ResumeMeltState(h) \/ FindMelted(h) \/ SpendResumed(h) \/ RestoreChange(h)
    \/ ReleaseResumed(h) \/ ReadReserved(h) \/ RevertResumed(h) \/ DeleteMelt(h)
    \/ RereadMelt(h) \/ AskMelt(h) \/ UpdateMeltQuoteState(h)

MeltNext(t) ==
    \/ StartMelt(t) \/ ReserveMeltQuote(t) \/ SelectMelt(t) \/ ReserveMelt(t) \/ MeltAddSaga(t)
    \/ CancelMelt(t) \/ ConfirmMelt(t) \/ MeltSwapped(t) \/ SetPending(t)
    \/ ChangeCounter(t) \/ ChangeRange(t) \/ RequestMelt(t)
    \/ TakeMelt(t) \/ AnswerMelt(t) \/ LoseMelt(t) \/ CheckPosted(t) \/ WaitMelt(t)
    \/ SavePaidQuote(t) \/ StoreChange(t) \/ SpendMelted(t) \/ ReleaseMelted(t)
    \/ FailMelt(t) \/ ReleaseFailed(t)
=============================================================================
