---------------------------- MODULE WalletIssue ----------------------------
(***************************************************************************)
(* The issue saga of the wallet (mint and mint_batch), and the check of a  *)
(* mint quote, which resumes the saga that has reserved the quote, be it   *)
(* one that crashed or one that is still running.                          *)
(*                                                                         *)
(* The quotes are read, refreshed if they look unpaid, and reserved; the   *)
(* counter is advanced and the saga is written; after the mint has signed, *)
(* the quotes are written at the version that was read, the coins are      *)
(* stored, and the quotes are released.  The amount of a quote is what is  *)
(* paid and not issued; a bolt11 quote is one with MaxPaid = 1.            *)
(***************************************************************************)
EXTENDS WalletQuotes

CONSTANTS
    Issues,      \* issue operations
    QuotesOf(_)  \* the quotes of an issue operation; a batch has several

ASSUME WalletIssueAssumption ==
    Issues \subseteq Sagas /\ \A o \in Issues : QuotesOf(o) \subseteq MintQuotes /\ QuotesOf(o) # {}

IsBatch(o) == Cardinality(QuotesOf(o)) > 1

Total(infos) == MapThenSumSet(LAMBDA q : Mintable(infos[q]), DOMAIN infos)

(***************************************************************************)
(* The mint: a single request is for all that is mintable, a batch names   *)
(* the amount of every quote.                                              *)
(***************************************************************************)
IssueRequest(o, infos, outs) ==
    [quotes |-> QuotesOf(o), outs |-> outs,
     amts   |-> IF IsBatch(o) THEN [q \in QuotesOf(o) |-> Mintable(infos[q])] ELSE <<>>]

AmountOf(r, q) == IF q \in DOMAIN r.amts THEN r.amts[q] ELSE Mintable(bank.issue[q])

IssueAllowed(r) ==
    /\ \A q \in r.quotes : AmountOf(r, q) \in 1 .. Mintable(bank.issue[q])
    /\ MapThenSumSet(LAMBDA q : AmountOf(r, q), r.quotes) = Cardinality(r.outs)
    /\ r.outs \cap mint.signed = {}

IssueAnswer(r) == IF r \in bank.cache \/ IssueAllowed(r) THEN "isigned" ELSE "irefused"

(* The quotes are counted as issued and the outputs are signed, at once.   *)
MintIssues(r, sent) ==
    IF r \notin bank.cache /\ IssueAllowed(r)
    THEN /\ bank' = [bank EXCEPT !.mints = sent, !.cache = @ \cup {r},
                                 !.issue = [q \in MintQuotes |->
                                     IF q \in r.quotes THEN [@[q] EXCEPT !.issued = @ + AmountOf(r, q)] ELSE @[q]]]
         /\ mint' = [mint EXCEPT !.signed = @ \cup r.outs]
    ELSE bank' = [bank EXCEPT !.mints = sent] /\ UNCHANGED mint

(***************************************************************************)
(* MintSaga::prepare and prepare_batch.                                    *)
(***************************************************************************)
StartIssue(o) ==
    /\ o \in Issues /\ task[o].pc = "idle"
    /\ task' = [task EXCEPT ![o].pc = "iload", ![o].infos = [q \in QuotesOf(o) |-> quotes[q]]]
    /\ UNCHANGED <<proofs, counter, sagas, mint, net, hist, quotes, bank>>

(* A quote without a mintable amount is checked, and read again.  A batch  *)
(* without any amount fails here, a single quote only once it is reserved. *)
LoadQuotes(o) ==
    LET stale == {q \in QuotesOf(o) \ task[o].held : Mintable(task[o].infos[q]) = 0} IN
    /\ task[o].pc = "iload"
    /\ \/ \E q \in stale :
             task' = [task EXCEPT ![o].pc = "cstate", ![o].chk = q, ![o].held = @ \cup {q}]
       \/ /\ stale = {}
          /\ task' = [task EXCEPT ![o].held = {},
                                  ![o].pc = IF IsBatch(o) /\ Total(task[o].infos) = 0 THEN "failed"
                                            ELSE "ireserve"]
    /\ UNCHANGED <<proofs, counter, sagas, mint, net, hist, quotes, bank>>

RereadQuote(o) ==
    /\ task[o].pc = "ireread"
    /\ task' = [task EXCEPT ![o].pc = "iload", ![o].infos[task[o].chk] = quotes[task[o].chk]]
    /\ UNCHANGED <<proofs, counter, sagas, mint, net, hist, quotes, bank>>

(* The quotes are reserved one by one; QuoteAlreadyInUse ends the call and *)
(* leaves the others reserved.                                             *)
ReserveMintQuote(o) ==
    /\ task[o].pc = "ireserve"
    /\ \E q \in QuotesOf(o) \ task[o].held :
          IF ReserveQuoteOk(q)
          THEN /\ ReserveQuote(q, o)
               /\ task' = [task EXCEPT ![o].held = @ \cup {q},
                      ![o].pc = IF task[o].held \cup {q} = QuotesOf(o) THEN "icounter" ELSE "ireserve"]
          ELSE Goto(o, "failed") /\ UNCHANGED quotes
    /\ UNCHANGED <<proofs, counter, sagas, mint, net, hist, bank>>

(* AmountUndefined is not a definitive failure: no compensation runs.      *)
PrepareSecrets(o) ==
    LET n == Total(task[o].infos) IN
    /\ task[o].pc = "icounter"
    /\ IF n = 0
       THEN Goto(o, "failed") /\ UNCHANGED counter
       ELSE /\ IncrementKeysetCounter(n)
            /\ task' = [task EXCEPT ![o].pc = "ilog", ![o].outs = TakenBy(n)]
    /\ UNCHANGED <<proofs, sagas, mint, net, hist, quotes, bank>>

(* The saga's first range is read here too, and replaced before it is used.*)
IssueAddSaga(o) ==
    /\ task[o].pc = "ilog"
    /\ AddSaga(o, [NoSaga EXCEPT !.state = "SecretsPrepared", !.outs = task[o].outs])
    /\ Goto(o, "iexecute")
    /\ UNCHANGED <<proofs, counter, mint, net, hist, quotes, bank>>

(***************************************************************************)
(* MintSaga::execute.                                                      *)
(***************************************************************************)
IssueRange(o) ==
    LET range == RangeBefore(Cardinality(task[o].outs)) IN
    /\ task[o].pc = "iexecute"
    /\ task' = [task EXCEPT ![o].pc = "irequest", ![o].range = range]
    /\ hist' = [hist EXCEPT !.shifted = @ \/ range # task[o].outs]
    /\ UNCHANGED <<proofs, counter, sagas, mint, net, quotes, bank>>

RequestMint(o) ==
    /\ task[o].pc = "irequest"
    /\ IF UpdateSagaOk(o, 0)
       THEN /\ UpdateSaga(o, [sagas[o] EXCEPT !.state = "MintRequested", !.range = task[o].range])
            /\ Goto(o, "iposted")
       ELSE Goto(o, "failed") /\ UNCHANGED sagas
    /\ UNCHANGED <<proofs, counter, mint, net, hist, quotes, bank>>

PostedIssue(o) == IssueRequest(o, task[o].infos, task[o].outs)

AnswerIssue(o) ==
    /\ task[o].pc = "iposted"
    /\ MintIssues(PostedIssue(o), bank.mints)
    /\ Goto(o, IssueAnswer(PostedIssue(o)))
    /\ UNCHANGED <<proofs, counter, sagas, net, hist, quotes>>

RetryIssue(o) ==
    /\ task[o].pc \in {"isigned", "irefused"}
    /\ task[o].held = QuotesOf(o)
    /\ Goto(o, "iposted")
    /\ UNCHANGED <<proofs, counter, sagas, mint, net, hist, quotes, bank>>

GiveUpIssue(o) ==
    /\ task[o].pc = "iposted"
    /\ Goto(o, "failed")
    /\ bank' \in {bank, [bank EXCEPT !.mints = @ \cup {PostedIssue(o)}]}
    /\ UNCHANGED <<proofs, counter, sagas, mint, net, hist, quotes>>

LateIssue(r) ==
    /\ r \in bank.mints
    /\ MintIssues(r, bank.mints \ {r})
    /\ hist' = [hist EXCEPT !.late = TRUE]
    /\ UNCHANGED <<proofs, counter, sagas, net, task, quotes>>

(* add_mint_quote for every quote, before the coins are stored: a quote    *)
(* that was written by another call meanwhile (ConcurrentUpdate) ends the  *)
(* call, and the saga stays.                                               *)
SaveIssued(o) ==
    /\ task[o].pc = "isigned"
    /\ \E q \in task[o].held :
          LET row == [task[o].infos[q] EXCEPT !.issued = @ + Mintable(task[o].infos[q])] IN
          IF AddQuoteOk(q, row)
          THEN /\ AddQuote(q, row)
               /\ task' = [task EXCEPT ![o].held = @ \ {q},
                                       ![o].pc = IF task[o].held = {q} THEN "istore" ELSE "isigned"]
          ELSE Goto(o, "failed") /\ UNCHANGED quotes
    /\ UNCHANGED <<proofs, counter, sagas, mint, net, hist, bank>>

(* The upsert sets a coin that a check has stored already, and that may be *)
(* in use by now, to Unspent again.                                        *)
StoreIssued(o) ==
    /\ task[o].pc = "istore"
    /\ proofs' = UpdateProofs(NewRows(task[o].outs, "Unspent", TRUE), {})
    /\ hist' = [hist EXCEPT !.raced = @ \/ task[o].outs \cap DOMAIN proofs # {}]
    /\ Goto(o, "irelease")
    /\ UNCHANGED <<counter, sagas, mint, net, quotes, bank>>

ReleaseIssued(o) ==
    /\ task[o].pc = "irelease"
    /\ ReleaseQuotes(o)
    /\ Goto(o, "finish")
    /\ UNCHANGED <<proofs, counter, sagas, mint, net, hist, bank>>

(* The compensations, in reverse order: MintCompensation, ReleaseMintQuote.*)
CompensateMint(o) ==
    /\ task[o].pc = "irefused"
    /\ DeleteSaga(o)
    /\ Goto(o, "iundo")
    /\ UNCHANGED <<proofs, counter, mint, net, hist, quotes, bank>>

ReleaseMintQuote(o) ==
    /\ task[o].pc = "iundo"
    /\ ReleaseQuotes(o)
    /\ Goto(o, "failed")
    /\ UNCHANGED <<proofs, counter, sagas, mint, net, hist, bank>>

(***************************************************************************)
(* inner_check_mint_quote_status, of a checker or of an issue operation.   *)
(***************************************************************************)
StartCheckMint(h) ==
    /\ h \in Checkers /\ task[h].pc = "idle"
    /\ \E q \in MintQuotes :
          task' = [task EXCEPT ![h].pc = "cstate", ![h].chk = q, ![h].infos = q :> quotes[q]]
    /\ UNCHANGED <<proofs, counter, sagas, mint, net, hist, quotes, bank>>

FromMint(row, q) == [row EXCEPT !.paid = bank.issue[q].paid, !.issued = bank.issue[q].issued]

(* check_state, or no answer.                                              *)
CheckState(h) ==
    LET q == task[h].chk
        o == task[h].infos[q].op IN
    /\ task[h].pc = "cstate"
    /\ \/ task' = [task EXCEPT ![h].infos[q] = FromMint(@, q), ![h].op = o,
                               ![h].pc = IF o = NoOp THEN "csave" ELSE "cget"]
       \/ Goto(h, "failed")
    /\ UNCHANGED <<proofs, counter, sagas, mint, net, hist, quotes, bank>>

(* get_saga, and resume_issue_saga if there is one.                        *)
ResumeIssuePc(row) == IF row.state = "SecretsPrepared" THEN "rrelease" ELSE "rreplay"

CheckSaga(h) ==
    LET row == sagas[task[h].op] IN
    /\ task[h].pc = "cget" /\ task[h].chk \in MintQuotes
    /\ task' = [task EXCEPT ![h].row = row,
                            ![h].pc = IF row = NoSaga THEN "corphan" ELSE ResumeIssuePc(row)]
    /\ TakenUp(task[h].op, row.state # "MintRequested")
    /\ UNCHANGED <<proofs, counter, sagas, mint, net, quotes, bank>>

(* compensate_issue.                                                       *)
CompensateIssue(h) ==
    /\ task[h].pc = "rrelease"
    /\ ReleaseQuotes(task[h].op)
    /\ Goto(h, "rundone")
    /\ UNCHANGED <<proofs, counter, sagas, mint, net, hist, bank>>

(* try_replay_mint with the quotes as they are now: a batch whose amounts  *)
(* have changed is a new request.  Whatever goes wrong, restore is next.   *)
ReplayIssue(h) ==
    LET o == task[h].op
        r == IssueRequest(o, quotes, task[h].row.outs) IN
    /\ task[h].pc = "rreplay"
    /\ \/ /\ MintIssues(r, bank.mints)
          /\ \/ IssueAnswer(r) = "isigned" /\ Goto(h, "rstore")
             \/ Goto(h, "rrestore")
       \/ /\ bank' \in {bank, [bank EXCEPT !.mints = @ \cup {r}]}
          /\ Goto(h, "rrestore")
          /\ UNCHANGED mint
    /\ UNCHANGED <<proofs, counter, sagas, net, hist, quotes>>

(* The signatures are paired with the secrets of the stored range.         *)
StoreReplayedIssue(h) ==
    LET row == task[h].row IN
    /\ task[h].pc = "rstore"
    /\ proofs' = UpdateProofs(NewRows(row.range, "Unspent", row.range = row.outs), {})
    /\ hist' = [hist EXCEPT !.raced = @ \/ row.range \cap DOMAIN proofs # {}]
    /\ Goto(h, "rtxread")
    /\ UNCHANGED <<counter, sagas, mint, net, quotes, bank>>

(* record_recovered_issue_transaction: the first quote is read, refreshed  *)
(* if the mint answers, and written; errors are ignored.                   *)
ReadRecordedQuote(h) ==
    LET q == CHOOSE q \in QuotesOf(task[h].op) : TRUE IN
    /\ task[h].pc = "rtxread"
    /\ \E row \in {quotes[q], FromMint(quotes[q], q)} :
          task' = [task EXCEPT ![h].pc = "rtxsave", ![h].infos = (q :> row) @@ @]
    /\ UNCHANGED <<proofs, counter, sagas, mint, net, hist, quotes, bank>>

SaveRecordedQuote(h) ==
    LET q == CHOOSE q \in QuotesOf(task[h].op) : TRUE
        row == task[h].infos[q] IN
    /\ task[h].pc = "rtxsave"
    /\ IF AddQuoteOk(q, row) THEN AddQuote(q, row) ELSE UNCHANGED quotes
    /\ Goto(h, "rdone")
    /\ UNCHANGED <<proofs, counter, sagas, mint, net, hist, bank>>


(* restore_outputs, as in RestoreOutputs of WalletEcash: no signatures, or *)
(* an error.                                                               *)
RestoreIssue(h) ==
    /\ task[h].pc = "rrestore"
    /\ \/ /\ task[h].row.outs \cap mint.signed = {}
          /\ Undone(task[h].op)
          /\ Goto(h, "rundone")
       \/ Resumed(h, "failed") /\ UNCHANGED hist
    /\ UNCHANGED <<proofs, counter, sagas, mint, net, quotes, bank>>

(* delete_saga.  After Recovered the quote is read again.                  *)
DeleteResumed(h) ==
    /\ task[h].pc \in {"rdone", "rundone"}
    /\ DeleteSaga(task[h].op)
    /\ Resumed(h, IF task[h].pc = "rdone" THEN "creread" ELSE "csave")
    /\ UNCHANGED <<proofs, counter, mint, net, hist, quotes, bank>>

RereadChecked(h) ==
    /\ task[h].pc = "creread"
    /\ task' = [task EXCEPT ![h].pc = "csave", ![h].infos[task[h].chk] = quotes[task[h].chk]]
    /\ UNCHANGED <<proofs, counter, sagas, mint, net, hist, quotes, bank>>

SaveChecked(h) ==
    LET q == task[h].chk
        row == task[h].infos[q] IN
    /\ task[h].pc = "csave"
    /\ IF AddQuoteOk(q, row)
       THEN AddQuote(q, row) /\ Goto(h, IF h \in Issues THEN "ireread" ELSE "done")
       ELSE Goto(h, "failed") /\ UNCHANGED quotes
    /\ UNCHANGED <<proofs, counter, sagas, mint, net, hist, bank>>

CheckMintNext(h) ==
    \/ StartCheckMint(h) \/ CheckState(h) \/ CheckSaga(h) \/ OrphanRelease(h)
    \/ CompensateIssue(h) \/ ReplayIssue(h) \/ StoreReplayedIssue(h)
    \/ ReadRecordedQuote(h) \/ SaveRecordedQuote(h) \/ RestoreIssue(h) \/ DeleteResumed(h)
    \/ RereadChecked(h) \/ SaveChecked(h)

IssueNext(o) ==
    \/ StartIssue(o) \/ LoadQuotes(o) \/ RereadQuote(o) \/ ReserveMintQuote(o) \/ PrepareSecrets(o)
    \/ IssueAddSaga(o) \/ IssueRange(o) \/ RequestMint(o)
    \/ AnswerIssue(o) \/ RetryIssue(o) \/ GiveUpIssue(o)
    \/ SaveIssued(o) \/ StoreIssued(o) \/ ReleaseIssued(o) \/ CompensateMint(o) \/ ReleaseMintQuote(o)
=============================================================================
