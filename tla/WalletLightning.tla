-------------------------- MODULE WalletLightning --------------------------
(***************************************************************************)
(* The wallet that mints and melts: the issue and the melt sagas side by   *)
(* side with plain swaps, checks of the quotes, crashes, and               *)
(* recover_incomplete_sagas after a restart, which first releases the      *)
(* quotes whose saga is gone and then resumes the sagas of a list it has   *)
(* read.                                                                   *)
(***************************************************************************)
EXTENDS WalletIssue, WalletMelt

CONSTANTS
    Scenarios,  \* the sets of calls a user may make of the wallet
    MaxCrashes  \* bound on the restarts of the wallet

ASSUME WalletLightningAssumption ==
    MaxCrashes \in Nat /\ Scenarios \subseteq SUBSET Sagas

VARIABLE rec  \* recover_incomplete_sagas: the operations and the rows it has read

lightningVars == <<proofs, counter, sagas, mint, net, task, hist, quotes, bank, rec>>

RecOff == [pc |-> "off", ops |-> {}, rows |-> <<>>]

LightningInit ==
    /\ StoreInit /\ QuotesInit
    /\ task = [i \in Sagas |-> Idle]
    /\ \E calls \in Scenarios :
          hist = [calls |-> calls, shifted |-> FALSE, clash |-> FALSE, raced |-> FALSE, late |-> FALSE,
                  forgone |-> {}, crashes |-> 0]
    /\ rec = RecOff

(***************************************************************************)
(* A crash, and the restart.                                               *)
(***************************************************************************)
At(pc) == {i \in Sagas : task[i].pc = pc}

Crash ==
    /\ hist.crashes < MaxCrashes
    /\ \E i \in Sagas : Live(i) \/ sagas[i] # NoSaga
    /\ \E sent \in SUBSET {RequestOf(i) : i \in At("posted")} : net' = net \cup sent
    /\ \E mints \in SUBSET {PostedIssue(o) : o \in At("iposted")},
          melts \in SUBSET {MeltRequest(t) : t \in At("mposted")} :
          bank' = [bank EXCEPT !.mints = @ \cup mints, !.melts = @ \cup melts]
    /\ task' = [i \in Sagas |-> IF Live(i) THEN [task[i] EXCEPT !.pc = "dead"] ELSE task[i]]
    /\ rec' = [RecOff EXCEPT !.pc = "quotes"]
    /\ hist' = [hist EXCEPT !.crashes = @ + 1]
    /\ UNCHANGED <<proofs, counter, sagas, mint, quotes>>

LateSwap(r) ==
    /\ r \in net
    /\ MintSwaps(r)
    /\ net' = net \ {r}
    /\ UNCHANGED <<proofs, counter, sagas, task, hist, quotes, bank>>

(* cleanup_orphaned_quote_reservations: the quotes are read, and one by    *)
(* one the sagas of those that are reserved.                               *)
ListQuotes ==
    /\ rec.pc = "quotes"
    /\ rec' = [rec EXCEPT !.pc = "orphans", !.ops = {quotes[q].op : q \in DOMAIN quotes} \ {NoOp}]
    /\ UNCHANGED <<proofs, counter, sagas, mint, net, task, hist, quotes, bank>>

CleanupOrphan(o) ==
    /\ rec.pc = "orphans" /\ o \in rec.ops
    /\ IF sagas[o] = NoSaga THEN ReleaseQuotes(o) /\ Undone(o) ELSE UNCHANGED <<quotes, hist>>
    /\ rec' = [rec EXCEPT !.ops = @ \ {o}]
    /\ UNCHANGED <<proofs, counter, sagas, mint, net, task, bank>>

(* get_incomplete_sagas.                                                   *)
ListSagas ==
    /\ rec.pc = "orphans" /\ rec.ops = {}
    /\ rec' = [rec EXCEPT !.pc = "run",
                          !.rows = [i \in {j \in Sagas : sagas[j] # NoSaga} |-> sagas[i]]]
    /\ hist' = [hist EXCEPT !.raced = @ \/ \E i \in Sagas : Live(i) /\ sagas[i] # NoSaga]
    /\ UNCHANGED <<proofs, counter, sagas, mint, net, task, quotes, bank>>

(* The next saga.  A swap saga finds no coins and is deleted.              *)
ResumeNext(i) ==
    /\ rec.pc = "run" /\ i \in DOMAIN rec.rows /\ task[Recovery].pc = "idle"
    /\ rec' = [rec EXCEPT !.rows = Restrict(@, DOMAIN @ \ {i})]
    /\ IF i \in SwapIds
       THEN DeleteSaga(i) /\ UNCHANGED task
       ELSE /\ task' = [task EXCEPT ![Recovery] = [Idle EXCEPT !.op = i, !.row = rec.rows[i],
                            !.pc = IF i \in Issues THEN ResumeIssuePc(rec.rows[i]) ELSE ResumeMeltPc(rec.rows[i])]]
            /\ UNCHANGED sagas
    /\ IF rec.rows[i] = sagas[i] THEN TakenUp(i, FALSE) ELSE hist' = [hist EXCEPT !.raced = TRUE]
    /\ UNCHANGED <<proofs, counter, mint, net, quotes, bank>>

SwapSteps == \E i \in hist.calls \cup SwapIds : SwapNext(i) /\ UNCHANGED quoteVars

CallSteps == \E i \in hist.calls \cup {Recovery} :
                 IssueNext(i) \/ CheckMintNext(i) \/ MeltNext(i) \/ CheckMeltNext(i)

MintSteps ==
    \/ \E q \in MintQuotes : hist.calls \cap Issues # {} /\ PayQuote(q)
    \/ \E q \in MeltQuotes : SettlePayment(q)
    \/ \E r \in bank.mints : LateIssue(r)
    \/ \E r \in bank.melts : LateMelt(r)
    \/ \E r \in net : LateSwap(r)

RecoverySteps ==
    \/ ListQuotes \/ ListSagas
    \/ \E i \in Sagas : CleanupOrphan(i) \/ ResumeNext(i)

LightningNext ==
    \/ (SwapSteps \/ CallSteps \/ MintSteps) /\ UNCHANGED rec
    \/ RecoverySteps
    \/ Crash

LightningSpec == LightningInit /\ [][LightningNext]_lightningVars

(***************************************************************************)
(* Properties.                                                             *)
(***************************************************************************)
(* An operation that holds a coin or a quote has been overtaken: another   *)
(* one took the same coin, a check released a quote or stored a coin of an *)
(* operation that was running, or a request was executed when nobody       *)
(* waited for it any more.                                                 *)
Overtaken == hist.clash \/ hist.raced \/ hist.late



(* The wallet never counts a quote as issued that the mint has not issued, *)
(* and what it has noted as issued it does not forget.                     *)
IssuedIsNoted ==
    [][\A q \in MintQuotes : /\ quotes'[q].issued <= bank'.issue[q].issued
                             /\ quotes'[q].issued >= quotes[q].issued]_lightningVars
=============================================================================
