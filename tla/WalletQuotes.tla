---------------------------- MODULE WalletQuotes ----------------------------
(***************************************************************************)
(* The quote tables of the wallet's database, and the mint's side of a     *)
(* quote.  A quote is reserved by one operation at a time (its column      *)
(* used_by_operation), and is written with an optimistic lock (its column  *)
(* version); reserve and release leave the version alone.                  *)
(***************************************************************************)
EXTENDS WalletSwap, TLC

CONSTANTS
    MintQuotes,  \* quotes for coins that the wallet pays for
    MeltQuotes,  \* quotes for payments of one coin
    Checkers,    \* calls of check_mint_quote_status and check_melt_quote_status
    Recovery,    \* the task that resumes issue and melt sagas after a restart
    MaxPaid      \* bound on the payments to a mint quote

ASSUME WalletQuotesAssumption ==
    /\ MintQuotes \cap MeltQuotes = {} /\ Checkers \subseteq Sagas /\ Recovery \in Sagas
    /\ MaxPaid \in Nat

VARIABLES
    quotes,  \* tables mint_quote and melt_quote
    bank     \* the mint's quotes, its cached answers and the requests nobody waits for

quoteVars == <<quotes, bank>>

QuoteRow == [paid |-> 0, issued |-> 0, state |-> "Unpaid", version |-> 0, op |-> NoOp]

QuotesInit ==
    /\ quotes = [q \in MintQuotes \cup MeltQuotes |-> QuoteRow]
    /\ bank = [issue |-> [q \in MintQuotes |-> [paid |-> 0, issued |-> 0]],
               melt  |-> [q \in MeltQuotes |-> [state |-> "Unpaid", ins |-> {}, outs |-> {}]],
               cache |-> {}, mints |-> {}, melts |-> {}]

(* add_mint_quote and add_melt_quote: an upsert WHERE version = :expected. *)
(* Mutant: the version is not compared.                                    *)
AddQuoteMutant(q, row) == q \in DOMAIN quotes

AddQuoteOk(q, row) == q \in DOMAIN quotes /\ quotes[q].version = row.version

(* Every column but used_by_operation.                                     *)
AddQuote(q, row) ==
    quotes' = [quotes EXCEPT ![q] = [row EXCEPT !.version = @ + 1, !.op = quotes[q].op]]

(* reserve_mint_quote and reserve_melt_quote: WHERE used_by_operation IS   *)
(* NULL, otherwise QuoteAlreadyInUse.                                      *)
ReserveQuoteOk(q) == q \in DOMAIN quotes /\ quotes[q].op = NoOp

ReserveQuote(q, o) == quotes' = [quotes EXCEPT ![q].op = o]

(* release_mint_quote and release_melt_quote.                              *)
ReleaseQuotes(o) ==
    quotes' = [q \in DOMAIN quotes |->
                  IF quotes[q].op = o THEN [quotes[q] EXCEPT !.op = NoOp] ELSE quotes[q]]

(* MintQuote::amount_mintable, a bolt11 quote being paid once.             *)
Mintable(row) == IF row.paid > row.issued THEN row.paid - row.issued ELSE 0

(* A payment of one coin for a mint quote arrives at the mint.             *)
PayQuote(q) ==
    /\ bank.issue[q].paid < MaxPaid
    /\ bank' = [bank EXCEPT !.issue[q].paid = @ + 1]
    /\ UNCHANGED <<swapVars, quotes>>

(* A call decides to undo an operation that is still running.              *)
Undone(o) == hist' = [hist EXCEPT !.raced = @ \/ Live(o)]

(* A call takes up the saga of an operation, to undo it if undo, while the *)
(* operation is running or another call is resuming it.                    *)
TakenUp(o, undo) ==
    hist' = [hist EXCEPT !.raced = \/ @
                                   \/ undo /\ Live(o)
                                   \/ \E h \in Sagas : task[h].op = o /\ task[h].row # NoSaga /\ Live(h)]

(* A saga is resumed by a check of a quote, or without one, by recovery or *)
(* finalize_pending_melts.                                                 *)
Resumed(h, pc) ==
    task' = [task EXCEPT ![h].pc = IF h = Recovery THEN "idle" ELSE IF task[h].chk = NoOp THEN "done" ELSE pc]

(* Orphaned reservation: there is no saga.                                 *)
OrphanRelease(h) ==
    /\ task[h].pc = "corphan"
    /\ ReleaseQuotes(task[h].op)
    /\ Goto(h, IF task[h].chk \in MintQuotes THEN "csave" ELSE "mcask")
    /\ UNCHANGED <<proofs, counter, sagas, mint, net, hist, bank>>
=============================================================================
