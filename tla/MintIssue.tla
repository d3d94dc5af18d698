----------------------------- MODULE MintIssue -----------------------------
(***************************************************************************)
(* Minting: mint quotes, the payments that come in for them, and the       *)
(* issuing of ecash.                                                       *)
(*                                                                         *)
(* A payment is credited to its quote along three ways that race: the      *)
(* event stream of the payment backend (HandlePaymentNotification), a      *)
(* check of the quote by a client, a subscription or a mint request        *)
(* (ReadQuote, AskBackend, LoadPayments, CreditPayments), and a melt at    *)
(* the same mint (InternalPayment).  The first may lose, delay and repeat  *)
(* an event; the second works from values read before its transaction:     *)
(* get_mint_quote reads the payments of a quote before it locks the quote. *)
(*                                                                         *)
(* Quotes are in sat, what the backend reports is in msat.                 *)
(***************************************************************************)
EXTENDS MintStore

CONSTANTS
    MintQuotes,
    Bolt11,         \* the bolt11 quotes; the others are bolt12
    Locked,         \* the quotes created with a pubkey (NUT-20)
    QuoteSat(_),    \* the amount of a bolt11 quote
    Payments,       \* incoming payments of the backend, by payment_id
    Melts,          \* melt quotes that pay a quote of this mint
    PaysQuote(_),   \* the quote a payment or a melt is for
    Msat(_),        \* the amount of a payment or a melt
    SatOf(_),       \* the total in sat of a set of payment rows
    Requests,       \* the mint requests that clients send
    Checkers,       \* clients that check a quote
    Subscriptions,  \* subscriptions that fetch the state of a quote
    Scenarios,      \* which of these take part: the scenarios to look at
    IssueDbErrors,  \* whether a database transaction may fail
    IssueCrashes    \* bound on the restarts of the mint

PaymentIds == Payments \cup Melts

MSAT_IN_SAT == 1000

ConvertToSat(p) == Msat(p) \div MSAT_IN_SAT

(* The total of the outputs of a mint request.                             *)
OutputsAmount(r) == MapThenSumSet(LAMBDA b : r.outs[b], DOMAIN r.outs)

(* SatOf adds up amounts.  An invoice is paid in full, and a bolt11 quote  *)
(* is for one sat at least; verify_outputs wants an output, and blind_sign *)
(* a key for its amount, of which there is none for 0.                     *)
ASSUME IssueAssumption ==
    /\ Bolt11 \subseteq MintQuotes /\ Locked \subseteq MintQuotes
    /\ Payments \cap Melts = {} /\ Ops \cap (Checkers \cup Subscriptions) = {}
    /\ \A p \in PaymentIds :
          /\ PaysQuote(p) \in MintQuotes /\ Msat(p) \in Nat \ {0}
          /\ PaysQuote(p) \in Bolt11 => Msat(p) >= MSAT_IN_SAT
          /\ SatOf({p}) = ConvertToSat(p)
    /\ \A ps \in SUBSET PaymentIds : SatOf(ps) \in Nat
    /\ \A ps, qs \in SUBSET PaymentIds :
          ps \cap qs = {} => SatOf(ps \cup qs) = SatOf(ps) + SatOf(qs)
    /\ \A r \in Requests :
          /\ r.quotes \subseteq MintQuotes /\ DOMAIN r.outs \subseteq Outs
          /\ \A b \in DOMAIN r.outs : r.outs[b] \in Nat
          /\ OutputsAmount(r) \in Nat \ {0}
    /\ IssueCrashes \in Nat

VARIABLES
    scenario,             \* the scenario, which stays as it is
    mint_quote,           \* table mint_quote
    mint_quote_payments,  \* table mint_quote_payments: the payment_ids in it
    received,             \* the payments the backend has received
    events,               \* payment events on their way to the mint
    task,                 \* the mint requests and the checks in progress
    issued,               \* quotes whose issuance is about to be published
    quoteTold,            \* the last state published for every quote (NUT-17)
    issueCrashes

issueVars == <<scenario, storeVars, mint, told, mint_quote, mint_quote_payments, received,
               events, task, issued, quoteTold, issueCrashes>>

Tasks == Ops \cup Checkers \cup Subscriptions

QuoteRow == [exists : BOOLEAN, amount_paid : Nat, amount_issued : Nat]

NoQuote == [exists |-> FALSE, amount_paid |-> 0, amount_issued |-> 0]

NoRequest == [batch |-> FALSE, quotes |-> {}, amounts |-> <<>>, outs |-> <<>>, signed |-> {}]

Idle == [pc |-> "idle", req |-> NoRequest, todo |-> {}, answer |-> {},
         seen |-> [q \in MintQuotes |-> NoQuote]]

IssueInit ==
    /\ scenario \in Scenarios
    /\ StoreInit
    /\ mint_quote = [q \in MintQuotes |-> NoQuote]
    /\ mint_quote_payments = {}
    /\ received = {}
    /\ events = {}
    /\ task = [t \in Tasks |-> Idle]
    /\ issued = {}
    /\ quoteTold = [q \in MintQuotes |-> "None"]
    /\ issueCrashes = 0

Tell(qs, state) == quoteTold' = [q \in MintQuotes |-> IF q \in qs THEN state ELSE quoteTold[q]]

(***************************************************************************)
(* A row of mint_quote.                                                    *)
(***************************************************************************)
ComputeQuoteState(row) ==
    IF row.amount_paid = 0 /\ row.amount_issued = 0 THEN "Unpaid"
    ELSE IF row.amount_paid > row.amount_issued THEN "Paid" ELSE "Issued"

AmountMintable(row) ==
    IF row.amount_paid > row.amount_issued THEN row.amount_paid - row.amount_issued ELSE 0

AddIssuanceOk(row, sat) == row.amount_issued + sat <= row.amount_paid

PaymentsOf(q, ps) == {p \in ps : PaysQuote(p) = q}

(* Mutant: neither does a bolt12 quote.                                    *)
SettledMutant(q, row) == ComputeQuoteState(row) # "Unpaid"

(* A bolt11 quote that has been paid takes no other payment.               *)
Settled(q, row) == q \in Bolt11 /\ ComputeQuoteState(row) # "Unpaid"

(* Mutant: the payment_id column is not UNIQUE.                            *)
UniqueMutant(ps) == TRUE

(* mint_quote_payments.payment_id is UNIQUE: the INSERT of update_mint_    *)
(* quote fails for a payment that is already there.                        *)
InsertPaymentsOk(ps) == ps \cap mint_quote_payments = {}

(* Mutant: the row is written back as it was read before the transaction.  *)
CreditMutant(q, ps, t) ==
    /\ mint_quote_payments' = mint_quote_payments \cup ps
    /\ mint_quote' = [mint_quote EXCEPT
           ![q] = [(IF t \in Tasks THEN task[t].seen[q] ELSE @) EXCEPT !.amount_paid = @ + SatOf(ps)]]

(* add_payment and update_mint_quote: both amounts are written back, those *)
(* of the row the transaction of task t has locked.                        *)
Credit(q, ps, t) ==
    /\ mint_quote_payments' = mint_quote_payments \cup ps
    /\ mint_quote' = [mint_quote EXCEPT ![q].amount_paid = @ + SatOf(ps)]

(***************************************************************************)
(* Quotes and payments.                                                    *)
(***************************************************************************)
(* get_mint_quote: the backend creates the invoice or offer, the row is    *)
(* added.                                                                  *)
GetMintQuote(q) ==
    /\ ~mint_quote[q].exists
    /\ mint_quote' = [mint_quote EXCEPT ![q].exists = TRUE]
    /\ Tell({q}, "Unpaid")
    /\ UNCHANGED <<storeVars, mint, told, mint_quote_payments, received, events, task,
                   issued, issueCrashes>>

(* A payment comes in; an invoice is paid at most once.                    *)
PaymentReceived(p) ==
    /\ p \in Payments \ received
    /\ mint_quote[PaysQuote(p)].exists
    /\ PaysQuote(p) \in Bolt11 => PaymentsOf(PaysQuote(p), received) = {}
    /\ received' = received \cup {p}
    /\ UNCHANGED <<storeVars, mint, told, mint_quote, mint_quote_payments, events, task,
                   issued, quoteTold, issueCrashes>>

(* The backend may repeat an event, after it reconnects say, or lose it:   *)
(* CLN's index of the last event is stored before the event is handled.    *)
PaymentEvent(p) ==
    /\ p \in received
    /\ events' \in {events \cup {p}, events \ {p}}
    /\ events' # events
    /\ UNCHANGED <<storeVars, mint, told, mint_quote, mint_quote_payments, received, task,
                   issued, quoteTold, issueCrashes>>

(* handle_payment_notification, with handle_mint_quote_payment: one        *)
(* transaction that locks the row before it reads the payments.  The       *)
(* publication precedes the commit, which may fail.                        *)
HandlePaymentNotification(p) ==
    LET q == PaysQuote(p)
        recorded == /\ p \notin mint_quote_payments
                    /\ ~Settled(q, mint_quote[q])
                    /\ ConvertToSat(p) > 0
    IN  /\ p \in events
        /\ events' = events \ {p}
        /\ \/ recorded /\ Credit(q, {p}, p) /\ Tell({q}, "Paid")
           \/ recorded /\ IssueDbErrors /\ Tell({q}, "Paid")
                /\ UNCHANGED <<mint_quote, mint_quote_payments>>
           \/ ~recorded /\ UNCHANGED <<mint_quote, mint_quote_payments, quoteTold>>
        /\ UNCHANGED <<storeVars, mint, told, received, task, issued, issueCrashes>>

(* A bolt11 quote that is Paid or Issued is RequestAlreadyPaid.            *)
InternalOk(m) ==
    /\ mint_quote[PaysQuote(m)].exists
    /\ m \notin mint_quote_payments
    /\ ~Settled(PaysQuote(m), mint_quote[PaysQuote(m)])

(* attempt_internal_settlement, as far as the mint quote is concerned.     *)
InternalPayment(m) ==
    /\ m \in Melts
    /\ InternalOk(m)
    /\ Credit(PaysQuote(m), {m}, m)
    /\ Tell({PaysQuote(m)}, "Paid")
    /\ UNCHANGED <<storeVars, mint, told, received, events, task, issued, issueCrashes>>

(***************************************************************************)
(* check_mint_quote_payments, by every task.                               *)
(***************************************************************************)
StartCheck(c, q) ==
    /\ c \in Checkers \cup Subscriptions
    /\ task[c].pc = "idle"
    /\ task' = [task EXCEPT ![c] = [Idle EXCEPT !.pc = "read", !.todo = {q}]]
    /\ UNCHANGED <<storeVars, mint, told, mint_quote, mint_quote_payments, received, events,
                   issued, quoteTold, issueCrashes>>

(* process_mint_request, up to the quotes; a client may repeat a request.  *)
(* An operation id is used by the transaction that commits.                *)
StartMintRequest(o, r) ==
    /\ o \in Ops \ completed_operations
    /\ task[o].pc = "idle"
    /\ task' = [task EXCEPT ![o] = [Idle EXCEPT !.pc = "read", !.req = r, !.todo = r.quotes]]
    /\ UNCHANGED <<storeVars, mint, told, mint_quote, mint_quote_payments, received, events,
                   issued, quoteTold, issueCrashes>>

(* The quote t is at: the quotes of a request are gone through one by one, *)
(* in an order that makes no difference.                                   *)
At(t) == CHOOSE q \in task[t].todo : TRUE

(* The row is read without a lock; there is nothing to ask about a settled *)
(* quote.                                                                  *)
ReadQuote(t) ==
    LET row  == mint_quote[At(t)]
        read == [task[t] EXCEPT !.seen[At(t)] = row]
        next == IF ~row.exists THEN Idle
                ELSE IF Settled(At(t), row) THEN [read EXCEPT !.todo = @ \ {At(t)}]
                ELSE [read EXCEPT !.pc = "ask"]
    IN
    /\ task[t].pc = "read"
    /\ task[t].todo # {}
    /\ task' = [task EXCEPT ![t] = next]
    /\ UNCHANGED <<storeVars, mint, told, mint_quote, mint_quote_payments, received, events,
                   issued, quoteTold, issueCrashes>>

(* check_incoming_payment_status.                                          *)
AskBackend(t) ==
    LET answer == PaymentsOf(At(t), received)
        next   == IF answer = {} THEN [task[t] EXCEPT !.pc = "read", !.todo = @ \ {At(t)}]
                  ELSE [task[t] EXCEPT !.pc = "load", !.answer = answer]
    IN
    /\ task[t].pc = "ask"
    /\ task' = [task EXCEPT ![t] = next]
    /\ UNCHANGED <<storeVars, mint, told, mint_quote, mint_quote_payments, received, events,
                   issued, quoteTold, issueCrashes>>

(* The transaction begins: the payments already recorded are read.         *)
LoadPayments(t) ==
    /\ task[t].pc = "load"
    /\ task' = [task EXCEPT ![t].pc = "credit", ![t].answer = @ \ mint_quote_payments]
    /\ UNCHANGED <<storeVars, mint, told, mint_quote, mint_quote_payments, received, events,
                   issued, quoteTold, issueCrashes>>

(* The row is locked and reloaded.  When the quote was settled meanwhile,  *)
(* the caller keeps the row it had read.                                   *)
CreditPayments(t) ==
    LET q    == At(t)
        next == [task[t] EXCEPT !.pc = "read", !.todo = @ \ {q}, !.answer = {}]
    IN  /\ task[t].pc = "credit"
        /\ \/ /\ Settled(q, mint_quote[q])
              /\ task' = [task EXCEPT ![t] = next]
              /\ UNCHANGED <<mint_quote, mint_quote_payments, quoteTold>>
           \/ /\ ~Settled(q, mint_quote[q])
              /\ InsertPaymentsOk(task[t].answer)
              /\ Credit(q, task[t].answer, t)
              /\ task' = [task EXCEPT ![t] = [next EXCEPT !.seen[q] = mint_quote'[q]]]
              /\ Tell(IF task[t].answer = {} \/ t \in Subscriptions THEN {} ELSE {q}, "Paid")
           \/ /\ ~Settled(q, mint_quote[q])
              /\ ~InsertPaymentsOk(task[t].answer)
              /\ task' = [task EXCEPT ![t] = Idle]
              /\ UNCHANGED <<mint_quote, mint_quote_payments>>
              /\ \E qs \in {{}, {q}} :
                    /\ qs = {q} =>
                          t \notin Subscriptions /\ ~(task[t].answer \subseteq mint_quote_payments)
                    /\ Tell(qs, "Paid")
        /\ UNCHANGED <<storeVars, mint, told, received, events, issued, issueCrashes>>

(* A check answers its client.                                             *)
CheckDone(c) ==
    /\ c \in Checkers \cup Subscriptions
    /\ task[c].pc = "read" /\ task[c].todo = {}
    /\ task' = [task EXCEPT ![c] = Idle]
    /\ UNCHANGED <<storeVars, mint, told, mint_quote, mint_quote_payments, received, events,
                   issued, quoteTold, issueCrashes>>

(* A task ends early: its client is gone, the backend or the database      *)
(* fails, and a transaction in progress is rolled back; what it had        *)
(* published stays published.                                              *)
TaskFails(t) ==
    /\ IssueDbErrors
    /\ task[t].pc # "idle"
    /\ \/ UNCHANGED quoteTold
       \/ /\ task[t].pc = "credit" /\ t \notin Subscriptions
          /\ ~Settled(At(t), mint_quote[At(t)])
          /\ ~(task[t].answer \subseteq mint_quote_payments)
          /\ Tell({At(t)}, "Paid")
    /\ task' = [task EXCEPT ![t] = Idle]
    /\ UNCHANGED <<storeVars, mint, told, mint_quote, mint_quote_payments, received, events,
                   issued, issueCrashes>>

(***************************************************************************)
(* process_mint_request, once every quote has been fetched.  A request     *)
(* names its quotes, for a batch (NUT-29) possibly the amount of each, the *)
(* outputs with their amounts and the quotes it carries a valid signature  *)
(* for.                                                                    *)
(***************************************************************************)
ExpectedAmount(r, q, row) ==
    IF q \in Bolt11 THEN QuoteSat(q)
    ELSE IF q \in DOMAIN r.amounts THEN r.amounts[q]
    ELSE AmountMintable(row)

(* The checks on the rows that were read before the transaction.           *)
QuoteAccepted(r, q, row) ==
    /\ ComputeQuoteState(row) = "Paid"
    /\ ExpectedAmount(r, q, row) \in 1..AmountMintable(row)
    /\ q \notin Bolt11 => q \in Locked
    /\ q \in Locked <=> q \in r.signed

MintRequestAccepted(r, seen) ==
    /\ \A q \in r.quotes : QuoteAccepted(r, q, seen[q])
    /\ OutputsAmount(r) = MapThenSumSet(LAMBDA q : ExpectedAmount(r, q, seen[q]), r.quotes)

(* What a quote is issued for: its own share of a batch, the outputs of a  *)
(* single request.                                                         *)
AmountIssued(r, q, row) == IF r.batch THEN ExpectedAmount(r, q, row) ELSE OutputsAmount(r)


(* Phase 5: the transaction looks at the locked rows again.                *)
IssueOk(o) ==
    LET r == task[o].req
    IN  /\ MintRequestAccepted(r, task[o].seen)
        /\ AddBlindedMessagesOk(blind_signature, DOMAIN r.outs)
        /\ \A q \in r.quotes :
              /\ ComputeQuoteState(mint_quote[q]) = "Paid"
              /\ AddIssuanceOk(mint_quote[q], AmountIssued(r, q, task[o].seen[q]))

AddIssuance(r, seen) ==
    [q \in MintQuotes |->
        IF q \in r.quotes
        THEN [mint_quote[q] EXCEPT !.amount_issued = @ + AmountIssued(r, q, seen[q])]
        ELSE mint_quote[q]]

(* The quotes the task spawned after the commit will publish.              *)
Published(o) == IF IssueOk(o) THEN task[o].req.quotes ELSE {}

ProcessMintRequest(o) ==
    LET r == task[o].req
    IN  /\ o \in Ops
        /\ task[o].pc = "read" /\ task[o].todo = {}
        /\ task' = [task EXCEPT ![o] = Idle]
        /\ \/ /\ IssueOk(o)
              /\ blind_signature' =
                     AddBlindSignatures(AddBlindedMessages(blind_signature, DOMAIN r.outs, o), r.outs)
              /\ keyset_amounts' = AddAmounts(keyset_amounts, OutputsAmount(r), 0, 0)
              /\ completed_operations' = completed_operations \cup {o}
              /\ mint_quote' = AddIssuance(r, task[o].seen)
           \/ /\ ~IssueOk(o)
              /\ UNCHANGED <<blind_signature, keyset_amounts, completed_operations, mint_quote>>
        /\ issued' = issued \cup Published(o)
        /\ UNCHANGED <<proof, saga_state, mint, told, mint_quote_payments, received, events,
                       quoteTold, issueCrashes>>

(* The task spawned after the commit publishes the quote.                  *)
PublishIssued(q) ==
    /\ q \in issued
    /\ issued' = issued \ {q}
    /\ Tell({q}, "Issued")
    /\ UNCHANGED <<storeVars, mint, told, mint_quote, mint_quote_payments, received, events,
                   task, issueCrashes>>

(* The mint is killed and started again: every task and every event on its *)
(* way is lost, and there is nothing to recover.                           *)
IssueCrash ==
    /\ issueCrashes < IssueCrashes
    /\ issueCrashes' = issueCrashes + 1
    /\ task' = [t \in Tasks |-> Idle]
    /\ events' = {}
    /\ issued' = {}
    /\ UNCHANGED <<storeVars, mint, told, mint_quote, mint_quote_payments, received, quoteTold>>

(* The checks of a quote by a task that is no mint request.                *)
Check(c, q) == StartCheck(c, q) \/ CheckDone(c)

IssueNext ==
    /\ UNCHANGED scenario
    /\ \/ \E q \in MintQuotes \cap scenario :
             \/ GetMintQuote(q) \/ PublishIssued(q)
             \/ \E c \in (Checkers \cup Subscriptions) \cap scenario : Check(c, q)
       \/ \E p \in Payments \cap scenario :
             PaymentReceived(p) \/ PaymentEvent(p) \/ HandlePaymentNotification(p)
       \/ \E m \in Melts \cap scenario : InternalPayment(m)
       \/ \E o \in Ops \cap scenario :
             ProcessMintRequest(o) \/ \E r \in Requests : StartMintRequest(o, r)
       \/ \E t \in Tasks : \/ ReadQuote(t) \/ AskBackend(t) \/ LoadPayments(t)
                           \/ CreditPayments(t) \/ TaskFails(t)
       \/ IssueCrash

IssueSpec == IssueInit /\ [][IssueNext]_issueVars

(* The steps of the clients that check a quote, other than failing.        *)
CheckStep ==
    \E c \in Checkers \cap scenario :
       \/ \E q \in MintQuotes \cap scenario : Check(c, q)
       \/ ReadQuote(c) \/ AskBackend(c) \/ LoadPayments(c) \/ CreditPayments(c)

(* A client that waits for its payment goes on checking its quote, and its *)
(* checks do not go on failing forever (a step that ends a check as its    *)
(* code ends it is no failure, though it looks like one).                  *)
IssueFairSpec ==
    /\ IssueSpec
    /\ WF_issueVars(UNCHANGED scenario /\ CheckStep)
    /\ <>[][\A c \in Checkers : TaskFails(c) => CheckDone(c) \/ CreditPayments(c)]_issueVars

-----------------------------------------------------------------------------
(* The rows and what every task of check_mint_quote_payments and           *)
(* process_mint_request holds have their types.                            *)
IssueTypeOK ==
    /\ blind_signature \in OutputTable
    /\ keyset_amounts \in AmountsRow
    /\ completed_operations \subseteq Ops
    /\ mint_quote \in [MintQuotes -> QuoteRow]
    /\ mint_quote_payments \subseteq PaymentIds
    /\ received \subseteq Payments /\ events \subseteq Payments
    /\ task \in [Tasks -> [pc : {"idle", "read", "ask", "load", "credit"},
                            req : Requests \cup {NoRequest}, todo : SUBSET MintQuotes,
                            answer : SUBSET Payments, seen : [MintQuotes -> QuoteRow]]]
    /\ issued \subseteq MintQuotes
    /\ quoteTold \in [MintQuotes -> {"None", "Unpaid", "Paid", "Issued"}]
    /\ issueCrashes \in 0..IssueCrashes

(* amount_paid of a quote is the sum of the payments recorded for it, each *)
(* counted once however often the stream and the checks report it.  A      *)
(* bolt11 quote is paid by one payment: one over Lightning and a melt at   *)
(* this mint are not both credited, whichever is noticed first.  A quote   *)
(* is published as Paid only when a payment came in, also when the         *)
(* transaction that was to record it failed after the publication.         *)
PaidOnce ==
    \A q \in MintQuotes :
       /\ mint_quote[q].amount_paid = SatOf(PaymentsOf(q, mint_quote_payments))
       /\ q \in Bolt11 => Cardinality(PaymentsOf(q, mint_quote_payments)) <= 1
       /\ quoteTold[q] = "Paid" => PaymentsOf(q, received \cup mint_quote_payments) # {}

(* No quote is issued for more than was paid for it, though a request      *)
(* checks its quotes before the transaction, and one is published as       *)
(* Issued only when it was.                                                *)
NoOverIssue ==
    \A q \in MintQuotes :
       /\ mint_quote[q].amount_issued <= mint_quote[q].amount_paid
       /\ quoteTold[q] = "Issued" => mint_quote[q].amount_issued > 0


(* No step takes back a payment or an issuance: the transactions of a      *)
(* check and of a mint request on one quote do not overwrite each other.   *)
IssueIsNeverLost ==
    [][\A q \in MintQuotes :
          /\ mint_quote'[q].amount_paid >= mint_quote[q].amount_paid
          /\ mint_quote'[q].amount_issued >= mint_quote[q].amount_issued]_issueVars

(* A payment that came in for a quote somebody checks is credited in the   *)
(* end, even when its event is lost: the next check finds it.  (A second   *)
(* payment of a bolt11 quote is ignored.)                                  *)
PaymentIsCredited ==
    \A p \in Payments :
       p \in received /\ Checkers \cap scenario # {} ~>
           \/ p \in mint_quote_payments
           \/ /\ PaysQuote(p) \in Bolt11
              /\ ComputeQuoteState(mint_quote[PaysQuote(p)]) # "Unpaid"
=============================================================================
