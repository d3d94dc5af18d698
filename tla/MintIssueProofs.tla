-------------------------- MODULE MintIssueProofs --------------------------
(***************************************************************************)
(* Proofs about minting, for any number of quotes, payments, requests and  *)
(* checks, with any interleaving of them, lost and repeated events, failed *)
(* transactions and crashes: every payment is credited once, no quote is   *)
(* issued for more than was paid, and nothing is taken back.               *)
(*                                                                         *)
(* The argument: a check works from an answer of the backend and from      *)
(* payments read before it has the lock, but the row it changes is the     *)
(* locked one, the UNIQUE payment_id refuses what was recorded meanwhile,  *)
(* and an unpaid bolt11 quote has no payment yet.                          *)
(***************************************************************************)
EXTENDS MintIssue, FiniteSetTheorems, TLAPS

(* PaidOnce without the subscribers and without counting.                  *)
PaidRows ==
    \A q \in MintQuotes :
       /\ mint_quote[q].amount_paid = SatOf(PaymentsOf(q, mint_quote_payments))
       /\ q \in Bolt11 =>
             \A p, r \in PaymentsOf(q, mint_quote_payments) : p = r

ToldPaid ==
    \A q \in MintQuotes :
       quoteTold[q] = "Paid" => PaymentsOf(q, received \cup mint_quote_payments) # {}

(* The backend reports what it has received, an invoice once.              *)
Reports ==
    /\ events \subseteq received
    /\ \A p, r \in received :
          PaysQuote(p) = PaysQuote(r) /\ PaysQuote(p) \in Bolt11 => p = r

(* The answer a check holds is about the quote the check is at, and an     *)
(* operation works on the request it was started with.                     *)
Answers ==
    \A t \in Tasks :
       /\ t \in Ops /\ task[t].pc # "idle" => task[t].req \in Requests
       /\ task[t].pc \in {"ask", "load", "credit"} => task[t].todo # {}
       /\ task[t].pc \in {"load", "credit"} => task[t].answer \subseteq PaymentsOf(At(t), received)

IssuedCounts == \A q \in issued : mint_quote[q].amount_issued > 0

(* The inductive invariant.                                                *)
IssueInv ==
    /\ IssueTypeOK /\ PaidRows /\ ToldPaid /\ NoOverIssue
    /\ Reports /\ Answers /\ IssuedCounts

LEMMA AmountsAdded ==
    ASSUME NEW row \in AmountsRow, NEW n \in Nat
    PROVE  AddAmounts(row, n, 0, 0) \in AmountsRow
BY DEF AddAmounts, AmountsRow

LEMMA MintableType == ASSUME NEW row \in QuoteRow PROVE AmountMintable(row) \in Nat
BY DEF AmountMintable, QuoteRow

LEMMA CrashCounted ==
    ASSUME NEW n \in 0..IssueCrashes, n < IssueCrashes
    PROVE  n + 1 \in 0..IssueCrashes
BY IssueAssumption

(***************************************************************************)
(* Sets of payments.                                                       *)
(***************************************************************************)
LEMMA PaymentsOfType ==
    ASSUME NEW q \in MintQuotes, NEW ps \in SUBSET PaymentIds
    PROVE  /\ PaymentsOf(q, ps) \in SUBSET PaymentIds
           /\ SatOf(PaymentsOf(q, ps)) \in Nat
  BY IssueAssumption, Zenon DEF PaymentsOf

LEMMA SatOfEmpty == SatOf({}) = 0
<1>1. /\ {} \in SUBSET PaymentIds /\ {} \cap {} = {} /\ {} \cup {} = {}
      /\ SatOf({}) \in Nat
  BY IssueAssumption, Zenon
<1>2. SatOf({}) = SatOf({}) + SatOf({})
  BY <1>1, IssueAssumption, Zenon
<1>3. \A n \in Nat : n = n + n => n = 0
  OBVIOUS
<1> QED
  BY <1>1, <1>2, <1>3, Zenon

(* A payment for a bolt11 quote is for one sat at least, so that a quote   *)
(* without an amount paid has no payment.                                  *)
LEMMA NoSatNoPayment ==
    ASSUME NEW q \in Bolt11, NEW ps \in SUBSET PaymentIds,
           SatOf(PaymentsOf(q, ps)) = 0
    PROVE  PaymentsOf(q, ps) = {}
<1> SUFFICES ASSUME NEW p \in PaymentsOf(q, ps) PROVE FALSE
  BY Zenon
<1> DEFINE rest == PaymentsOf(q, ps) \ {p}
<1>1. p \in PaymentIds /\ PaysQuote(p) = q /\ rest \in SUBSET PaymentIds
  BY Zenon DEF PaymentsOf
<1>2. {p} \cap rest = {} /\ {p} \cup rest = PaymentsOf(q, ps) /\ {p} \in SUBSET PaymentIds
  BY <1>1, Zenon
<1> HIDE DEF rest
<1>3. SatOf(PaymentsOf(q, ps)) = SatOf({p}) + SatOf(rest)
  BY <1>1, <1>2, IssueAssumption, Zenon
<1>4. SatOf({p}) = ConvertToSat(p) /\ Msat(p) \in Nat /\ Msat(p) >= 1000
  BY <1>1, IssueAssumption DEF MSAT_IN_SAT
<1>5. ConvertToSat(p) \in Nat /\ ConvertToSat(p) >= 1
  BY <1>4 DEF ConvertToSat, MSAT_IN_SAT
<1>6. SatOf(rest) \in Nat
  BY <1>1, IssueAssumption, Zenon
<1> QED
  BY <1>3, <1>4, <1>5, <1>6

(* PaidOnce follows: a set without two elements has at most one.           *)
LEMMA IssueInvPaidOnce == IssueInv => PaidOnce
<1> SUFFICES ASSUME IssueInv, NEW q \in MintQuotes
             PROVE  /\ mint_quote[q].amount_paid = SatOf(PaymentsOf(q, mint_quote_payments))
                    /\ q \in Bolt11 => Cardinality(PaymentsOf(q, mint_quote_payments)) <= 1
                    /\ quoteTold[q] = "Paid" => PaymentsOf(q, received \cup mint_quote_payments) # {}
  BY Zenon DEF PaidOnce
<1>1. ASSUME q \in Bolt11 PROVE Cardinality(PaymentsOf(q, mint_quote_payments)) <= 1
  <2> DEFINE S == PaymentsOf(q, mint_quote_payments)
  <2>1. \A p, r \in S : p = r
    BY <1>1, Zenon DEF IssueInv, PaidRows
  <2>2. CASE S = {}
    BY <2>2, FS_EmptySet
  <2>3. CASE S # {}
    <3>1. PICK p \in S : S = {p}
      BY <2>1, <2>3, Zenon
    <3> QED
      BY <3>1, FS_Singleton
  <2> QED
    BY <2>2, <2>3, Zenon
<1> QED
  BY <1>1, Zenon DEF IssueInv, PaidRows, ToldPaid

(***************************************************************************)
(* The kinds of steps.                                                     *)
(***************************************************************************)
TaskType ==
    [pc : {"idle", "read", "ask", "load", "credit"}, req : Requests \cup {NoRequest},
     todo : SUBSET MintQuotes, answer : SUBSET Payments, seen : [MintQuotes -> QuoteRow]]

LEMMA IdleType ==
    /\ NoQuote \in QuoteRow
    /\ Idle \in TaskType
    /\ Idle.pc = "idle"
  BY Zenon DEF NoQuote, QuoteRow, Idle, TaskType, NoRequest

(* What a step may publish about a quote.                                  *)
ToldStep ==
    /\ quoteTold' \in [MintQuotes -> {"None", "Unpaid", "Paid", "Issued"}]
    /\ \A q \in MintQuotes :
          \/ quoteTold'[q] = quoteTold[q]
          \/ quoteTold'[q] = "Unpaid"
          \/ quoteTold'[q] = "Paid" /\ PaymentsOf(q, received \cup mint_quote_payments') # {}
          \/ quoteTold'[q] = "Issued" /\ q \in issued

(* A step that writes no row.                                              *)
LEMMA QuietStep ==
    ASSUME IssueInv, UNCHANGED <<storeVars, mint_quote, mint_quote_payments>>,
           received \subseteq received', received' \subseteq Payments, Reports',
           task' \in [Tasks -> TaskType], Answers', issued' \subseteq issued,
           ToldStep, issueCrashes' \in 0..IssueCrashes
    PROVE  IssueInv'
<1> USE DEF IssueInv, storeVars
<1>1. IssueTypeOK'
  BY Zenon DEF IssueTypeOK, TaskType, Reports, ToldStep
<1>2. PaidRows'
  BY Zenon DEF PaidRows, PaymentsOf
<1>3. ToldPaid'
  BY Zenon DEF ToldPaid, ToldStep, PaymentsOf
<1>4. NoOverIssue'
  <2>1. \A q \in issued : mint_quote[q].amount_issued > 0
    BY Zenon DEF IssuedCounts
  <2> QED
    BY <2>1, Zenon DEF NoOverIssue, ToldStep
<1>5. IssuedCounts'
  BY Zenon DEF IssuedCounts
<1> QED
  BY <1>1, <1>2, <1>3, <1>4, <1>5, Zenon

(* A step that credits payments to a quote that is not settled.            *)
LEMMA CreditStep ==
    ASSUME IssueInv, NEW q \in MintQuotes, NEW ps \in SUBSET PaymentIds, NEW t,
           ps \subseteq PaymentsOf(q, PaymentIds),
           ps \cap mint_quote_payments = {},
           q \in Bolt11 => \A p, r \in ps : p = r,
           ~Settled(q, mint_quote[q]),
           Credit(q, ps, t),
           UNCHANGED <<storeVars, received, issued, issueCrashes>>,
           events' \subseteq events,
           task' \in [Tasks -> TaskType], Answers', ToldStep
    PROVE  IssueInv'
<1> USE DEF IssueInv
<1>t. /\ mint_quote \in [MintQuotes -> QuoteRow]
      /\ mint_quote_payments \in SUBSET PaymentIds
      /\ SatOf(ps) \in Nat
  BY IssueAssumption, Zenon DEF IssueTypeOK
<1>q. /\ mint_quote' \in [MintQuotes -> QuoteRow]
      /\ mint_quote'[q].amount_paid = mint_quote[q].amount_paid + SatOf(ps)
      /\ mint_quote'[q].amount_issued = mint_quote[q].amount_issued
      /\ \A k \in MintQuotes \ {q} : mint_quote'[k] = mint_quote[k]
  BY <1>t DEF Credit, QuoteRow
<1>p. mint_quote_payments' = mint_quote_payments \cup ps
  BY Zenon DEF Credit
<1>1. IssueTypeOK'
  BY <1>t, <1>q, <1>p, Zenon DEF IssueTypeOK, TaskType, ToldStep, storeVars, Reports
<1>2. PaidRows'
  <2> DEFINE old == PaymentsOf(q, mint_quote_payments)
             new == PaymentsOf(q, mint_quote_payments')
  <2>1. /\ new = old \cup ps /\ old \cap ps = {} /\ old \in SUBSET PaymentIds
        /\ \A k \in MintQuotes \ {q} :
              PaymentsOf(k, mint_quote_payments') = PaymentsOf(k, mint_quote_payments)
    BY <1>t, <1>p, Zenon DEF PaymentsOf
  <2>2. SatOf(new) = SatOf(old) + SatOf(ps)
    BY <2>1, IssueAssumption, Zenon
  <2>3. mint_quote[q].amount_paid = SatOf(old)
    BY Zenon DEF PaidRows
  <2>4. ASSUME q \in Bolt11 PROVE old = {}
    <3>1. mint_quote[q].amount_paid = 0
      BY <2>4, <1>t, Zenon DEF Settled, ComputeQuoteState, QuoteRow
    <3> QED
      BY <1>t, <2>3, <2>4, <3>1, NoSatNoPayment, Zenon
  <2>5. q \in Bolt11 => \A p, r \in new : p = r
    BY <2>1, <2>4, Zenon
  <2> QED
    BY <1>q, <2>1, <2>2, <2>3, <2>5, Zenon DEF PaidRows
<1>3. ToldPaid'
  BY <1>p, Zenon DEF ToldPaid, ToldStep, PaymentsOf
<1>4. NoOverIssue'
  <2> SUFFICES ASSUME NEW k \in MintQuotes
               PROVE  /\ mint_quote'[k].amount_issued <= mint_quote'[k].amount_paid
                      /\ quoteTold'[k] = "Issued" => mint_quote'[k].amount_issued > 0
    BY Zenon DEF NoOverIssue
  <2>1. /\ mint_quote[k].amount_issued <= mint_quote[k].amount_paid
        /\ mint_quote'[k].amount_issued = mint_quote[k].amount_issued
        /\ mint_quote[k].amount_paid \in Nat /\ mint_quote[k].amount_issued \in Nat
        /\ mint_quote'[k].amount_paid \in Nat
        /\ mint_quote'[k].amount_paid >= mint_quote[k].amount_paid
    BY <1>t, <1>q DEF NoOverIssue, QuoteRow
  <2>2. quoteTold'[k] = "Issued" => mint_quote[k].amount_issued > 0
    BY Zenon DEF NoOverIssue, ToldStep, IssuedCounts
  <2> QED
    BY <2>1, <2>2
<1>5. Reports' /\ IssuedCounts'
  BY <1>q, Zenon DEF Reports, IssuedCounts, IssueTypeOK
<1> QED
  BY <1>1, <1>2, <1>3, <1>4, <1>5, Zenon

(***************************************************************************)
(* The actions.                                                            *)
(***************************************************************************)
LEMMA IssueInitInv == IssueInit => IssueInv
<1> SUFFICES ASSUME IssueInit PROVE IssueInv
  BY Zenon
<1> USE DEF IssueInit, StoreInit
<1>1. IssueTypeOK
  BY IdleType, IssueAssumption
     DEF IssueTypeOK, OutputTable, NoOutput, AmountsRow, TaskType, Tasks
<1>2. PaidRows
  <2>1. \A q \in MintQuotes : PaymentsOf(q, {}) = {}
    BY Zenon DEF PaymentsOf
  <2> QED
    BY <2>1, SatOfEmpty, Zenon DEF PaidRows, NoQuote
<1>3. ToldPaid /\ NoOverIssue /\ Reports /\ IssuedCounts
  BY DEF ToldPaid, NoOverIssue, NoQuote, Reports, IssuedCounts
<1>4. Answers
  BY IdleType, Zenon DEF Answers
<1> QED
  BY <1>1, <1>2, <1>3, <1>4, Zenon DEF IssueInv

LEMMA TellType ==
    ASSUME IssueInv, NEW qs \in SUBSET MintQuotes, NEW state \in {"Unpaid", "Paid", "Issued"},
           Tell(qs, state)
    PROVE  /\ quoteTold' \in [MintQuotes -> {"None", "Unpaid", "Paid", "Issued"}]
           /\ \A q \in MintQuotes : quoteTold'[q] = IF q \in qs THEN state ELSE quoteTold[q]
  BY Zenon DEF Tell, IssueInv, IssueTypeOK

(* Nothing is published.                                                   *)
LEMMA ToldSame == ASSUME IssueInv, UNCHANGED quoteTold PROVE ToldStep
  BY Zenon DEF ToldStep, IssueInv, IssueTypeOK

LEMMA GetMintQuoteInv ==
    ASSUME IssueInv, NEW q \in MintQuotes, GetMintQuote(q)
    PROVE  IssueInv'
<1> USE DEF IssueInv, GetMintQuote, storeVars
<1>1. /\ quoteTold' \in [MintQuotes -> {"None", "Unpaid", "Paid", "Issued"}]
      /\ \A k \in MintQuotes : quoteTold'[k] \in {quoteTold[k], "Unpaid"}
  BY TellType
<1>2. /\ mint_quote' \in [MintQuotes -> QuoteRow]
      /\ \A k \in MintQuotes : /\ mint_quote'[k].amount_paid = mint_quote[k].amount_paid
                               /\ mint_quote'[k].amount_issued = mint_quote[k].amount_issued
  <2>1. /\ mint_quote \in [MintQuotes -> QuoteRow]
        /\ mint_quote' = [mint_quote EXCEPT ![q].exists = TRUE]
    BY Zenon DEF IssueTypeOK
  <2>2. ASSUME NEW k \in MintQuotes
        PROVE  /\ mint_quote'[k] \in QuoteRow
               /\ mint_quote'[k].amount_paid = mint_quote[k].amount_paid
               /\ mint_quote'[k].amount_issued = mint_quote[k].amount_issued
    <3> HIDE DEF IssueInv, GetMintQuote, storeVars
    <3>1. mint_quote[k] \in QuoteRow
      BY <2>1, Zenon
    <3>2. mint_quote'[k] = mint_quote[k] \/ mint_quote'[k] = [mint_quote[k] EXCEPT !.exists = TRUE]
      BY <2>1, Zenon
    <3> QED
      BY <3>1, <3>2, Zenon DEF QuoteRow
  <2>3. DOMAIN mint_quote' = MintQuotes /\ mint_quote' = [k \in MintQuotes |-> mint_quote'[k]]
    BY <2>1, Zenon
  <2> QED
    BY <2>2, <2>3, Zenon
<1>3. IssueTypeOK'
  BY <1>1, <1>2, Zenon DEF IssueTypeOK
<1>4. PaidRows' /\ ToldPaid' /\ NoOverIssue'
  BY <1>1, <1>2, Zenon DEF PaidRows, ToldPaid, NoOverIssue
<1>5. Reports' /\ Answers' /\ IssuedCounts'
  BY <1>2 DEF Reports, Answers, At, IssuedCounts, IssueTypeOK
<1> QED
  BY <1>3, <1>4, <1>5, Zenon

LEMMA TaskTable == IssueInv => task \in [Tasks -> TaskType]
  BY Zenon DEF IssueInv, IssueTypeOK, TaskType

(* Answers survive a step that leaves the tasks alone.                     *)
LEMMA AnswersSame ==
    ASSUME Answers, UNCHANGED task, received \subseteq received'
    PROVE  Answers'
  BY Zenon DEF Answers, At, PaymentsOf

LEMMA PaymentInv ==
    ASSUME IssueInv, NEW p \in Payments, PaymentReceived(p) \/ PaymentEvent(p)
    PROVE  IssueInv'
<1>1. /\ UNCHANGED <<storeVars, mint_quote, mint_quote_payments, task, issued, quoteTold, issueCrashes>>
      /\ received \subseteq received' /\ received' \subseteq Payments
  BY Zenon DEF PaymentReceived, PaymentEvent, IssueInv, IssueTypeOK
<1>2. Reports'
  <2>1. CASE PaymentReceived(p)
    <3>1. /\ received' = received \cup {p} /\ events' = events
          /\ \A r \in received : PaysQuote(r) = PaysQuote(p) => PaysQuote(p) \notin Bolt11
      BY <2>1, Zenon DEF PaymentReceived, PaymentsOf
    <3> QED
      BY <3>1, Zenon DEF IssueInv, Reports
  <2>2. CASE PaymentEvent(p)
    BY <2>2, Zenon DEF PaymentEvent, IssueInv, Reports
  <2> QED
    BY <2>1, <2>2, Zenon
<1>3. Answers' /\ ToldStep
  BY <1>1, AnswersSame, ToldSame, Zenon DEF IssueInv
<1> QED
  BY <1>1, <1>2, <1>3, TaskTable, QuietStep, Zenon DEF IssueInv, IssueTypeOK

LEMMA NotificationInv ==
    ASSUME IssueInv, NEW p \in Payments, HandlePaymentNotification(p)
    PROVE  IssueInv'
<1> DEFINE q == PaysQuote(p)
<1>1. /\ p \in events /\ p \in received /\ p \in PaymentIds /\ q \in MintQuotes
      /\ events' \subseteq events /\ events' \subseteq received
      /\ UNCHANGED <<storeVars, received, task, issued, issueCrashes>>
  BY IssueAssumption, Zenon DEF HandlePaymentNotification, PaymentIds, IssueInv, Reports
<1>2. Answers' /\ task' \in [Tasks -> TaskType] /\ Reports'
  BY <1>1, AnswersSame, TaskTable, Zenon DEF IssueInv, Reports
<1>3. p \in PaymentsOf(q, received)
  BY <1>1, Zenon DEF PaymentsOf
<1>4. ASSUME Tell({q}, "Paid") PROVE ToldStep
  BY <1>1, <1>3, <1>4, TellType DEF ToldStep, PaymentsOf
<1>5. CASE UNCHANGED <<mint_quote, mint_quote_payments>> /\ (UNCHANGED quoteTold \/ Tell({q}, "Paid"))
  BY <1>1, <1>2, <1>4, <1>5, ToldSame, QuietStep, Zenon DEF IssueInv, IssueTypeOK
<1>6. CASE /\ p \notin mint_quote_payments /\ ~Settled(q, mint_quote[q])
           /\ Credit(q, {p}, p) /\ Tell({q}, "Paid")
  <2>1. {p} \subseteq PaymentsOf(q, PaymentIds) /\ {p} \cap mint_quote_payments = {}
    BY <1>1, <1>6, Zenon DEF PaymentsOf
  <2> QED
    BY <1>1, <1>2, <1>4, <1>6, <2>1, CreditStep, Zenon DEF PaymentsOf
<1> QED
  BY <1>5, <1>6, Zenon DEF HandlePaymentNotification

LEMMA InternalPaymentInv ==
    ASSUME IssueInv, NEW m \in Melts, InternalPayment(m)
    PROVE  IssueInv'
<1> DEFINE q == PaysQuote(m)
<1>1. /\ m \in PaymentIds /\ q \in MintQuotes
      /\ m \notin mint_quote_payments /\ ~Settled(q, mint_quote[q])
      /\ Credit(q, {m}, m) /\ Tell({q}, "Paid")
      /\ UNCHANGED <<storeVars, received, events, task, issued, issueCrashes>>
  BY IssueAssumption, Zenon DEF InternalPayment, InternalOk, PaymentIds
<1>2. Answers' /\ task' \in [Tasks -> TaskType]
  BY <1>1, AnswersSame, TaskTable, Zenon DEF IssueInv
<1>3. m \in PaymentsOf(q, mint_quote_payments')
  BY <1>1, Zenon DEF Credit, PaymentsOf
<1>4. ToldStep
  BY <1>1, <1>3, TellType DEF ToldStep, PaymentsOf
<1>5. {m} \subseteq PaymentsOf(q, PaymentIds) /\ {m} \cap mint_quote_payments = {}
  BY <1>1, Zenon DEF PaymentsOf
<1> QED
  BY <1>1, <1>2, <1>4, <1>5, CreditStep, Zenon

(***************************************************************************)
(* The tasks that check quotes.                                            *)
(***************************************************************************)
(* Task t goes on with what it holds in rec.                               *)
LEMMA OneTask ==
    ASSUME IssueInv, NEW t \in Tasks, NEW rec \in TaskType,
           task' = [task EXCEPT ![t] = rec], UNCHANGED received,
           t \in Ops /\ rec.pc # "idle" => rec.req \in Requests,
           rec.pc \in {"ask", "load", "credit"} => rec.todo # {},
           rec.pc \in {"load", "credit"} =>
               rec.answer \subseteq PaymentsOf(CHOOSE q \in rec.todo : TRUE, received)
    PROVE  task' \in [Tasks -> TaskType] /\ Answers'
<1>1. /\ task \in [Tasks -> TaskType]
      /\ task' \in [Tasks -> TaskType]
      /\ task'[t] = rec /\ \A u \in Tasks \ {t} : task'[u] = task[u]
  BY TaskTable, Zenon
<1>2. At(t)' = CHOOSE q \in rec.todo : TRUE
  BY <1>1, Zenon DEF At
<1>3. \A u \in Tasks \ {t} : At(u)' = At(u)
  BY <1>1, Zenon DEF At
<1> QED
  BY <1>1, <1>2, <1>3, Zenon DEF Answers, IssueInv

(* A step of a task that publishes nothing.                                *)
LEMMA QuietTask ==
    ASSUME IssueInv, NEW t \in Tasks, NEW rec \in TaskType,
           task' = [task EXCEPT ![t] = rec],
           UNCHANGED <<storeVars, mint_quote, mint_quote_payments, received, events,
                       issued, quoteTold, issueCrashes>>,
           t \in Ops /\ rec.pc # "idle" => rec.req \in Requests,
           rec.pc \in {"ask", "load", "credit"} => rec.todo # {},
           rec.pc \in {"load", "credit"} =>
               rec.answer \subseteq PaymentsOf(CHOOSE q \in rec.todo : TRUE, received)
    PROVE  IssueInv'
<1>1. task' \in [Tasks -> TaskType] /\ Answers'
  BY OneTask, Zenon
<1>2. Reports' /\ ToldStep
  BY ToldSame, Zenon DEF IssueInv, Reports
<1> QED
  BY <1>1, <1>2, QuietStep, Zenon DEF IssueInv, IssueTypeOK

LEMMA StartInv ==
    ASSUME IssueInv, NEW t \in Tasks,
           \/ \E q \in MintQuotes : StartCheck(t, q)
           \/ \E r \in Requests : StartMintRequest(t, r)
           \/ CheckDone(t)
    PROVE  IssueInv'
<1> DEFINE quiet == UNCHANGED <<storeVars, mint_quote, mint_quote_payments, received, events,
                                issued, quoteTold, issueCrashes>>
<1>1. CASE \E q \in MintQuotes : StartCheck(t, q)
  <2>1. PICK q \in MintQuotes : StartCheck(t, q)
    BY <1>1, Zenon
  <2> DEFINE rec == [Idle EXCEPT !.pc = "read", !.todo = {q}]
  <2>2. task' = [task EXCEPT ![t] = rec] /\ quiet /\ t \notin Ops
    BY <2>1, IssueAssumption, Zenon DEF StartCheck
  <2>3. rec \in TaskType /\ rec.pc = "read"
    BY IdleType, Zenon DEF TaskType
  <2> HIDE DEF rec
  <2> QED
    BY <2>2, <2>3, QuietTask, Zenon
<1>2. CASE \E r \in Requests : StartMintRequest(t, r)
  <2>1. PICK r \in Requests : StartMintRequest(t, r)
    BY <1>2, Zenon
  <2> DEFINE rec == [Idle EXCEPT !.pc = "read", !.req = r, !.todo = r.quotes]
  <2>2. task' = [task EXCEPT ![t] = rec] /\ quiet
    BY <2>1, Zenon DEF StartMintRequest
  <2>3. r.quotes \subseteq MintQuotes
    BY IssueAssumption, Zenon
  <2>4. rec \in TaskType /\ rec.pc = "read" /\ rec.req = r
    BY <2>3, IdleType, Zenon DEF TaskType
  <2> HIDE DEF rec
  <2> QED
    BY <2>2, <2>4, QuietTask, Zenon
<1>3. CASE CheckDone(t)
  <2>1. task' = [task EXCEPT ![t] = Idle] /\ quiet
    BY <1>3, Zenon DEF CheckDone
  <2> QED
    BY <2>1, IdleType, QuietTask, Zenon
<1> QED
  BY <1>1, <1>2, <1>3, Zenon

LEMMA AtType ==
    ASSUME IssueInv, NEW t \in Tasks, task[t].todo # {}
    PROVE  At(t) \in task[t].todo /\ At(t) \in MintQuotes
<1>1. At(t) \in task[t].todo
  BY Zenon DEF At
<1> QED
  BY <1>1, TaskTable, Zenon DEF TaskType

LEMMA ReadQuoteInv == ASSUME IssueInv, NEW t \in Tasks, ReadQuote(t) PROVE IssueInv'
<1> DEFINE q == At(t)
           row == mint_quote[q]
           read == [task[t] EXCEPT !.seen[q] = row]
           skip == [read EXCEPT !.todo = @ \ {q}]
           ask == [read EXCEPT !.pc = "ask"]
<1>1. /\ task[t].pc = "read" /\ q \in task[t].todo /\ q \in MintQuotes
      /\ task[t] \in TaskType /\ row \in QuoteRow
      /\ t \in Ops => task[t].req \in Requests
  BY AtType, TaskTable, Zenon DEF ReadQuote, IssueInv, IssueTypeOK, Answers
<1>2. \/ task' = [task EXCEPT ![t] = Idle]
      \/ task' = [task EXCEPT ![t] = skip]
      \/ task' = [task EXCEPT ![t] = ask]
  <2>1. CASE ~row.exists
    BY <2>1, Zenon DEF ReadQuote
  <2>2. CASE row.exists /\ Settled(q, row)
    BY <2>2, Zenon DEF ReadQuote
  <2>3. CASE row.exists /\ ~Settled(q, row)
    BY <2>3, Zenon DEF ReadQuote
  <2> QED
    BY <2>1, <2>2, <2>3, Zenon
<1>3. UNCHANGED <<storeVars, mint_quote, mint_quote_payments, received, events,
                  issued, quoteTold, issueCrashes>>
  BY Zenon DEF ReadQuote
<1>4. skip \in TaskType /\ skip.pc = "read" /\ skip.req = task[t].req
  BY <1>1, Zenon DEF TaskType
<1>5. ask \in TaskType /\ ask.pc = "ask" /\ ask.todo # {} /\ ask.req = task[t].req
  BY <1>1, Zenon DEF TaskType
<1> HIDE DEF skip, ask
<1> QED
  BY <1>1, <1>2, <1>3, <1>4, <1>5, IdleType, QuietTask, Zenon

LEMMA AskBackendInv == ASSUME IssueInv, NEW t \in Tasks, AskBackend(t) PROVE IssueInv'
<1> DEFINE q == At(t)
           answer == PaymentsOf(q, received)
           none == [task[t] EXCEPT !.pc = "read", !.todo = @ \ {q}]
           some == [task[t] EXCEPT !.pc = "load", !.answer = answer]
<1>1. /\ task[t].pc = "ask" /\ task[t].todo # {} /\ task[t] \in TaskType
      /\ answer \subseteq Payments
      /\ t \in Ops => task[t].req \in Requests
  BY TaskTable, Zenon DEF AskBackend, IssueInv, Answers, PaymentsOf, IssueTypeOK
<1>2. \/ task' = [task EXCEPT ![t] = none]
      \/ task' = [task EXCEPT ![t] = some]
  <2>1. CASE answer = {}
    BY <2>1, Zenon DEF AskBackend
  <2>2. CASE answer # {}
    BY <2>2, Zenon DEF AskBackend
  <2> QED
    BY <2>1, <2>2, Zenon
<1>3. UNCHANGED <<storeVars, mint_quote, mint_quote_payments, received, events,
                  issued, quoteTold, issueCrashes>>
  BY Zenon DEF AskBackend
<1>4. none \in TaskType /\ none.pc = "read" /\ none.req = task[t].req
  BY <1>1, Zenon DEF TaskType
<1>5. /\ some \in TaskType /\ some.pc = "load" /\ some.todo = task[t].todo
      /\ some.answer = answer /\ some.req = task[t].req
  BY <1>1, Zenon DEF TaskType
<1>6. some.answer \subseteq PaymentsOf(CHOOSE k \in some.todo : TRUE, received)
  BY <1>5, Zenon DEF At
<1> HIDE DEF none, some
<1>7. CASE task' = [task EXCEPT ![t] = none]
  BY <1>1, <1>3, <1>4, <1>7, QuietTask, Zenon
<1>8. CASE task' = [task EXCEPT ![t] = some]
  BY <1>1, <1>3, <1>5, <1>6, <1>8, QuietTask, Zenon
<1> QED
  BY <1>2, <1>7, <1>8, Zenon

LEMMA LoadPaymentsInv == ASSUME IssueInv, NEW t \in Tasks, LoadPayments(t) PROVE IssueInv'
<1> DEFINE rec == [task[t] EXCEPT !.pc = "credit", !.answer = @ \ mint_quote_payments]
<1>1. /\ task[t].pc = "load" /\ task[t].todo # {} /\ task[t] \in TaskType
      /\ task[t].answer \subseteq PaymentsOf(At(t), received)
      /\ t \in Ops => task[t].req \in Requests
  BY TaskTable, Zenon DEF LoadPayments, IssueInv, Answers
<1>2. task' = [task EXCEPT ![t] = rec]
  BY TaskTable, Zenon DEF LoadPayments, TaskType
<1>3. UNCHANGED <<storeVars, mint_quote, mint_quote_payments, received, events,
                  issued, quoteTold, issueCrashes>>
  BY Zenon DEF LoadPayments
<1>4. /\ rec \in TaskType /\ rec.pc = "credit" /\ rec.todo = task[t].todo
      /\ rec.answer \subseteq task[t].answer /\ rec.req = task[t].req
  BY <1>1, Zenon DEF TaskType
<1>5. At(t) = CHOOSE k \in task[t].todo : TRUE
  BY Zenon DEF At
<1> HIDE DEF rec
<1> QED
  BY <1>1, <1>2, <1>3, <1>4, <1>5, QuietTask, Zenon

LEMMA CreditPaymentsInv == ASSUME IssueInv, NEW t \in Tasks, CreditPayments(t) PROVE IssueInv'
<1> DEFINE q == At(t)
           ps == task[t].answer
           next == [task[t] EXCEPT !.pc = "read", !.todo = @ \ {q}, !.answer = {}]
           seen == [next EXCEPT !.seen[q] = mint_quote'[q]]
<1>1. /\ task[t].pc = "credit" /\ task[t] \in TaskType /\ q \in MintQuotes
      /\ ps \subseteq PaymentsOf(q, received) /\ ps \subseteq Payments
      /\ UNCHANGED <<storeVars, received, events, issued, issueCrashes>>
      /\ t \in Ops => task[t].req \in Requests
  BY AtType, TaskTable, Zenon DEF CreditPayments, IssueInv, Answers, TaskType
<1>2. next \in TaskType /\ next.pc = "read" /\ next.req = task[t].req
  BY <1>1, Zenon DEF TaskType
<1>3. ps # {} => PaymentsOf(q, received) # {}
  BY <1>1, Zenon
<1>4. ASSUME NEW qs \in SUBSET MintQuotes, qs \subseteq {q}, qs # {} => ps # {},
             Tell(qs, "Paid"), mint_quote_payments \subseteq mint_quote_payments'
      PROVE  ToldStep
  <2>1. \A k \in qs : PaymentsOf(k, received \cup mint_quote_payments') # {}
    BY <1>3, <1>4, Zenon DEF PaymentsOf
  <2> QED
    BY <1>4, <2>1, TellType, Zenon DEF ToldStep
<1>5. CASE /\ task' = [task EXCEPT ![t] = next]
           /\ UNCHANGED <<mint_quote, mint_quote_payments, quoteTold>>
  BY <1>1, <1>2, <1>5, QuietTask, Zenon
<1>6. CASE /\ ~Settled(q, mint_quote[q])
           /\ InsertPaymentsOk(ps)
           /\ Credit(q, ps, t)
           /\ task' = [task EXCEPT ![t] = seen]
           /\ Tell(IF ps = {} \/ t \in Subscriptions THEN {} ELSE {q}, "Paid")
  <2>1. /\ ps \in SUBSET PaymentIds /\ ps \subseteq PaymentsOf(q, PaymentIds)
        /\ ps \cap mint_quote_payments = {}
    BY <1>1, <1>6, Zenon DEF PaymentIds, PaymentsOf, InsertPaymentsOk
  <2>2. q \in Bolt11 => \A p, r \in ps : p = r
    BY <1>1, Zenon DEF IssueInv, Reports, PaymentsOf
  <2>3. mint_quote'[q] \in QuoteRow
    <3>1. SatOf(ps) \in Nat /\ mint_quote \in [MintQuotes -> QuoteRow]
      BY <2>1, IssueAssumption, Zenon DEF IssueInv, IssueTypeOK
    <3> QED
      BY <1>1, <1>6, <3>1 DEF Credit, QuoteRow
  <2>4. seen \in TaskType /\ seen.pc = "read" /\ seen.req = task[t].req
    BY <1>2, <2>3, <1>1, Zenon DEF TaskType
  <2> HIDE DEF seen
  <2>5. task' \in [Tasks -> TaskType] /\ Answers'
    BY <1>1, <1>6, <2>4, OneTask, Zenon
  <2>6. ToldStep
    BY <1>1, <1>4, <1>6, Zenon DEF Credit
  <2> QED
    BY <1>1, <1>6, <2>1, <2>2, <2>5, <2>6, CreditStep, Zenon
<1>7. CASE /\ task' = [task EXCEPT ![t] = Idle]
           /\ UNCHANGED <<mint_quote, mint_quote_payments>>
           /\ \E qs \in {{}, {q}} :
                 /\ qs = {q} => t \notin Subscriptions /\ ~(ps \subseteq mint_quote_payments)
                 /\ Tell(qs, "Paid")
  <2>1. PICK qs \in {{}, {q}} : /\ qs = {q} => ~(ps \subseteq mint_quote_payments)
                                /\ Tell(qs, "Paid")
    BY <1>7, Zenon
  <2>2. ToldStep
    BY <1>1, <1>4, <1>7, <2>1, Zenon
  <2>3. task' \in [Tasks -> TaskType] /\ Answers'
    BY <1>1, <1>7, IdleType, OneTask, Zenon
  <2> QED
    BY <1>1, <1>7, <2>2, <2>3, QuietStep, Zenon DEF IssueInv, IssueTypeOK, Reports
<1> QED
  BY <1>5, <1>6, <1>7, Zenon DEF CreditPayments

LEMMA TaskFailsInv == ASSUME IssueInv, NEW t \in Tasks, TaskFails(t) PROVE IssueInv'
<1>1. /\ task' = [task EXCEPT ![t] = Idle]
      /\ UNCHANGED <<storeVars, mint_quote, mint_quote_payments, received, events, issued, issueCrashes>>
  BY Zenon DEF TaskFails
<1>2. task' \in [Tasks -> TaskType] /\ Answers'
  BY <1>1, IdleType, OneTask, Zenon
<1>3. CASE UNCHANGED quoteTold
  BY <1>1, <1>3, IdleType, QuietTask, Zenon
<1>4. CASE /\ task[t].pc = "credit" /\ ~(task[t].answer \subseteq mint_quote_payments)
           /\ Tell({At(t)}, "Paid")
  <2>1. /\ At(t) \in MintQuotes
        /\ task[t].answer \subseteq PaymentsOf(At(t), received) /\ task[t].answer # {}
    BY <1>4, AtType, Zenon DEF IssueInv, Answers
  <2>2. PaymentsOf(At(t), received \cup mint_quote_payments') # {}
    BY <2>1, Zenon DEF PaymentsOf
  <2>3. /\ quoteTold' \in [MintQuotes -> {"None", "Unpaid", "Paid", "Issued"}]
        /\ \A q \in MintQuotes : quoteTold'[q] = IF q = At(t) THEN "Paid" ELSE quoteTold[q]
    BY <1>4, <2>1, TellType
  <2>4. ToldStep
    BY <2>2, <2>3, Zenon DEF ToldStep
  <2> QED
    BY <1>1, <1>2, <2>4, QuietStep, Zenon DEF IssueInv, IssueTypeOK, Reports
<1> QED
  BY <1>3, <1>4, Zenon DEF TaskFails

(***************************************************************************)
(* Mint requests, publications and crashes.                                *)
(***************************************************************************)
(* What a request is issued for is positive, and paid for in the row that  *)
(* the transaction has locked.                                             *)
LEMMA IssueOkFacts ==
    ASSUME IssueInv, NEW o \in Tasks, IssueOk(o), task[o].req \in Requests,
           NEW q \in task[o].req.quotes
    PROVE  LET sat == AmountIssued(task[o].req, q, task[o].seen[q])
           IN  /\ sat \in Nat /\ sat > 0
               /\ mint_quote[q].amount_issued + sat <= mint_quote[q].amount_paid
<1> DEFINE r == task[o].req
           row == task[o].seen[q]
           sat == AmountIssued(r, q, row)
<1>1. /\ QuoteAccepted(r, q, row)
      /\ AddIssuanceOk(mint_quote[q], sat)
  BY Zenon DEF IssueOk, MintRequestAccepted
<1>2. q \in MintQuotes /\ row \in QuoteRow
  BY IssueAssumption, TaskTable DEF TaskType
<1>3. AmountMintable(row) \in Nat
  BY <1>2, MintableType, Zenon
<1>4. ExpectedAmount(r, q, row) \in Nat /\ ExpectedAmount(r, q, row) > 0
  BY <1>1, <1>3 DEF QuoteAccepted
<1>5. OutputsAmount(r) \in Nat /\ OutputsAmount(r) > 0
  BY IssueAssumption
<1>6. sat \in Nat /\ sat > 0
  BY <1>4, <1>5, Zenon DEF AmountIssued
<1> QED
  BY <1>1, <1>6, Zenon DEF AddIssuanceOk

LEMMA ProcessMintRequestInv ==
    ASSUME IssueInv, NEW o \in Ops, ProcessMintRequest(o)
    PROVE  IssueInv'
<1> DEFINE r == task[o].req
           bs == DOMAIN task[o].req.outs
<1>1. /\ o \in Tasks /\ task' = [task EXCEPT ![o] = Idle]
      /\ UNCHANGED <<mint_quote_payments, received, events, quoteTold, issueCrashes>>
      /\ task[o].pc = "read"
  BY Zenon DEF ProcessMintRequest, Tasks
<1>2. task' \in [Tasks -> TaskType] /\ Answers'
  BY <1>1, IdleType, OneTask, Zenon
<1>3. Reports' /\ ToldStep
  BY <1>1, ToldSame, Zenon DEF IssueInv, Reports
<1>4. CASE ~IssueOk(o)
  <2>1. UNCHANGED <<storeVars, mint_quote, issued>>
    BY <1>4, Zenon DEF ProcessMintRequest, Published, storeVars
  <2> QED
    BY <1>1, <1>2, <1>3, <2>1, QuietStep, Zenon DEF IssueInv, IssueTypeOK
<1>5. CASE IssueOk(o)
  <2>1. /\ blind_signature' =
               AddBlindSignatures(AddBlindedMessages(blind_signature, bs, o), r.outs)
        /\ keyset_amounts' = AddAmounts(keyset_amounts, OutputsAmount(r), 0, 0)
        /\ completed_operations' = completed_operations \cup {o}
        /\ mint_quote' = AddIssuance(r, task[o].seen)
        /\ issued' = issued \cup r.quotes
    BY <1>5, Zenon DEF ProcessMintRequest, Published
  <2>2. /\ r \in Requests /\ r.quotes \subseteq MintQuotes
        /\ bs \subseteq Outs /\ \A b \in bs : r.outs[b] \in Nat
        /\ OutputsAmount(r) \in Nat
    BY <1>1, IssueAssumption, Zenon DEF IssueInv, Answers
  <2>3. /\ mint_quote \in [MintQuotes -> QuoteRow]
        /\ blind_signature \in OutputTable /\ keyset_amounts \in AmountsRow
    BY Zenon DEF IssueInv, IssueTypeOK
  <2>4. ASSUME NEW q \in r.quotes
        PROVE  /\ mint_quote'[q] \in QuoteRow
               /\ mint_quote'[q].amount_paid = mint_quote[q].amount_paid
               /\ mint_quote'[q].amount_issued > 0
               /\ mint_quote'[q].amount_issued <= mint_quote'[q].amount_paid
    <3> DEFINE sat == AmountIssued(r, q, task[o].seen[q])
    <3>1. /\ sat \in Nat /\ sat > 0
          /\ mint_quote[q].amount_issued + sat <= mint_quote[q].amount_paid
      BY <1>1, <1>5, <2>2, IssueOkFacts, Zenon
    <3>2. mint_quote'[q] = [mint_quote[q] EXCEPT !.amount_issued = @ + sat]
      BY <2>1, <2>2, Zenon DEF AddIssuance
    <3> HIDE DEF sat
    <3> QED
      BY <2>2, <2>3, <3>1, <3>2 DEF QuoteRow
  <2>5. \A q \in MintQuotes \ r.quotes : mint_quote'[q] = mint_quote[q]
    BY <2>1, Zenon DEF AddIssuance
  <2>6. mint_quote' \in [MintQuotes -> QuoteRow]
    <3>1. mint_quote' = [q \in MintQuotes |-> mint_quote'[q]]
      BY <2>1, Zenon DEF AddIssuance
    <3> QED
      BY <2>3, <2>4, <2>5, <3>1, Zenon
  <2>7. blind_signature' \in OutputTable
    <3> DEFINE mid == AddBlindedMessages(blind_signature, bs, o)
    <3>1. mid \in OutputTable
      BY <2>3, Zenon DEF AddBlindedMessages, OutputTable
    <3> HIDE DEF mid
    <3>2. blind_signature' = AddBlindSignatures(mid, r.outs)
      BY <2>1, Zenon DEF mid
    <3> QED
      BY <2>2, <3>1, <3>2, Zenon DEF AddBlindSignatures, OutputTable
  <2>8. keyset_amounts' \in AmountsRow
    BY <2>1, <2>2, <2>3, AmountsAdded, Zenon
  <2>9. IssueTypeOK'
    BY <1>1, <1>2, <2>1, <2>2, <2>6, <2>7, <2>8, Zenon DEF IssueInv, IssueTypeOK, TaskType
  <2>10. PaidRows' /\ ToldPaid'
    BY <1>1, <2>4, <2>5, Zenon DEF IssueInv, PaidRows, ToldPaid, PaymentsOf
  <2>11. NoOverIssue' /\ IssuedCounts'
    BY <1>1, <2>1, <2>2, <2>4, <2>5, Zenon DEF IssueInv, IssueTypeOK, NoOverIssue, IssuedCounts
  <2> QED
    BY <1>2, <1>3, <2>9, <2>10, <2>11, Zenon DEF IssueInv
<1> QED
  BY <1>4, <1>5, Zenon

LEMMA PublishIssuedInv ==
    ASSUME IssueInv, NEW q \in MintQuotes, PublishIssued(q)
    PROVE  IssueInv'
<1>1. /\ q \in issued /\ issued' \subseteq issued /\ Tell({q}, "Issued")
      /\ UNCHANGED <<storeVars, mint_quote, mint_quote_payments, received, events, task, issueCrashes>>
  BY Zenon DEF PublishIssued
<1>2. Answers' /\ task' \in [Tasks -> TaskType] /\ Reports'
  BY <1>1, AnswersSame, TaskTable, Zenon DEF IssueInv, Reports
<1>3. ToldStep
  BY <1>1, TellType DEF ToldStep
<1> QED
  BY <1>1, <1>2, <1>3, QuietStep, Zenon DEF IssueInv, IssueTypeOK

LEMMA IssueCrashInv == ASSUME IssueInv, IssueCrash PROVE IssueInv'
<1>1. /\ task' = [t \in Tasks |-> Idle] /\ events' = {} /\ issued' = {}
      /\ UNCHANGED <<storeVars, mint_quote, mint_quote_payments, received, quoteTold>>
      /\ issueCrashes' = issueCrashes + 1 /\ issueCrashes < IssueCrashes
  BY Zenon DEF IssueCrash
<1>2. Answers' /\ task' \in [Tasks -> TaskType] /\ Reports'
  BY <1>1, IdleType, Zenon DEF Answers, IssueInv, Reports
<1>3. issueCrashes' \in 0..IssueCrashes
  BY <1>1, CrashCounted, Zenon DEF IssueInv, IssueTypeOK
<1> QED
  BY <1>1, <1>2, <1>3, ToldSame, QuietStep, Zenon DEF IssueInv, IssueTypeOK

(***************************************************************************)
(* The theorems.                                                           *)
(***************************************************************************)
LEMMA IssueNextInv == IssueInv /\ [IssueNext]_issueVars => IssueInv'
<1> SUFFICES ASSUME IssueInv, [IssueNext]_issueVars PROVE IssueInv'
  BY Zenon
<1>1. CASE \E q \in MintQuotes : GetMintQuote(q) \/ PublishIssued(q)
  BY <1>1, GetMintQuoteInv, PublishIssuedInv, Zenon
<1>2. CASE \E c \in Checkers \cup Subscriptions, q \in MintQuotes : Check(c, q)
  BY <1>2, StartInv, Zenon DEF Check, Tasks
<1>3. CASE \E p \in Payments :
             PaymentReceived(p) \/ PaymentEvent(p) \/ HandlePaymentNotification(p)
  BY <1>3, PaymentInv, NotificationInv, Zenon
<1>4. CASE \E m \in Melts : InternalPayment(m)
  BY <1>4, InternalPaymentInv, Zenon
<1>5. CASE \E o \in Ops : ProcessMintRequest(o) \/ \E r \in Requests : StartMintRequest(o, r)
  BY <1>5, ProcessMintRequestInv, StartInv, Zenon DEF Tasks
<1>6. CASE \E t \in Tasks : \/ ReadQuote(t) \/ AskBackend(t) \/ LoadPayments(t)
                            \/ CreditPayments(t) \/ TaskFails(t)
  BY <1>6, ReadQuoteInv, AskBackendInv, LoadPaymentsInv, CreditPaymentsInv, TaskFailsInv, Zenon
<1>7. CASE IssueCrash
  BY <1>7, IssueCrashInv, Zenon
<1>8. CASE UNCHANGED issueVars
  <2>1. Answers' /\ Reports' /\ ToldStep
    BY <1>8, AnswersSame, ToldSame, Zenon DEF issueVars, IssueInv, Reports
  <2> QED
    BY <1>8, <2>1, TaskTable, QuietStep, Zenon DEF issueVars, IssueInv, IssueTypeOK
<1> QED
  BY <1>1, <1>2, <1>3, <1>4, <1>5, <1>6, <1>7, <1>8, Zenon DEF IssueNext

(* What a step does to the amounts of the quotes.                          *)
Grows ==
    \A q \in MintQuotes : /\ mint_quote'[q].amount_paid >= mint_quote[q].amount_paid
                          /\ mint_quote'[q].amount_issued >= mint_quote[q].amount_issued

LEMMA RowType ==
    ASSUME IssueInv, NEW q \in MintQuotes
    PROVE  mint_quote[q].amount_paid \in Nat /\ mint_quote[q].amount_issued \in Nat
  BY Zenon DEF IssueInv, IssueTypeOK, QuoteRow

LEMMA CreditGrows ==
    ASSUME IssueInv, NEW q \in MintQuotes, NEW ps \in SUBSET PaymentIds, NEW t, Credit(q, ps, t)
    PROVE  Grows
<1>1. mint_quote \in [MintQuotes -> QuoteRow] /\ SatOf(ps) \in Nat
  BY IssueAssumption, Zenon DEF IssueInv, IssueTypeOK
<1>2. \A k \in MintQuotes :
        /\ mint_quote'[k].amount_paid = mint_quote[k].amount_paid + (IF k = q THEN SatOf(ps) ELSE 0)
        /\ mint_quote'[k].amount_issued = mint_quote[k].amount_issued
  BY <1>1 DEF Credit, QuoteRow
<1> QED
  BY <1>1, <1>2, RowType DEF Grows

LEMMA NextGrows == ASSUME IssueInv, [IssueNext]_issueVars PROVE Grows
<1>1. CASE UNCHANGED mint_quote
  <2>1. mint_quote \in [MintQuotes -> QuoteRow]
    BY Zenon DEF IssueInv, IssueTypeOK
  <2> QED
    BY <1>1, <2>1 DEF Grows, QuoteRow
<1>2. CASE \E q \in MintQuotes : GetMintQuote(q)
  <2>1. \A k \in MintQuotes : /\ mint_quote'[k].amount_paid = mint_quote[k].amount_paid
                              /\ mint_quote'[k].amount_issued = mint_quote[k].amount_issued
    BY <1>2 DEF GetMintQuote, IssueInv, IssueTypeOK, QuoteRow
  <2> QED
    BY <2>1, RowType DEF Grows
<1>3. CASE \E p \in Payments : HandlePaymentNotification(p)
  <2>1. PICK p \in Payments : HandlePaymentNotification(p)
    BY <1>3, Zenon
  <2>2. UNCHANGED mint_quote \/ Credit(PaysQuote(p), {p}, p)
    BY <2>1, Zenon DEF HandlePaymentNotification
  <2>3. {p} \in SUBSET PaymentIds /\ PaysQuote(p) \in MintQuotes
    BY IssueAssumption, Zenon DEF PaymentIds
  <2> QED
    BY <1>1, <2>2, <2>3, CreditGrows, Zenon
<1>4. CASE \E m \in Melts : InternalPayment(m)
  <2>1. PICK m \in Melts : InternalPayment(m)
    BY <1>4, Zenon
  <2>2. {m} \in SUBSET PaymentIds /\ PaysQuote(m) \in MintQuotes
    BY IssueAssumption, Zenon DEF PaymentIds
  <2> QED
    BY <2>1, <2>2, CreditGrows, Zenon DEF InternalPayment
<1>5. CASE \E t \in Tasks : CreditPayments(t)
  <2>1. PICK t \in Tasks : CreditPayments(t)
    BY <1>5, Zenon
  <2>2. UNCHANGED mint_quote \/ Credit(At(t), task[t].answer, t)
    BY <2>1, Zenon DEF CreditPayments
  <2>3. task[t].answer \in SUBSET PaymentIds /\ At(t) \in MintQuotes
    BY <2>1, AtType, TaskTable, Zenon DEF PaymentIds, TaskType, CreditPayments, IssueInv, Answers
  <2> QED
    BY <1>1, <2>2, <2>3, CreditGrows, Zenon
<1>6. CASE \E o \in Ops : ProcessMintRequest(o)
  <2>1. PICK o \in Ops : ProcessMintRequest(o)
    BY <1>6, Zenon
  <2>2. CASE ~IssueOk(o)
    BY <1>1, <2>1, <2>2, Zenon DEF ProcessMintRequest
  <2>3. CASE IssueOk(o)
    <3> DEFINE r == task[o].req
               sat(q) == AmountIssued(r, q, task[o].seen[q])
    <3>1. o \in Tasks /\ r \in Requests /\ mint_quote' = AddIssuance(r, task[o].seen)
      BY <2>1, <2>3, Zenon DEF ProcessMintRequest, Tasks, IssueInv, Answers
    <3>2. \A q \in r.quotes : sat(q) \in Nat
      BY <2>3, <3>1, IssueOkFacts, Zenon
    <3>3. \A q \in MintQuotes :
            mint_quote'[q] = IF q \in r.quotes
                             THEN [mint_quote[q] EXCEPT !.amount_issued = @ + sat(q)] ELSE mint_quote[q]
      BY <3>1, Zenon DEF AddIssuance
    <3> HIDE DEF sat
    <3>4. mint_quote \in [MintQuotes -> QuoteRow]
      BY Zenon DEF IssueInv, IssueTypeOK
    <3>5. ASSUME NEW q \in MintQuotes
          PROVE  /\ mint_quote'[q].amount_paid >= mint_quote[q].amount_paid
                 /\ mint_quote'[q].amount_issued >= mint_quote[q].amount_issued
      <4>1. mint_quote[q] \in QuoteRow
        BY <3>4, Zenon
      <4>2. CASE q \in r.quotes
        <5>1. mint_quote'[q] = [mint_quote[q] EXCEPT !.amount_issued = @ + sat(q)] /\ sat(q) \in Nat
          BY <3>2, <3>3, <4>2, Zenon
        <5> QED
          BY <4>1, <5>1 DEF QuoteRow
      <4>3. CASE q \notin r.quotes
        <5>1. mint_quote'[q] = mint_quote[q]
          BY <3>3, <4>3, Zenon
        <5> QED
          BY <4>1, <5>1 DEF QuoteRow
      <4> QED
        BY <4>2, <4>3, Zenon
    <3> QED
      BY <3>5, Zenon DEF Grows
  <2> QED
    BY <2>2, <2>3, Zenon
<1> QED
  BY <1>1, <1>2, <1>3, <1>4, <1>5, <1>6, Zenon
     DEF IssueNext, issueVars, PublishIssued, Check, StartCheck, CheckDone, PaymentReceived,
         PaymentEvent, StartMintRequest, ReadQuote, AskBackend, LoadPayments, TaskFails, IssueCrash

(* Every reachable state of the mint quotes satisfies the inductive        *)
(* invariant.                                                              *)
THEOREM IssueInvariant == IssueSpec => []IssueInv
  BY IssueInitInv, IssueNextInv, PTL DEF IssueSpec

(* A payment is credited once, however the event stream, the checks of the *)
(* quote and a melt at the same mint race (update_mint_quote,              *)
(* handle_mint_quote_payment, check_mint_quote_payments).                  *)
THEOREM IssuePaidOnce == IssueSpec => []PaidOnce
  BY IssueInvariant, IssueInvPaidOnce, PTL

(* No quote is issued for more than was paid (process_mint_request).       *)
THEOREM IssueNoOverIssue == IssueSpec => []NoOverIssue
<1>1. IssueInv => NoOverIssue
  BY Zenon DEF IssueInv
<1> QED
  BY <1>1, IssueInvariant, PTL

(* No transaction of a check or of a mint request overwrites what another  *)
(* one has added to the quote (update_mint_quote).                         *)
THEOREM IssueNeverLost == IssueSpec => IssueIsNeverLost
<1>1. IssueInv /\ [IssueNext]_issueVars =>
        [\A q \in MintQuotes :
           /\ mint_quote'[q].amount_paid >= mint_quote[q].amount_paid
           /\ mint_quote'[q].amount_issued >= mint_quote[q].amount_issued]_issueVars
  BY NextGrows, Zenon DEF Grows
<1> QED
  BY <1>1, IssueInvariant, PTL DEF IssueSpec, IssueIsNeverLost
=============================================================================
