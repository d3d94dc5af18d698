--------------------------- MODULE MintMeltStore ----------------------------
(***************************************************************************)
(* The state of the melt saga (the tables of melt quotes, the payment      *)
(* backend's records, the requests and workers under way), the statements  *)
(* on its tables, and the functions of melt/shared.rs that a request, a    *)
(* poll and the recovery at start all end in.                              *)
(***************************************************************************)
EXTENDS MintStore

CONSTANTS
    MeltOps,         \* the operation ids of melts
    Quotes,          \* melt quotes
    QuoteAmount,     \* the amount each quote pays
    FeeReserve,      \* the fee reserve of each quote
    LookupId,        \* request_lookup_id: bolt11 quotes of one invoice share it
    InternalIds,     \* lookup ids of invoices this mint issued for a mint quote
    PayFees,         \* the routing fees a payment can cost
    Denominations,   \* the amounts of the keyset, powers of two
    Pollers,         \* concurrent check_melt_quote calls
    Retries,         \* is a quote melted again after its payment failed?
    CheckErrors,     \* can check_outgoing_payment fail?
    MsatChecks,      \* does it report total_spent in msat, not the quote's unit?
    LnLag,           \* can it miss a payment that make_payment called Pending?
    MeltDbErrors,    \* can a commit or a compensation fail?
    Rotates,         \* is the active keyset rotated, once?
    MeltMaxCrashes

LookupIds == {LookupId[q] : q \in Quotes}
Workers == Pollers \cup {"recovery"}

ASSUME MeltAssumption ==
    /\ MeltOps \subseteq Ops
    /\ {QuoteAmount, FeeReserve} \subseteq [Quotes -> Nat]
    /\ Quotes \cap {NoOp, "invoice"} = {}
    /\ Quotes \subseteq DOMAIN LookupId
    /\ InternalIds \subseteq LookupIds
    /\ PayFees \subseteq Nat /\ PayFees # {}
    /\ Denominations \subseteq Nat \ {0}
    /\ "recovery" \notin Pollers
    /\ {Retries, CheckErrors, MsatChecks, LnLag, MeltDbErrors, Rotates} \subseteq BOOLEAN
    /\ MeltMaxCrashes \in Nat

VARIABLES
    melt_quote,     \* table melt_quote: the state of each quote
    melt_request,   \* table melt_request: the operation that inserted the row
    mint_payments,  \* for every internal id, who paid its mint quote
    ln,             \* the backend's record of each outgoing payment
    meltPc,         \* where each melt request is
    meltReq,        \* its quote, inputs and change outputs
    meltMem,        \* total_spent, change_outputs and the melt_request row,
                    \* once they are known
    work,           \* where each worker is
    meltTodo,       \* the sagas the running recovery has still to look at
    meltCrashes,
    rotation,       \* how far rotate_keyset is: the signatory has a new active
                    \* keyset, then the mint's own list has it as well
    retired         \* the melts whose change outputs are of the old keyset

backVars == <<melt_quote, melt_request, mint_payments, ln>>
runVars == <<meltCrashes, rotation, retired>>
procVars == <<meltPc, meltReq, meltMem, work, meltTodo, runVars>>
meltVars == <<storeVars, mint, told, backVars, procVars>>

NoLn == [state |-> "none", by |-> NoOp, fee |-> 0]
NoMelt == [quote |-> NoOp, ys |-> {}, bs |-> {}]
NoMem == [spent |-> 0, bs |-> {}, req |-> NoOp]
Idle == [pc |-> "idle", quote |-> NoOp, op |-> NoOp, ys |-> {}, bs |-> {},
         spent |-> 0, foreign |-> FALSE, req |-> NoOp]

LiveMeltPcs == {"setup", "external", "attempted", "paying", "verify", "verifyPending",
                "confirmed", "change", "compensating"}

(* Every table, the backend and every program variable has its type.       *)
MeltTypeOK ==
    /\ proof \in ProofTable
    /\ blind_signature \in OutputTable
    /\ saga_state \in [Ops -> {"None", "SetupComplete", "PaymentAttempted", "Finalizing"}]
    /\ keyset_amounts \in AmountsRow
    /\ completed_operations \subseteq MeltOps
    /\ mint \in {"up", "down", "starting"}
    /\ told \in [Ys -> ProofState]
    /\ melt_quote \in [Quotes -> {"Unpaid", "Pending", "Paid"}]
    /\ melt_request \in [Quotes -> MeltOps \cup {NoOp}]
    /\ mint_payments \in [InternalIds -> SUBSET (Quotes \cup {"invoice"})]
    /\ ln \in [LookupIds -> [state : {"none", "inflight", "paid", "failed"},
                             by : MeltOps \cup {NoOp}, fee : PayFees \cup {0}]]
    /\ meltPc \in [MeltOps -> LiveMeltPcs \cup {"idle", "done", "failed"}]
    /\ meltReq \in [MeltOps -> [quote : Quotes \cup {NoOp}, ys : SUBSET Ys, bs : SUBSET Outs]]
    /\ meltMem \in [MeltOps -> [spent : Nat, bs : SUBSET Outs, req : MeltOps \cup {NoOp}]]
    /\ work \in [Workers ->
          [pc : {"idle", "find", "check", "collect", "rollback", "finalize", "sigs", "sign",
                 "close", "delete"},
           quote : Quotes \cup {NoOp}, op : MeltOps \cup {NoOp}, ys : SUBSET Ys,
           bs : SUBSET Outs, spent : Nat, foreign : BOOLEAN, req : MeltOps \cup {NoOp}]]
    /\ meltTodo \subseteq MeltOps
    /\ meltCrashes \in 0..MeltMaxCrashes
    /\ rotation \in {"none", "signatory", "done"}
    /\ retired \subseteq MeltOps

MeltInit ==
    /\ StoreInit
    /\ melt_quote = [q \in Quotes |-> "Unpaid"]
    /\ melt_request = [q \in Quotes |-> NoOp]
    /\ mint_payments = [l \in InternalIds |-> {}]
    /\ ln = [l \in LookupIds |-> NoLn]
    /\ meltPc = [o \in MeltOps |-> "idle"]
    /\ meltReq = [o \in MeltOps |-> NoMelt]
    /\ meltMem = [o \in MeltOps |-> NoMem]
    /\ work = [w \in Workers |-> Idle]
    /\ meltTodo = {}
    /\ meltCrashes = 0
    /\ rotation = "none"
    /\ retired = {}

(***************************************************************************)
(* Statements on the tables of melts.                                      *)
(***************************************************************************)
CheckMeltQuoteStateTransition(s, new) ==
    \/ s = "Unpaid" /\ new \in {"Pending", "Failed"}
    \/ s = "Pending" /\ new \in {"Unpaid", "Paid", "Failed"}
    \/ s = "Failed" /\ new \in {"Pending", "Unpaid"}
    \/ s = "Unknown"

(* The quote_id column of proof and blind_signature is written with the    *)
(* operation_id, so the operation tells the quote.                         *)
OfQuote(o, q) == o \in MeltOps /\ meltReq[o].quote = q

ProofYsByQuoteId(q) == {y \in Ys : proof[y].state # "None" /\ OfQuote(proof[y].op, q)}

OutputsByQuoteId(t, q, state) == {b \in Outs : t[b].state = state /\ OfQuote(t[b].op, q)}

(* delete_melt_request also deletes the quote's unsigned messages.         *)
DeleteMeltRequest(q, t) ==
    /\ melt_request' = [melt_request EXCEPT ![q] = NoOp]
    /\ blind_signature' = DeleteBlindedMessages(t, OutputsByQuoteId(t, q, "Unsigned"))

(* UPDATE saga_state: no error when there is no row.                       *)
UpdateSaga(o, state) ==
    saga_state' = [saga_state EXCEPT ![o] = IF @ = "None" THEN @ ELSE state]

DeleteMeltSaga(o) == saga_state' = [saga_state EXCEPT ![o] = "None"]

(* load_melt_quotes_exclusively: no other quote of the same lookup id is   *)
(* Pending or Paid.                                                        *)
NoConflict(q) ==
    \A p \in Quotes \ {q} :
        LookupId[p] = LookupId[q] => melt_quote[p] \notin {"Pending", "Paid"}

(***************************************************************************)
(* Functions of melt/shared.rs.                                            *)
(***************************************************************************)
TotalInputs(o) == InputsAmount(meltReq[o].ys)
InputsFee(o) == CalculateFee(meltReq[o].ys)

(* Amount::split on powers of two; with too few outputs the largest        *)
(* amounts are signed and the rest is kept.                                *)
Split(n) == {a \in Denominations : (n \div a) % 2 = 1}

ChangeAmounts(n, k) ==
    IF Cardinality(Split(n)) =< k
    THEN Split(n)
    ELSE CHOOSE A \in kSubset(k, Split(n)) : \A a \in A, b \in Split(n) \ A : b < a

ChangeSigs(bs, n) ==
    LET A == ChangeAmounts(n, Cardinality(bs))
    IN  UNION {{f \in [D -> A] : \A b, c \in D : b # c => f[b] # f[c]} :
                  D \in kSubset(Cardinality(A), bs)}

SigsAmount(sigs) == MapThenSumSet(LAMBDA b : sigs[b], DOMAIN sigs)

(* Mutant: a quote that has been paid meanwhile is rolled back.            *)
RollbackOkMutant(q) == TRUE

(* The condition of rollback_melt_quote's transaction: the quote may       *)
(* become Unpaid.  Missing or spent proofs are tolerated.                  *)
RollbackOk(q) == CheckMeltQuoteStateTransition(melt_quote[q], "Unpaid")

(* Mutant: the quote stays Pending.                                        *)
RollbackTxMutant(o, q, ys, bs) ==
    /\ proof' = RemoveProofs(proof, ys)
    /\ DeleteMeltRequest(q, DeleteBlindedMessages(blind_signature, bs))
    /\ DeleteMeltSaga(o)
    /\ UNCHANGED <<melt_quote, keyset_amounts, completed_operations, mint_payments, ln>>
    /\ IF RemoveProofsOk(proof, ys) /\ ys # {} THEN Publish(ys, "Unspent") ELSE UNCHANGED told

RollbackTx(o, q, ys, bs) ==
    /\ proof' = RemoveProofs(proof, ys)
    /\ melt_quote' = [melt_quote EXCEPT ![q] = "Unpaid"]
    /\ DeleteMeltRequest(q, DeleteBlindedMessages(blind_signature, bs))
    /\ DeleteMeltSaga(o)
    /\ UNCHANGED <<keyset_amounts, completed_operations, mint_payments, ln>>
    /\ IF RemoveProofsOk(proof, ys) /\ ys # {} THEN Publish(ys, "Unspent") ELSE UNCHANGED told

RollbackMeltQuote(o, q, ys, bs) ==
    \/ /\ ys # {} \/ bs # {}
       /\ RollbackOk(q)
       /\ RollbackTx(o, q, ys, bs)
    \/ /\ (ys = {} /\ bs = {}) \/ ~RollbackOk(q) \/ MeltDbErrors
       /\ UNCHANGED <<storeVars, told, backVars>>

(* finalize_melt_core: a total_spent in another unit is not comparable, so *)
(* that check passes then.                                                 *)
FinalizeCoreOk(q, ys, spent, foreign) ==
    /\ foreign \/ QuoteAmount[q] =< spent
    /\ CheckMeltQuoteStateTransition(melt_quote[q], "Paid")
    /\ UpdateProofsOk(proof, ys, "Spent")

(* Mutant: the inputs stay Pending.                                        *)
FinalizeCoreMutant(q, ys) ==
    /\ melt_quote' = [melt_quote EXCEPT ![q] = "Paid"]
    /\ Publish(ys, "Spent")
    /\ UNCHANGED proof

(* It publishes Spent before its caller commits.                           *)
FinalizeCore(q, ys) ==
    /\ melt_quote' = [melt_quote EXCEPT ![q] = "Paid"]
    /\ proof' = UpdateProofsState(proof, ys, "Spent")
    /\ Publish(ys, "Spent")

(* process_melt_change runs in a transaction of its own; it fails when the *)
(* payment cost more than the inputs net of their fee.                     *)
NeedsChange(r, spent, foreign) == ~foreign /\ TotalInputs(r) > spent

ChangeTarget(r, spent) == TotalInputs(r) - spent - InputsFee(r)

(* blind_sign refuses a keyset that is no longer active.                   *)
CanSign(r, target) == target = 0 \/ (target > 0 /\ r \notin retired)


StoreChange(q, sigs) ==
    /\ AddBlindSignaturesOk(blind_signature, sigs)
    /\ DeleteMeltRequest(q, AddBlindSignatures(blind_signature, sigs))

(* The payment for the quote went through.                                 *)
PaymentMade(q) ==
    LET l == LookupId[q]
    IN  \/ ln[l].state = "paid" /\ OfQuote(ln[l].by, q)
        \/ l \in InternalIds /\ q \in mint_payments[l]

(***************************************************************************)
(* Where a request goes on, and when and where a worker does.              *)
(***************************************************************************)
GoTo(o, pc) == meltPc' = [meltPc EXCEPT ![o] = pc]

Active(w) == IF w = "recovery" THEN mint = "starting" ELSE mint = "up"

WorkerAt(w, pc) == Active(w) /\ work[w].pc = pc

Becomes(w, rec) == work' = [work EXCEPT ![w] = rec]

Moves(w, pc) == work' = [work EXCEPT ![w].pc = pc]
=============================================================================
