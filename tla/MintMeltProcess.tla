-------------------------- MODULE MintMeltProcess ---------------------------
(***************************************************************************)
(* Proofs about the melt saga for any number of melts, quotes, polls and   *)
(* crashes: the types of its state, what runs in which state of the mint,  *)
(* and that no step takes back what a melt has finished.                   *)
(***************************************************************************)
EXTENDS MintMelt, MintMeltInvariant, TLAPS

(* What a step of a request or a worker leaves the tables with: rows of    *)
(* their types, and no saga that was not there.                            *)
TablesStay ==
    /\ (proof \in ProofTable)'
    /\ (saga_state \in [Ops -> {"None", "SetupComplete", "PaymentAttempted", "Finalizing"}])'
    /\ (melt_quote \in [Quotes -> {"Unpaid", "Pending", "Paid"}])'
    /\ (melt_request \in [Quotes -> MeltOps \cup {NoOp}])'
    /\ (mint_payments \in [InternalIds -> SUBSET (Quotes \cup {"invoice"})])'
    /\ (ln \in [LookupIds -> [state : {"none", "inflight", "paid", "failed"},
                              by : MeltOps \cup {NoOp}, fee : PayFees \cup {0}]])'
    /\ \A o \in MeltOps : saga_state[o] = "None" => saga_state'[o] = "None"

-----------------------------------------------------------------------------

LEMMA MeltNames ==
    /\ MeltOps \subseteq Ops /\ NoOp \notin MeltOps /\ NoOp \notin Quotes
    /\ "recovery" \notin Pollers /\ "recovery" \in Workers /\ Pollers \subseteq Workers
BY MeltAssumption, StoreAssumption, Zenon DEF Workers

LEMMA QuoteAmounts == ASSUME NEW q \in Quotes PROVE QuoteAmount[q] \in Nat
BY MeltAssumption, Zenon

LEMMA MeltInitProc == MeltInit => ProcInv
<1> SUFFICES ASSUME MeltInit PROVE ProcInv
  BY Zenon
<1>1. Idle \in WorkRecord
  BY Zenon DEF Idle, WorkRecord
<1>2. NoLn \in [state : {"none", "inflight", "paid", "failed"},
                by : MeltOps \cup {NoOp}, fee : PayFees \cup {0}]
  BY Zenon DEF NoLn
<1>3. NoMelt \in [quote : Quotes \cup {NoOp}, ys : SUBSET Ys, bs : SUBSET Outs]
  BY Zenon DEF NoMelt
<1>4. MeltShape
  <2>1. proof \in ProofTable
    BY Zenon DEF MeltInit, StoreInit, ProofTable, NoProof, ProofState
  <2>2. QED
    BY <2>1, <1>1, <1>2, <1>3, Zenon DEF MeltInit, StoreInit, MeltShape
<1>5. ProcessOk
  <2>1. /\ mint = "up" /\ meltTodo = {}
        /\ work = [w \in Workers |-> Idle]
    BY Zenon DEF MeltInit, StoreInit
  <2>2. work["recovery"] = Idle /\ Idle.pc = "idle"
    BY <2>1, MeltNames, Zenon DEF Idle
  <2>3. QED
    BY <2>1, <2>2 DEF ProcessOk
<1>6. StartedOk
  <2>1. \A o \in MeltOps : ~Started(o)
    BY MeltNames, Zenon DEF MeltInit, Started, NoMelt
  <2>2. \A o \in MeltOps : saga_state[o] = "None" /\ meltPc[o] = "idle"
    BY MeltNames, Zenon DEF MeltInit, StoreInit
  <2>3. \A w \in Workers : work[w].pc = "idle"
    BY Zenon DEF MeltInit, Idle
  <2>4. QED
    BY <2>1, <2>2, <2>3, Zenon DEF StartedOk
<1>7. QED
  BY <1>4, <1>5, <1>6, Zenon DEF ProcInv

LEMMA ProofTables ==
    ASSUME proof \in ProofTable, NEW ys, NEW o \in MeltOps
    PROVE  /\ RemoveProofs(proof, ys) \in ProofTable
           /\ UpdateProofsState(proof, ys, "Spent") \in ProofTable
           /\ UpdateProofsState(AddProofs(proof, ys, o), ys, "Pending") \in ProofTable
<1> USE DEF ProofTable, ProofState
<1>1. RemoveProofs(proof, ys) \in ProofTable
  BY Zenon DEF RemoveProofs, NoProof
<1>2. UpdateProofsState(proof, ys, "Spent") \in ProofTable
  BY Zenon DEF UpdateProofsState
<1>3. AddProofs(proof, ys, o) \in ProofTable
  BY MeltNames, Zenon DEF AddProofs
<1>4. UpdateProofsState(AddProofs(proof, ys, o), ys, "Pending") \in ProofTable
  BY <1>3, Zenon DEF UpdateProofsState
<1>5. QED
  BY <1>1, <1>2, <1>4, Zenon

(* A step of a request that is running.                                    *)
LEMMA RequestProc ==
    ASSUME ProcInv, TablesStay,
           NEW o \in MeltOps, meltPc[o] \in LiveMeltPcs,
           NEW pc \in LiveMeltPcs \cup {"done", "failed"},
           meltPc' = [meltPc EXCEPT ![o] = pc],
           UNCHANGED <<mint, meltReq, work, meltTodo>>
    PROVE  ProcInv'
<1>1. mint = "up" /\ meltTodo = {}
  BY Zenon DEF ProcInv, ProcessOk, MeltShape
<1>2. meltPc[o] # "idle" /\ pc # "idle"
  BY Zenon DEF LiveMeltPcs
<1>3. meltPc \in [MeltOps -> LiveMeltPcs \cup {"idle", "done", "failed"}]
  BY Zenon DEF ProcInv, MeltShape
<1>4. \A p \in MeltOps : meltPc'[p] = IF p = o THEN pc ELSE meltPc[p]
  BY <1>3, Zenon
<1>5. MeltShape'
  <2>1. (meltPc \in [MeltOps -> LiveMeltPcs \cup {"idle", "done", "failed"}])'
    BY <1>3, Zenon
  <2>2. QED
    BY <2>1, Zenon DEF ProcInv, MeltShape, TablesStay
<1>6. ProcessOk'
  BY <1>1, Zenon DEF ProcInv, ProcessOk
<1>7. StartedOk'
  <2>1. \A p \in MeltOps : Started(p)' <=> Started(p)
    BY Zenon DEF Started
  <2>2. \A p \in MeltOps : meltPc'[p] = "idle" <=> meltPc[p] = "idle"
    BY <1>2, <1>4, Zenon
  <2>3. QED
    BY <2>1, <2>2, Zenon DEF ProcInv, StartedOk, TablesStay
<1>8. QED
  BY <1>5, <1>6, <1>7, Zenon DEF ProcInv

(* A step of a worker.                                                     *)
LEMMA WorkerProc ==
    ASSUME ProcInv, TablesStay,
           NEW w \in Workers, Active(w),
           NEW rec \in WorkRecord,
           work' = [work EXCEPT ![w] = rec],
           rec.pc # "idle" => rec.quote \in Quotes,
           w = "recovery" => rec.op \in {NoOp, work[w].op} /\ rec.pc # "find",
           \A o \in MeltOps \ {work[w].op} : saga_state'[o] = saga_state[o],
           UNCHANGED <<mint, meltPc, meltReq, meltTodo>>
    PROVE  ProcInv'
<1>1. work \in [Workers -> WorkRecord] /\ meltTodo \subseteq MeltOps
  BY Zenon DEF ProcInv, MeltShape
<1>2. \A v \in Workers : work'[v] = IF v = w THEN rec ELSE work[v]
  BY <1>1, Zenon
<1>5. MeltShape'
  <2>1. work' \in [Workers -> WorkRecord]
    BY <1>1, Zenon
  <2>2. QED
    BY <2>1, Zenon DEF ProcInv, MeltShape, TablesStay
<1>6. ProcessOk'
  <2>1. CASE w = "recovery"
    <3>1. mint = "starting"
      BY <2>1, Zenon DEF Active
    <3>2. \A v \in Pollers : work'[v] = work[v]
      BY <2>1, <1>2, MeltNames, Zenon
    <3>3. work'["recovery"] = rec
      BY <2>1, <1>2, MeltNames, Zenon
    <3>4. rec.op \notin meltTodo
      BY <2>1, <1>1, MeltNames, Zenon DEF ProcInv, ProcessOk
    <3>5. \A o \in meltTodo : saga_state'[o] # "None"
      BY <2>1, <1>1, Zenon DEF ProcInv, ProcessOk
    <3>6. QED
      BY <2>1, <3>1, <3>2, <3>3, <3>4, <3>5 DEF ProcInv, ProcessOk
  <2>2. CASE w # "recovery"
    <3>1. mint = "up"
      BY <2>2, Zenon DEF Active
    <3>2. work'["recovery"] = work["recovery"]
      BY <2>2, <1>2, MeltNames, Zenon
    <3>3. QED
      BY <3>1, <3>2, Zenon DEF ProcInv, ProcessOk
  <2>3. QED
    BY <2>1, <2>2, Zenon
<1>7. StartedOk'
  <2>1. \A p \in MeltOps : Started(p)' <=> Started(p)
    BY Zenon DEF Started
  <2>2. \A v \in Workers : work'[v].pc # "idle" => work'[v].quote \in Quotes
    BY <1>2 DEF ProcInv, StartedOk
  <2>3. QED
    BY <2>1, <2>2, Zenon DEF ProcInv, StartedOk, TablesStay
<1>8. QED
  BY <1>5, <1>6, <1>7, Zenon DEF ProcInv

LEMMA NoTables ==
    ASSUME ProcInv, UNCHANGED <<proof, saga_state, melt_quote, melt_request, mint_payments, ln>>
    PROVE  TablesStay
BY Zenon DEF ProcInv, MeltShape, TablesStay

LEMMA SagaUpdates ==
    ASSUME ProcInv, NEW o,
           NEW state \in {"PaymentAttempted", "Finalizing", "None"},
           \/ UpdateSaga(o, state)
           \/ state = "None" /\ DeleteMeltSaga(o)
    PROVE  /\ saga_state' \in [Ops -> {"None", "SetupComplete", "PaymentAttempted", "Finalizing"}]
           /\ \A p \in MeltOps \ {o} : saga_state'[p] = saga_state[p]
           /\ \A p \in MeltOps : saga_state[p] = "None" => saga_state'[p] = "None"
BY MeltAssumption DEF ProcInv, MeltShape, UpdateSaga, DeleteMeltSaga

LEMMA RollbackTables ==
    ASSUME ProcInv, NEW o, NEW q, NEW ys, NEW bs, RollbackMeltQuote(o, q, ys, bs)
    PROVE  TablesStay /\ \A p \in MeltOps \ {o} : saga_state'[p] = saga_state[p]
<1>1. CASE UNCHANGED <<storeVars, told, backVars>>
  BY <1>1, NoTables, Zenon DEF storeVars, backVars
<1>2. CASE RollbackTx(o, q, ys, bs)
  <2>1. /\ saga_state' \in [Ops -> {"None", "SetupComplete", "PaymentAttempted", "Finalizing"}]
        /\ \A p \in MeltOps \ {o} : saga_state'[p] = saga_state[p]
        /\ \A p \in MeltOps : saga_state[p] = "None" => saga_state'[p] = "None"
    BY <1>2, SagaUpdates, Zenon DEF RollbackTx
  <2>2. proof' = RemoveProofs(proof, ys)
    BY <1>2, Zenon DEF RollbackTx
  <2>3. proof' \in ProofTable
    BY <2>2, Zenon DEF ProcInv, MeltShape, RemoveProofs, NoProof, ProofTable, ProofState
  <2>4. melt_quote' \in [Quotes -> {"Unpaid", "Pending", "Paid"}]
    BY <1>2, Zenon DEF RollbackTx, ProcInv, MeltShape
  <2>5. melt_request' \in [Quotes -> MeltOps \cup {NoOp}]
    BY <1>2, Zenon DEF RollbackTx, DeleteMeltRequest, ProcInv, MeltShape
  <2>6. UNCHANGED <<mint_payments, ln>>
    BY <1>2, Zenon DEF RollbackTx
  <2>7. QED
    BY <2>1, <2>3, <2>4, <2>5, <2>6, Zenon DEF ProcInv, MeltShape, TablesStay
<1>3. QED
  BY <1>1, <1>2, Zenon DEF RollbackMeltQuote

LEMMA CoreTables ==
    ASSUME ProcInv, NEW q, NEW ys, FinalizeCore(q, ys)
    PROVE  /\ proof' \in ProofTable
           /\ melt_quote' \in [Quotes -> {"Unpaid", "Pending", "Paid"}]
<1>1. proof' \in ProofTable
  BY DEF ProcInv, MeltShape, FinalizeCore, UpdateProofsState, ProofTable, ProofState
<1>2. melt_quote' \in [Quotes -> {"Unpaid", "Pending", "Paid"}]
  BY Zenon DEF ProcInv, MeltShape, FinalizeCore
<1>3. QED
  BY <1>1, <1>2, Zenon

(* setup_melt.                                                             *)
LEMMA SetupProc ==
    ASSUME ProcInv, NEW o \in MeltOps, SetupMelt(o)
    PROVE  ProcInv'
<1>1. PICK q \in Quotes, ys \in (SUBSET Ys) \ {{}}, bs \in SUBSET Outs :
        /\ proof' = UpdateProofsState(AddProofs(proof, ys, o), ys, "Pending")
        /\ melt_quote' = [melt_quote EXCEPT ![q] = "Pending"]
        /\ melt_request' = [melt_request EXCEPT ![q] = o]
        /\ meltReq' = [meltReq EXCEPT ![o] = [quote |-> q, ys |-> ys, bs |-> bs]]
  BY Zenon DEF SetupMelt
<1>2. /\ mint = "up" /\ meltPc[o] = "idle"
      /\ saga_state' = [saga_state EXCEPT ![o] = "SetupComplete"]
      /\ meltPc' = [meltPc EXCEPT ![o] = "setup"]
      /\ UNCHANGED <<mint, mint_payments, ln, work, meltTodo>>
  BY Zenon DEF SetupMelt, GoTo
<1>3. MeltShape'
  <2>1. proof' \in ProofTable
    BY <1>1, ProofTables, Zenon DEF ProcInv, MeltShape
  <2>2. saga_state' \in [Ops -> {"None", "SetupComplete", "PaymentAttempted", "Finalizing"}]
    BY <1>2, Zenon DEF ProcInv, MeltShape
  <2>3. melt_quote' \in [Quotes -> {"Unpaid", "Pending", "Paid"}]
    BY <1>1, Zenon DEF ProcInv, MeltShape
  <2>4. melt_request' \in [Quotes -> MeltOps \cup {NoOp}]
    BY <1>1, Zenon DEF ProcInv, MeltShape
  <2>5. meltPc' \in [MeltOps -> LiveMeltPcs \cup {"idle", "done", "failed"}]
    BY <1>2, Zenon DEF ProcInv, MeltShape, LiveMeltPcs
  <2>6. meltReq' \in [MeltOps -> [quote : Quotes \cup {NoOp}, ys : SUBSET Ys, bs : SUBSET Outs]]
    BY <1>1, Zenon DEF ProcInv, MeltShape
  <2>7. QED
    BY <1>2, <2>1, <2>2, <2>3, <2>4, <2>5, <2>6, Zenon DEF ProcInv, MeltShape
<1>4. ProcessOk'
  BY <1>2, Zenon DEF ProcInv, ProcessOk
<1>5. StartedOk'
  <2>1. \A p \in MeltOps : meltReq'[p] = IF p = o THEN [quote |-> q, ys |-> ys, bs |-> bs] ELSE meltReq[p]
    BY <1>1, Zenon DEF ProcInv, MeltShape
  <2>2. \A p \in MeltOps : meltPc'[p] = IF p = o THEN "setup" ELSE meltPc[p]
    BY <1>2, Zenon DEF ProcInv, MeltShape
  <2>3. \A p \in MeltOps : p # o => saga_state'[p] = saga_state[p]
    BY <1>2 DEF ProcInv, MeltShape
  <2>4. \A p \in MeltOps : Started(p)' <=> p = o \/ Started(p)
    BY <2>1 DEF Started
  <2>5. meltReq'[o].ys = ys /\ \A p \in MeltOps : p # o => meltReq'[p] = meltReq[p]
    BY <2>1
  <2>6. \A w \in Workers : work'[w] = work[w]
    BY <1>2, Zenon
  <2>7. QED
    BY <2>2, <2>3, <2>4, <2>5, <2>6, Zenon DEF ProcInv, StartedOk
<1>6. QED
  BY <1>3, <1>4, <1>5, Zenon DEF ProcInv

(* The other steps of a request.                                           *)
LEMMA MeltStepProc ==
    ASSUME ProcInv, NEW o \in MeltOps, MeltStep(o)
    PROVE  ProcInv'
<1> DEFINE q == meltReq[o].quote
<1>0. /\ meltPc[o] # "idle" => q \in Quotes
      /\ q \in Quotes => LookupId[q] \in LookupIds
  BY Zenon DEF ProcInv, StartedOk, Started, LookupIds
<1> HIDE DEF q
<1>1. CASE SetupMelt(o)
  BY <1>1, SetupProc, Zenon
<1>2. CASE InternalSettlement(o)
  <2>1. /\ meltPc[o] = "setup"
        /\ UNCHANGED <<proof, melt_quote, melt_request, ln, mint, meltReq, work, meltTodo>>
    BY <1>2, Zenon DEF InternalSettlement
  <2>2. TablesStay
    <3>1. CASE UNCHANGED <<saga_state, mint_payments>>
      BY <2>1, <3>1, NoTables, Zenon
    <3>2. CASE UpdateSaga(o, "PaymentAttempted")
               /\ mint_payments' = [mint_payments EXCEPT ![LookupId[q]] = {q}]
      <4>1. mint_payments' \in [InternalIds -> SUBSET (Quotes \cup {"invoice"})]
        BY <3>2, <2>1, <1>0, Zenon DEF ProcInv, MeltShape
      <4>2. /\ saga_state' \in [Ops -> {"None", "SetupComplete", "PaymentAttempted", "Finalizing"}]
            /\ \A p \in MeltOps : saga_state[p] = "None" => saga_state'[p] = "None"
        BY <3>2, SagaUpdates, Zenon
      <4>3. QED
        BY <2>1, <4>1, <4>2, Zenon DEF ProcInv, MeltShape, TablesStay
    <3>3. QED
      BY <1>2, <3>1, <3>2, Zenon DEF InternalSettlement, q
  <2>3. \E pc \in {"external", "compensating", "confirmed"} : meltPc' = [meltPc EXCEPT ![o] = pc]
    BY <1>2, Zenon DEF InternalSettlement, GoTo
  <2>4. QED
    BY <2>1, <2>2, <2>3, RequestProc, Zenon DEF LiveMeltPcs
<1>3. CASE AttemptPayment(o)
  <2>1. /\ saga_state' \in [Ops -> {"None", "SetupComplete", "PaymentAttempted", "Finalizing"}]
        /\ \A p \in MeltOps : saga_state[p] = "None" => saga_state'[p] = "None"
    BY <1>3, SagaUpdates, Zenon DEF AttemptPayment
  <2>2. TablesStay
    BY <1>3, <2>1, Zenon DEF AttemptPayment, ProcInv, MeltShape, TablesStay, backVars
  <2>3. QED
    BY <1>3, <2>2, RequestProc, Zenon DEF AttemptPayment, GoTo, LiveMeltPcs
<1>4. CASE MakePayment(o)
  <2>1. ln' \in [LookupIds -> [state : {"none", "inflight", "paid", "failed"},
                               by : MeltOps \cup {NoOp}, fee : PayFees \cup {0}]]
    BY <1>4 DEF MakePayment, ProcInv, MeltShape
  <2>2. TablesStay
    BY <1>4, <2>1, Zenon DEF MakePayment, ProcInv, MeltShape, TablesStay, storeVars
  <2>3. QED
    BY <1>4, <2>2, RequestProc, Zenon DEF MakePayment, GoTo, LiveMeltPcs
<1>5. CASE PaymentReturns(o)
  <2>1. TablesStay
    BY <1>5, NoTables, Zenon DEF PaymentReturns, storeVars, backVars
  <2>2. \E pc \in {"confirmed", "verifyPending", "verify"} : meltPc' = [meltPc EXCEPT ![o] = pc]
    BY <1>5, Zenon DEF PaymentReturns, GoTo
  <2>3. QED
    BY <1>5, <2>1, <2>2, RequestProc, Zenon DEF PaymentReturns, LiveMeltPcs
<1>6. CASE VerifyPayment(o)
  <2>1. TablesStay
    BY <1>6, NoTables, Zenon DEF VerifyPayment, storeVars, backVars
  <2>2. PICK s : /\ s \in CheckOutgoingPayment(LookupId[q])
                      \cup (IF LnLag /\ meltPc[o] = "verifyPending" THEN {"Unknown"} ELSE {})
                 /\ meltPc' = [meltPc EXCEPT ![o] = Verified(meltPc[o], s)]
    BY <1>6, Zenon DEF VerifyPayment, GoTo, q
  <2>3. ln[LookupId[q]].state \in {"none", "inflight", "paid", "failed"}
    BY <1>6, <1>0, Zenon DEF ProcInv, MeltShape, VerifyPayment
  <2>4. s \in {"Unknown", "Pending", "Paid", "Failed", "error"}
    BY <2>2, <2>3, Zenon DEF CheckOutgoingPayment
  <2>5. Verified(meltPc[o], s) \in {"confirmed", "compensating", "failed"}
    BY <2>4, Zenon DEF Verified
  <2>6. QED
    BY <1>6, <2>1, <2>2, <2>5, RequestProc, Zenon DEF VerifyPayment, LiveMeltPcs
<1>7. CASE FinalizeMelt(o)
  <2>1. FinalizeCore(q, meltReq[o].ys)
    BY <1>7, Zenon DEF FinalizeMelt, q
  <2>2. /\ saga_state' \in [Ops -> {"None", "SetupComplete", "PaymentAttempted", "Finalizing"}]
        /\ \A p \in MeltOps : saga_state[p] = "None" => saga_state'[p] = "None"
    <3>1. CASE UpdateSaga(o, "Finalizing")
      BY <3>1, SagaUpdates, Zenon
    <3>2. CASE DeleteMeltSaga(o)
      BY <3>2, SagaUpdates, Zenon
    <3>3. QED
      BY <1>7, <3>1, <3>2, Zenon DEF FinalizeMelt, CompleteMelt
  <2>3. melt_request' \in [Quotes -> MeltOps \cup {NoOp}]
    BY <1>7, Zenon DEF FinalizeMelt, DeleteMeltRequest, ProcInv, MeltShape
  <2>4. TablesStay
    BY <1>7, <2>1, <2>2, <2>3, CoreTables, Zenon DEF FinalizeMelt, ProcInv, MeltShape, TablesStay
  <2>5. \E pc \in {"done", "change"} : meltPc' = [meltPc EXCEPT ![o] = pc]
    BY <1>7, Zenon DEF FinalizeMelt, CompleteMelt, GoTo
  <2>6. /\ meltPc[o] = "confirmed"
        /\ UNCHANGED <<mint, meltReq, work, meltTodo>>
    BY <1>7, Zenon DEF FinalizeMelt
  <2>7. QED
    BY <2>4, <2>5, <2>6, RequestProc, Zenon DEF LiveMeltPcs
<1>8. CASE FinalizeMeltFails(o)
  <2>1. TablesStay
    BY <1>8, NoTables, Zenon DEF FinalizeMeltFails, storeVars, backVars
  <2>2. QED
    BY <1>8, <2>1, RequestProc, Zenon DEF FinalizeMeltFails, GoTo, LiveMeltPcs
<1>9. CASE ChangeMelt(o)
  <2>1. PICK sigs, n : StoreChange(q, sigs) /\ CompleteMelt(o, n, 0)
    BY <1>9, Zenon DEF ChangeMelt, q
  <2>2. /\ saga_state' \in [Ops -> {"None", "SetupComplete", "PaymentAttempted", "Finalizing"}]
        /\ \A p \in MeltOps : saga_state[p] = "None" => saga_state'[p] = "None"
    BY <2>1, SagaUpdates, Zenon DEF CompleteMelt
  <2>3. melt_request' \in [Quotes -> MeltOps \cup {NoOp}]
    BY <2>1, Zenon DEF StoreChange, DeleteMeltRequest, ProcInv, MeltShape
  <2>4. /\ UNCHANGED <<proof, mint, melt_quote, mint_payments, ln, meltReq, work, meltTodo>>
        /\ meltPc[o] = "change" /\ meltPc' = [meltPc EXCEPT ![o] = "done"]
    BY <1>9, <2>1, Zenon DEF ChangeMelt, CompleteMelt, GoTo
  <2>5. TablesStay
    BY <2>2, <2>3, <2>4, Zenon DEF ProcInv, MeltShape, TablesStay
  <2>6. QED
    BY <2>4, <2>5, RequestProc, Zenon DEF LiveMeltPcs
<1>10. CASE CompensateMelt(o)
  <2>1. TablesStay
    BY <1>10, RollbackTables, Zenon DEF CompensateMelt
  <2>2. QED
    BY <1>10, <2>1, RequestProc, Zenon DEF CompensateMelt, GoTo, LiveMeltPcs
<1>11. CASE DropMelt(o)
  <2>1. TablesStay
    BY <1>11, NoTables, Zenon DEF DropMelt, storeVars, backVars
  <2>2. QED
    BY <1>11, <2>1, RequestProc, Zenon DEF DropMelt, GoTo, LiveMeltPcs
<1>12. QED
  BY <1>1, <1>2, <1>3, <1>4, <1>5, <1>6, <1>7, <1>8, <1>9, <1>10, <1>11, Zenon DEF MeltStep

LEMMA IdleRecord == Idle \in WorkRecord /\ Idle.pc = "idle" /\ Idle.op = NoOp
BY Zenon DEF Idle, WorkRecord

(* A step of a worker that leaves the tables alone.                        *)
LEMMA ReadingProc ==
    ASSUME ProcInv, NEW w \in Workers, Active(w), NEW rec \in WorkRecord,
           work' = [work EXCEPT ![w] = rec],
           rec.pc # "idle" => rec.quote \in Quotes,
           w = "recovery" => rec.op \in {NoOp, work[w].op} /\ rec.pc # "find",
           UNCHANGED <<proof, saga_state, melt_quote, melt_request, mint_payments, ln>>,
           UNCHANGED <<mint, meltPc, meltReq, meltTodo>>
    PROVE  ProcInv'
BY NoTables, WorkerProc, Zenon

(* The steps of a worker.                                                  *)
LEMMA WorkerStepProc ==
    ASSUME ProcInv, NEW w \in Workers, WorkerStep(w)
    PROVE  ProcInv'
<1>0. /\ work \in [Workers -> WorkRecord] /\ work[w] \in WorkRecord
      /\ work[w].pc # "idle" => work[w].quote \in Quotes
      /\ \A q \in Quotes : LookupId[q] \in LookupIds
  BY Zenon DEF ProcInv, MeltShape, StartedOk, LookupIds
<1>1. CASE FindSaga(w)
  <2>1. /\ Active(w) /\ work[w].pc = "find" /\ w # "recovery"
        /\ UNCHANGED <<proof, saga_state, melt_quote, melt_request, mint_payments, ln>>
        /\ UNCHANGED <<mint, meltPc, meltReq, meltTodo>>
    BY <1>1, Zenon DEF FindSaga, WorkerAt, storeVars, backVars, ProcInv, ProcessOk
  <2>2. CASE Becomes(w, Idle)
    BY <2>1, <2>2, ReadingProc, IdleRecord, Zenon DEF Becomes
  <2>3. CASE \E o \in MeltSagas(work[w].quote) : work' = [work EXCEPT ![w].op = o, ![w].pc = "check"]
    <3>1. PICK o \in MeltOps : work' = [work EXCEPT ![w].op = o, ![w].pc = "check"]
      BY <2>3, Zenon DEF MeltSagas
    <3> DEFINE rec == [work[w] EXCEPT !.op = o, !.pc = "check"]
    <3>2. work' = [work EXCEPT ![w] = rec]
      BY <3>1, <1>0, Zenon
    <3>3. rec \in WorkRecord /\ rec.quote = work[w].quote
      BY <1>0, Zenon DEF WorkRecord
    <3> HIDE DEF rec
    <3>4. QED
      BY <1>0, <2>1, <3>2, <3>3, ReadingProc, Zenon
  <2>4. QED
    BY <1>1, <2>2, <2>3, Zenon DEF FindSaga
<1>2. CASE CheckPayment(w)
  <2>1. /\ Active(w) /\ work[w].pc = "check"
        /\ UNCHANGED <<proof, saga_state, melt_quote, melt_request, mint_payments, ln>>
        /\ UNCHANGED <<mint, meltPc, meltReq, meltTodo>>
    BY <1>2, Zenon DEF CheckPayment, WorkerAt, storeVars, backVars
  <2>2. CASE Becomes(w, Idle)
    BY <2>1, <2>2, ReadingProc, IdleRecord, Zenon DEF Becomes
  <2>3. ASSUME NEW s \in CheckOutgoingPayment(LookupId[work[w].quote]), Outcome(s) # "idle",
               Becomes(w, [work[w] EXCEPT !.pc = Outcome(s),
                             !.spent = IF s = "Paid" THEN TotalSpent(work[w].quote) ELSE 0,
                             !.foreign = MsatChecks])
        PROVE  ProcInv'
    <3> DEFINE rec == [work[w] EXCEPT !.pc = Outcome(s),
                             !.spent = IF s = "Paid" THEN TotalSpent(work[w].quote) ELSE 0,
                             !.foreign = MsatChecks]
    <3>1. work[w].quote \in Quotes
      BY <1>0, <2>1, Zenon
    <3>2. ln[LookupId[work[w].quote]] \in [state : {"none", "inflight", "paid", "failed"},
                               by : MeltOps \cup {NoOp}, fee : PayFees \cup {0}]
      BY <3>1, <1>0, Zenon DEF ProcInv, MeltShape
    <3>3. s \in {"Unknown", "Pending", "Paid", "Failed", "error"}
      BY <3>2, Zenon DEF CheckOutgoingPayment
    <3>4. Outcome(s) \in {"finalize", "collect"}
      BY <2>3, <3>3, Zenon DEF Outcome
    <3>5. TotalSpent(work[w].quote) \in Nat
      <4>1. QuoteAmount[work[w].quote] \in Nat
        BY <3>1, QuoteAmounts, Zenon
      <4>2. ln[LookupId[work[w].quote]].fee \in Nat
        <5>1. PayFees \cup {0} \subseteq Nat
          BY MeltAssumption
        <5>2. ln[LookupId[work[w].quote]].fee \in PayFees \cup {0}
          BY <3>2, Zenon
        <5>3. QED
          BY <5>1, <5>2, Zenon
      <4>3. QED
        BY <4>1, <4>2 DEF TotalSpent
    <3>6. MsatChecks \in BOOLEAN
      BY MeltAssumption, Zenon
    <3>7. /\ rec \in WorkRecord /\ rec.quote = work[w].quote /\ rec.op = work[w].op
          /\ rec.pc # "find"
      BY <1>0, <3>4, <3>5, <3>6, Zenon DEF WorkRecord
    <3>8. work' = [work EXCEPT ![w] = rec]
      BY <2>3, Zenon DEF Becomes
    <3> HIDE DEF rec
    <3>9. QED
      BY <2>1, <3>1, <3>7, <3>8, ReadingProc, Zenon
  <2>4. QED
    BY <1>2, <2>2, <2>3, Zenon DEF CheckPayment
<1>3. CASE CollectSetup(w)
  <2>1. /\ Active(w) /\ work[w].pc = "collect"
        /\ UNCHANGED <<proof, saga_state, melt_quote, melt_request, mint_payments, ln>>
        /\ UNCHANGED <<mint, meltPc, meltReq, meltTodo>>
        /\ work' = [work EXCEPT ![w] = Collected(work[w])]
    BY <1>3, Zenon DEF CollectSetup, WorkerAt, Becomes, storeVars, backVars
  <2>2. /\ Collected(work[w]) \in WorkRecord /\ Collected(work[w]).quote = work[w].quote
        /\ Collected(work[w]).op = work[w].op /\ Collected(work[w]).pc # "find"
    BY <1>0, Zenon DEF Collected, WorkRecord, ProofYsByOperationId, BlindedSecretsByOperationId
  <2>3. QED
    BY <1>0, <2>1, <2>2, ReadingProc, Zenon
<1>4. CASE RollbackQuote(w)
  <2>1. /\ Active(w)
        /\ work' = [work EXCEPT ![w] = Idle]
        /\ UNCHANGED <<mint, meltPc, meltReq, meltTodo>>
    BY <1>4, Zenon DEF RollbackQuote, WorkerAt, Becomes
  <2>2. TablesStay /\ \A p \in MeltOps \ {work[w].op} : saga_state'[p] = saga_state[p]
    BY <1>4, RollbackTables, Zenon DEF RollbackQuote
  <2>3. QED
    BY <2>1, <2>2, IdleRecord, WorkerProc, Zenon
<1>5. CASE FinalizeQuote(w)
  <2> DEFINE q == work[w].quote
  <2>1. /\ Active(w) /\ work[w].pc = "finalize"
        /\ UNCHANGED <<saga_state, mint, melt_request, mint_payments, ln, meltPc, meltReq, meltTodo>>
    BY <1>5, Zenon DEF FinalizeQuote, WorkerAt
  <2>2. TablesStay
    <3>1. \/ UNCHANGED <<proof, melt_quote>>
          \/ FinalizeCore(q, ProofYsByQuoteId(q))
      BY <1>5, Zenon DEF FinalizeQuote
    <3>2. /\ proof' \in ProofTable
          /\ melt_quote' \in [Quotes -> {"Unpaid", "Pending", "Paid"}]
      BY <3>1, CoreTables, Zenon DEF ProcInv, MeltShape
    <3>3. QED
      BY <2>1, <3>2, Zenon DEF TablesStay, ProcInv, MeltShape
  <2>3. PICK rec \in WorkRecord : /\ work' = [work EXCEPT ![w] = rec]
                                  /\ rec.quote = work[w].quote /\ rec.op = work[w].op
                                  /\ rec.pc # "find"
    <3>1. CASE Moves(w, "delete")
      <4>1. work' = [work EXCEPT ![w] = [work[w] EXCEPT !.pc = "delete"]]
        BY <3>1, <1>0, Zenon DEF Moves
      <4>2. [work[w] EXCEPT !.pc = "delete"] \in WorkRecord
        BY <1>0, Zenon DEF WorkRecord
      <4>3. QED
        BY <4>1, <4>2, <1>0, Zenon DEF WorkRecord
    <3>2. CASE Becomes(w, [work[w] EXCEPT !.pc = "sigs", !.req = melt_request[q],
                               !.bs = OutputsByQuoteId(blind_signature, q, "Unsigned")])
      <4>1. melt_request[q] \in MeltOps \cup {NoOp}
        BY <1>0, <2>1, Zenon DEF ProcInv, MeltShape
      <4>2. OutputsByQuoteId(blind_signature, q, "Unsigned") \subseteq Outs
        BY Zenon DEF OutputsByQuoteId
      <4> HIDE DEF q
      <4>3. [work[w] EXCEPT !.pc = "sigs", !.req = melt_request[q],
               !.bs = OutputsByQuoteId(blind_signature, q, "Unsigned")] \in WorkRecord
        BY <4>1, <4>2, <1>0, Zenon DEF WorkRecord
      <4>4. QED
        BY <4>3, <3>2, <1>0, Zenon DEF WorkRecord, Becomes
    <3>3. QED
      BY <1>5, <3>1, <3>2, Zenon DEF FinalizeQuote
  <2>4. QED
    BY <1>0, <2>1, <2>2, <2>3, WorkerProc, Zenon
<1>6. CASE ReadSignatures(w)
  <2>1. /\ Active(w) /\ work[w].pc = "sigs"
        /\ UNCHANGED <<proof, saga_state, melt_quote, melt_request, mint_payments, ln>>
        /\ UNCHANGED <<mint, meltPc, meltReq, meltTodo>>
    BY <1>6, Zenon DEF ReadSignatures, WorkerAt, storeVars, backVars
  <2>2. PICK pc \in {"sign", "close"} : work' = [work EXCEPT ![w] = [work[w] EXCEPT !.pc = pc]]
    BY <1>6, <1>0, Zenon DEF ReadSignatures, Moves
  <2>3. /\ [work[w] EXCEPT !.pc = pc] \in WorkRecord
        /\ [work[w] EXCEPT !.pc = pc].quote = work[w].quote
        /\ [work[w] EXCEPT !.pc = pc].op = work[w].op /\ [work[w] EXCEPT !.pc = pc].pc # "find"
    BY <1>0, Zenon DEF WorkRecord
  <2>4. QED
    BY <1>0, <2>1, <2>2, <2>3, ReadingProc, Zenon
<1>7. CASE SignChange(w) \/ CloseRequest(w)
  <2>1. /\ Active(w) /\ work[w].pc \in {"sign", "close"}
        /\ work' = [work EXCEPT ![w] = [work[w] EXCEPT !.pc = "delete"]]
        /\ UNCHANGED <<proof, saga_state, melt_quote, mint_payments, ln>>
        /\ UNCHANGED <<mint, meltPc, meltReq, meltTodo>>
        /\ melt_request' = [melt_request EXCEPT ![work[w].quote] = NoOp]
    BY <1>7, <1>0, Zenon DEF SignChange, CloseRequest, WorkerAt, Moves, StoreChange, DeleteMeltRequest
  <2>2. TablesStay
    BY <2>1, Zenon DEF TablesStay, ProcInv, MeltShape
  <2>3. /\ [work[w] EXCEPT !.pc = "delete"] \in WorkRecord
        /\ [work[w] EXCEPT !.pc = "delete"].quote = work[w].quote
        /\ [work[w] EXCEPT !.pc = "delete"].op = work[w].op
        /\ [work[w] EXCEPT !.pc = "delete"].pc # "find"
    BY <1>0, Zenon DEF WorkRecord
  <2>4. QED
    BY <1>0, <2>1, <2>2, <2>3, WorkerProc, Zenon
<1>8. CASE DeleteSaga(w)
  <2>1. /\ Active(w)
        /\ work' = [work EXCEPT ![w] = Idle]
        /\ UNCHANGED <<proof, melt_quote, melt_request, mint_payments, ln>>
        /\ UNCHANGED <<mint, meltPc, meltReq, meltTodo>>
    BY <1>8, Zenon DEF DeleteSaga, WorkerAt, Becomes, backVars
  <2>2. /\ saga_state' \in [Ops -> {"None", "SetupComplete", "PaymentAttempted", "Finalizing"}]
        /\ \A p \in MeltOps \ {work[w].op} : saga_state'[p] = saga_state[p]
        /\ \A p \in MeltOps : saga_state[p] = "None" => saga_state'[p] = "None"
    BY <1>8, SagaUpdates, Zenon DEF DeleteSaga
  <2>3. TablesStay
    BY <2>1, <2>2, Zenon DEF TablesStay, ProcInv, MeltShape
  <2>4. QED
    BY <2>1, <2>2, <2>3, IdleRecord, WorkerProc, Zenon
<1>9. QED
  BY <1>1, <1>2, <1>3, <1>4, <1>5, <1>6, <1>7, <1>8, Zenon DEF WorkerStep

LEMMA WorkerFailsProc ==
    ASSUME ProcInv, NEW w \in Workers, WorkerFails(w)
    PROVE  ProcInv'
<1>1. /\ Active(w) /\ work' = [work EXCEPT ![w] = Idle]
      /\ UNCHANGED <<proof, saga_state, melt_quote, melt_request, mint_payments, ln>>
      /\ UNCHANGED <<mint, meltPc, meltReq, meltTodo>>
  BY Zenon DEF WorkerFails, Becomes, storeVars, backVars
<1>2. QED
  BY <1>1, ReadingProc, IdleRecord, Zenon

LEMMA PollQuoteProc ==
    ASSUME ProcInv, NEW w \in Workers, NEW q \in Quotes, PollQuote(w, q)
    PROVE  ProcInv'
<1> DEFINE rec == [Idle EXCEPT !.pc = "find", !.quote = q]
<1>1. /\ Active(w) /\ w # "recovery" /\ work' = [work EXCEPT ![w] = rec]
      /\ UNCHANGED <<proof, saga_state, melt_quote, melt_request, mint_payments, ln>>
      /\ UNCHANGED <<mint, meltPc, meltReq, meltTodo>>
  BY Zenon DEF PollQuote, WorkerAt, Becomes, storeVars, backVars
<1>2. rec \in WorkRecord /\ rec.quote = q
  BY Zenon DEF Idle, WorkRecord
<1> HIDE DEF rec
<1>3. QED
  BY <1>1, <1>2, ReadingProc, Zenon

(* The body of the recovery loop.  Its sagas were read when the mint       *)
(* started and only the loop itself deletes one, so every CASE is covered. *)
LEMMA RecoverProc ==
    ASSUME ProcInv, NEW o \in MeltOps, RecoverMeltSaga(o)
    PROVE  /\ ProcInv'
           /\ saga_state[o] # "None"
           /\ \E rec \in WorkRecord : work' = [work EXCEPT !["recovery"] = rec]
<1> DEFINE q == meltReq[o].quote
           base == [Idle EXCEPT !.quote = q, !.op = o]
<1>1. /\ mint = "starting" /\ o \in meltTodo /\ work["recovery"] = Idle
      /\ meltTodo' = meltTodo \ {o}
      /\ UNCHANGED <<proof, saga_state, melt_quote, melt_request, mint_payments, ln>>
      /\ UNCHANGED <<mint, meltPc, meltReq>>
  BY Zenon DEF RecoverMeltSaga, storeVars, backVars
<1>2. saga_state[o] \in {"SetupComplete", "PaymentAttempted", "Finalizing"} /\ q \in Quotes
  <2>1. saga_state[o] # "None" /\ o \in Ops
    BY <1>1, MeltNames, Zenon DEF ProcInv, ProcessOk
  <2>2. q \in Quotes
    BY <2>1, Zenon DEF ProcInv, StartedOk, Started
  <2>3. QED
    BY <2>1, <2>2, Zenon DEF ProcInv, MeltShape
<1>3. base \in WorkRecord /\ base.quote = q /\ base.op = o
  BY <1>2, Zenon DEF Idle, WorkRecord
<1>4. QuoteAmount[q] \in Nat
  BY <1>2, QuoteAmounts, Zenon
<1>5. \/ work' = [work EXCEPT !["recovery"] = Collected(base)]
      \/ work' = [work EXCEPT !["recovery"] = [base EXCEPT !.pc = "finalize", !.spent = QuoteAmount[q]]]
      \/ work' = [work EXCEPT !["recovery"] = [base EXCEPT !.pc = "check"]]
  <2>1. CASE saga_state[o] = "SetupComplete"
    BY <2>1, Zenon DEF RecoverMeltSaga, Becomes
  <2>2. CASE saga_state[o] = "Finalizing"
    BY <2>2, Zenon DEF RecoverMeltSaga, Becomes
  <2>3. CASE saga_state[o] = "PaymentAttempted"
    BY <2>3, Zenon DEF RecoverMeltSaga, Becomes
  <2>4. QED
    BY <1>2, <2>1, <2>2, <2>3, Zenon
<1> HIDE DEF base, q
<1>6. PICK rec \in WorkRecord : /\ work' = [work EXCEPT !["recovery"] = rec]
                                /\ rec.quote = q /\ rec.op = o /\ rec.pc # "find"
  <2>1. /\ Collected(base) \in WorkRecord /\ Collected(base).quote = q
        /\ Collected(base).op = o /\ Collected(base).pc # "find"
    BY <1>3, Zenon DEF Collected, WorkRecord, ProofYsByOperationId, BlindedSecretsByOperationId
  <2>2. [base EXCEPT !.pc = "finalize", !.spent = QuoteAmount[q]] \in WorkRecord
    BY <1>3, <1>4, Zenon DEF WorkRecord
  <2>3. [base EXCEPT !.pc = "check"] \in WorkRecord
    BY <1>3, Zenon DEF WorkRecord
  <2>4. CASE work' = [work EXCEPT !["recovery"] = Collected(base)]
    BY <2>1, <2>4, Zenon
  <2>5. CASE work' = [work EXCEPT !["recovery"] = [base EXCEPT !.pc = "finalize", !.spent = QuoteAmount[q]]]
    BY <1>3, <2>2, <2>5, Zenon DEF WorkRecord
  <2>6. CASE work' = [work EXCEPT !["recovery"] = [base EXCEPT !.pc = "check"]]
    BY <1>3, <2>3, <2>6, Zenon DEF WorkRecord
  <2>7. QED
    BY <1>5, <2>4, <2>5, <2>6, Zenon
<1>7. work \in [Workers -> WorkRecord] /\ "recovery" \in Workers /\ Pollers \subseteq Workers
  BY Zenon DEF ProcInv, MeltShape, Workers
<1>8. \A v \in Workers : work'[v] = IF v = "recovery" THEN rec ELSE work[v]
  BY <1>6, <1>7, Zenon
<1>9. MeltShape'
  <2>1. work' \in [Workers -> WorkRecord] /\ meltTodo' \subseteq MeltOps
    BY <1>1, <1>6, <1>7, Zenon DEF ProcInv, MeltShape
  <2>2. QED
    BY <1>1, <2>1, Zenon DEF ProcInv, MeltShape
<1>10. ProcessOk'
  <2>1. work'["recovery"] = rec /\ \A v \in Pollers : work'[v] = work[v]
    BY <1>7, <1>8, MeltNames, Zenon
  <2>2. \A v \in Pollers : work[v] = Idle
    BY <1>1, Zenon DEF ProcInv, ProcessOk
  <2>3. \A p \in meltTodo' : saga_state'[p] # "None"
    BY <1>1, Zenon DEF ProcInv, ProcessOk
  <2>4. \A p \in MeltOps : meltPc'[p] \notin LiveMeltPcs
    BY <1>1, Zenon DEF ProcInv, ProcessOk
  <2>5. QED
    BY <1>1, <1>6, <2>1, <2>2, <2>3, <2>4 DEF ProcessOk
<1>11. StartedOk'
  <2>1. \A p \in MeltOps : Started(p)' <=> Started(p)
    BY <1>1, Zenon DEF Started
  <2>2. \A v \in Workers : work'[v].pc # "idle" => work'[v].quote \in Quotes
    BY <1>2, <1>6, <1>8 DEF ProcInv, StartedOk
  <2>3. QED
    BY <1>1, <2>1, <2>2, Zenon DEF ProcInv, StartedOk
<1>12. QED
  BY <1>2, <1>6, <1>9, <1>10, <1>11, Zenon DEF ProcInv

(* The backend, the process and the keysets.                               *)
LEMMA OutsideProc ==
    ASSUME ProcInv,
           \/ \E l \in LookupIds : LnSettles(l)
           \/ \E l \in InternalIds : InvoicePaid(l)
           \/ RotateSignatory
           \/ StoreKeysets
           \/ MeltCrash
           \/ MeltStart
           \/ MeltStartDone
           \/ UNCHANGED meltVars
    PROVE  ProcInv'
<1>1. ASSUME NEW l \in LookupIds, LnSettles(l) PROVE ProcInv'
  <2>1. UNCHANGED <<proof, saga_state, mint, melt_quote, melt_request, mint_payments,
                    meltPc, meltReq, work, meltTodo>>
    BY <1>1, Zenon DEF LnSettles, storeVars, procVars
  <2>2. ln' \in [LookupIds -> [state : {"none", "inflight", "paid", "failed"},
                               by : MeltOps \cup {NoOp}, fee : PayFees \cup {0}]]
    <3> DEFINE R == [state : {"none", "inflight", "paid", "failed"},
                     by : MeltOps \cup {NoOp}, fee : PayFees \cup {0}]
    <3>1. ln \in [LookupIds -> R]
      BY Zenon DEF ProcInv, MeltShape
    <3>2. CASE \E f \in PayFees : ln' = [ln EXCEPT ![l].state = "paid", ![l].fee = f]
      <4>1. PICK f \in PayFees : ln' = [ln EXCEPT ![l].state = "paid", ![l].fee = f]
        BY <3>2, Zenon
      <4>2. [ln[l] EXCEPT !.state = "paid", !.fee = f] \in R
        BY <3>1, Zenon
      <4>3. ln' = [ln EXCEPT ![l] = [ln[l] EXCEPT !.state = "paid", !.fee = f]]
        BY <4>1, <3>1, Zenon
      <4> HIDE DEF R
      <4>4. QED
        BY <4>2, <4>3, <3>1, Zenon DEF R
    <3>3. CASE ln' = [ln EXCEPT ![l].state = "failed"]
      BY <3>1, <3>3, Zenon
    <3>4. QED
      BY <1>1, <3>2, <3>3, Zenon DEF LnSettles
  <2>3. MeltShape'
    BY <2>1, <2>2, Zenon DEF ProcInv, MeltShape
  <2>4. ProcessOk' /\ StartedOk'
    BY <2>1, Zenon DEF ProcInv, ProcessOk, StartedOk, Started
  <2>5. QED
    BY <2>3, <2>4, Zenon DEF ProcInv
<1>2. ASSUME NEW l \in InternalIds, InvoicePaid(l) PROVE ProcInv'
  <2>1. UNCHANGED <<proof, saga_state, mint, melt_quote, melt_request, ln,
                    meltPc, meltReq, work, meltTodo>>
    BY <1>2, Zenon DEF InvoicePaid, storeVars, procVars
  <2>2. mint_payments' \in [InternalIds -> SUBSET (Quotes \cup {"invoice"})]
    BY <1>2, Zenon DEF InvoicePaid, ProcInv, MeltShape
  <2>3. MeltShape'
    BY <2>1, <2>2, Zenon DEF ProcInv, MeltShape
  <2>4. ProcessOk' /\ StartedOk'
    BY <2>1, Zenon DEF ProcInv, ProcessOk, StartedOk, Started
  <2>5. QED
    BY <2>3, <2>4, Zenon DEF ProcInv
<1>3. CASE RotateSignatory \/ StoreKeysets \/ UNCHANGED meltVars
  <2>1. UNCHANGED <<proof, saga_state, mint, melt_quote, melt_request, mint_payments, ln,
                    meltPc, meltReq, work, meltTodo>>
    BY <1>3, Zenon DEF RotateSignatory, StoreKeysets, storeVars, backVars, meltVars, procVars
  <2>2. QED
    BY <2>1, Zenon DEF ProcInv, MeltShape, ProcessOk, StartedOk, Started
<1>4. CASE MeltCrash
  <2>1. /\ UNCHANGED <<proof, saga_state, melt_quote, melt_request, mint_payments, ln, meltReq>>
        /\ mint' = "down" /\ meltTodo' = {}
        /\ work' = [w \in Workers |-> Idle]
        /\ meltPc' = [o \in MeltOps |-> IF meltPc[o] \in LiveMeltPcs THEN "failed" ELSE meltPc[o]]
    BY <1>4, Zenon DEF MeltCrash, storeVars, backVars
  <2>2. MeltShape'
    <3>1. work' \in [Workers -> WorkRecord]
      BY <2>1, IdleRecord, Zenon
    <3>2. meltPc' \in [MeltOps -> LiveMeltPcs \cup {"idle", "done", "failed"}]
      BY <2>1, Zenon DEF ProcInv, MeltShape
    <3>3. QED
      BY <2>1, <3>1, <3>2, Zenon DEF ProcInv, MeltShape
  <2>3. ProcessOk'
    BY <2>1, IdleRecord, Zenon DEF ProcInv, ProcessOk, Workers, LiveMeltPcs
  <2>4. StartedOk'
    <3>1. \A p \in MeltOps : Started(p)' <=> Started(p)
      BY <2>1, Zenon DEF Started
    <3>2. \A p \in MeltOps : meltPc'[p] = "idle" <=> meltPc[p] = "idle"
      BY <2>1, Zenon DEF LiveMeltPcs
    <3>3. QED
      BY <2>1, <3>1, <3>2, IdleRecord, Zenon DEF ProcInv, StartedOk
  <2>5. QED
    BY <2>2, <2>3, <2>4, Zenon DEF ProcInv
<1>5. CASE MeltStart \/ MeltStartDone
  <2>1. /\ UNCHANGED <<proof, saga_state, melt_quote, melt_request, mint_payments, ln, meltReq,
                       meltPc, work>>
        /\ work["recovery"] = Idle
    BY <1>5, Zenon DEF MeltStart, MeltStartDone, storeVars, backVars, ProcInv, ProcessOk
  <2>2. \/ mint = "down" /\ mint' = "starting" /\ meltTodo' = {o \in MeltOps : saga_state[o] # "None"}
        \/ mint' = "up" /\ meltTodo' = {}
    BY <1>5, Zenon DEF MeltStart, MeltStartDone
  <2>3. MeltShape'
    BY <2>1, <2>2, Zenon DEF ProcInv, MeltShape
  <2>4. ProcessOk'
    BY <2>1, <2>2, MeltNames, IdleRecord, Zenon DEF ProcInv, ProcessOk
  <2>5. StartedOk'
    BY <2>1, Zenon DEF ProcInv, StartedOk, Started
  <2>6. QED
    BY <2>3, <2>4, <2>5, Zenon DEF ProcInv
<1>6. QED
  BY <1>1, <1>2, <1>3, <1>4, <1>5, Zenon

LEMMA MeltNextProc == ProcInv /\ [MeltNext]_meltVars => ProcInv'
BY MeltStepProc, RecoverProc, WorkerStepProc, WorkerFailsProc, PollQuoteProc, OutsideProc, Zenon DEF MeltNext

-----------------------------------------------------------------------------
(***************************************************************************)
(* What a melt has finished stays finished, retries included: this needs   *)
(* no more of the state than its types.                                    *)
(***************************************************************************)
QuotesFinal == \A q \in Quotes : melt_quote[q] = "Paid" => melt_quote'[q] = "Paid"
ProofsFinal == \A y \in Ys : proof[y].state = "Spent" => proof'[y] = proof[y]
OutputsFinal == \A b \in Outs : blind_signature[b].state = "Signed" => blind_signature'[b] = blind_signature[b]

LEMMA DeletedFinal ==
    ASSUME NEW q, NEW t, DeleteMeltRequest(q, t),
           \A b \in Outs : blind_signature[b].state = "Signed" => t[b] = blind_signature[b]
    PROVE  OutputsFinal
BY Zenon DEF DeleteMeltRequest, DeleteBlindedMessages, OutputsFinal

LEMMA StoredFinal ==
    ASSUME NEW q, NEW sigs, StoreChange(q, sigs)
    PROVE  OutputsFinal
<1> DEFINE t == AddBlindSignatures(blind_signature, sigs)
<1>1. \A b \in Outs : blind_signature[b].state = "Signed" => t[b] = blind_signature[b]
  BY Zenon DEF StoreChange, AddBlindSignatures, AddBlindSignaturesOk
<1>2. QED
  BY <1>1, DeletedFinal, Zenon DEF StoreChange

LEMMA CoreFinal ==
    ASSUME ProcInv, NEW q, NEW ys, NEW spent, NEW foreign,
           FinalizeCoreOk(q, ys, spent, foreign), FinalizeCore(q, ys)
    PROVE  QuotesFinal /\ ProofsFinal
<1>1. QuotesFinal
  BY Zenon DEF FinalizeCore, QuotesFinal, ProcInv, MeltShape
<1>2. ProofsFinal
  BY Zenon DEF FinalizeCoreOk, FinalizeCore, UpdateProofsOk, CheckStateTransition, UpdateProofsState, ProofsFinal
<1>3. QED
  BY <1>1, <1>2, Zenon

LEMMA RollbackFinal ==
    ASSUME ProcInv, NEW o, NEW q, NEW ys, NEW bs, RollbackMeltQuote(o, q, ys, bs)
    PROVE  QuotesFinal /\ ProofsFinal /\ OutputsFinal
<1>1. CASE UNCHANGED <<storeVars, told, backVars>>
  BY <1>1, Zenon DEF storeVars, backVars, QuotesFinal, ProofsFinal, OutputsFinal
<1>2. CASE RollbackOk(q) /\ RollbackTx(o, q, ys, bs)
  <2>1. QuotesFinal
    BY <1>2, Zenon DEF RollbackOk, CheckMeltQuoteStateTransition, RollbackTx, QuotesFinal, ProcInv, MeltShape
  <2>2. ProofsFinal
    BY <1>2, Zenon DEF RollbackTx, RemoveProofs, Removable, ProofsFinal
  <2>3. OutputsFinal
    <3> DEFINE t == DeleteBlindedMessages(blind_signature, bs)
    <3>1. \A b \in Outs : blind_signature[b].state = "Signed" => t[b] = blind_signature[b]
      BY Zenon DEF DeleteBlindedMessages
    <3>2. QED
      BY <1>2, <3>1, DeletedFinal, Zenon DEF RollbackTx
  <2>4. QED
    BY <2>1, <2>2, <2>3, Zenon
<1>3. QED
  BY <1>1, <1>2, Zenon DEF RollbackMeltQuote

LEMMA MeltStepFinal ==
    ASSUME ProcInv, NEW o \in MeltOps, MeltStep(o)
    PROVE  QuotesFinal /\ ProofsFinal /\ OutputsFinal
<1>1. CASE SetupMelt(o)
  <2>1. PICK q \in Quotes, ys \in SUBSET Ys, bs \in SUBSET Outs :
           /\ AddProofsOk(proof, ys) /\ melt_quote[q] \in {"Unpaid", "Failed"}
           /\ AddBlindedMessagesOk(blind_signature, bs)
           /\ proof' = UpdateProofsState(AddProofs(proof, ys, o), ys, "Pending")
           /\ blind_signature' = AddBlindedMessages(blind_signature, bs, o)
           /\ melt_quote' = [melt_quote EXCEPT ![q] = "Pending"]
    BY <1>1, Zenon DEF SetupMelt
  <2>2. QuotesFinal
    BY <2>1, Zenon DEF QuotesFinal, ProcInv, MeltShape
  <2>3. ProofsFinal
    BY <2>1, Zenon DEF ProofsFinal, AddProofsOk, UpdateProofsState, AddProofs
  <2>4. OutputsFinal
    BY <2>1, Zenon DEF OutputsFinal, AddBlindedMessagesOk, AddBlindedMessages
  <2>5. QED
    BY <2>2, <2>3, <2>4, Zenon
<1>2. CASE FinalizeMelt(o)
  <2>1. QuotesFinal /\ ProofsFinal
    BY <1>2, CoreFinal, Zenon DEF FinalizeMelt, FinalizeMeltOk
  <2>2. OutputsFinal
    <3>1. CASE blind_signature' = blind_signature
      BY <3>1, Zenon DEF OutputsFinal
    <3>2. CASE DeleteMeltRequest(meltReq[o].quote, blind_signature)
      BY <3>2, DeletedFinal, Zenon
    <3>3. QED
      BY <1>2, <3>1, <3>2, Zenon DEF FinalizeMelt
  <2>3. QED
    BY <2>1, <2>2, Zenon
<1>3. CASE ChangeMelt(o)
  <2>1. UNCHANGED <<proof, melt_quote>> /\ \E sigs : StoreChange(meltReq[o].quote, sigs)
    BY <1>3, Zenon DEF ChangeMelt
  <2>2. QED
    BY <2>1, StoredFinal, Zenon DEF QuotesFinal, ProofsFinal
<1>4. CASE CompensateMelt(o)
  BY <1>4, RollbackFinal, Zenon DEF CompensateMelt
<1>5. CASE \/ InternalSettlement(o) \/ AttemptPayment(o) \/ MakePayment(o) \/ PaymentReturns(o)
           \/ VerifyPayment(o) \/ FinalizeMeltFails(o) \/ DropMelt(o)
  <2>1. UNCHANGED <<proof, blind_signature, melt_quote>>
    BY <1>5, Zenon DEF InternalSettlement, AttemptPayment, MakePayment, PaymentReturns, VerifyPayment,
                FinalizeMeltFails, DropMelt, storeVars, backVars
  <2>2. QED
    BY <2>1, Zenon DEF QuotesFinal, ProofsFinal, OutputsFinal
<1>6. QED
  BY <1>1, <1>2, <1>3, <1>4, <1>5, Zenon DEF MeltStep

LEMMA WorkerStepFinal ==
    ASSUME ProcInv, NEW w \in Workers, WorkerStep(w)
    PROVE  QuotesFinal /\ ProofsFinal /\ OutputsFinal
<1>1. CASE RollbackQuote(w)
  BY <1>1, RollbackFinal, Zenon DEF RollbackQuote
<1>2. CASE FinalizeQuote(w)
  <2> DEFINE q == work[w].quote
             ys == ProofYsByQuoteId(q)
  <2>1. CASE UNCHANGED <<proof, melt_quote>>
    BY <1>2, <2>1, Zenon DEF FinalizeQuote, QuotesFinal, ProofsFinal, OutputsFinal
  <2>2. CASE /\ FinalizeCoreOk(q, ys, work[w].spent, work[w].foreign) /\ FinalizeCore(q, ys)
    BY <1>2, <2>2, CoreFinal, Zenon DEF FinalizeQuote, OutputsFinal
  <2>3. QED
    BY <1>2, <2>1, <2>2, Zenon DEF FinalizeQuote, FinalizeQuoteOk
<1>3. CASE SignChange(w)
  <2>1. UNCHANGED <<proof, melt_quote>> /\ \E sigs : StoreChange(work[w].quote, sigs)
    BY <1>3, Zenon DEF SignChange
  <2>2. QED
    BY <2>1, StoredFinal, Zenon DEF QuotesFinal, ProofsFinal
<1>4. CASE CloseRequest(w)
  <2>1. UNCHANGED <<proof, melt_quote>> /\ DeleteMeltRequest(work[w].quote, blind_signature)
    BY <1>4, Zenon DEF CloseRequest
  <2>2. QED
    BY <2>1, DeletedFinal, Zenon DEF QuotesFinal, ProofsFinal
<1>5. CASE \/ FindSaga(w) \/ CheckPayment(w) \/ CollectSetup(w) \/ ReadSignatures(w) \/ DeleteSaga(w)
  <2>1. UNCHANGED <<proof, blind_signature, melt_quote>>
    BY <1>5, Zenon DEF FindSaga, CheckPayment, CollectSetup, ReadSignatures, DeleteSaga, storeVars, backVars
  <2>2. QED
    BY <2>1, Zenon DEF QuotesFinal, ProofsFinal, OutputsFinal
<1>6. QED
  BY <1>1, <1>2, <1>3, <1>4, <1>5, Zenon DEF WorkerStep

(* No step takes back a Paid quote, a Spent proof or a change signature,   *)
(* also when quotes are melted again.                                      *)
THEOREM MeltFinal == MeltSpec => MeltIsFinal
<1> DEFINE Final == /\ \A q \in Quotes : melt_quote[q] = "Paid" => melt_quote'[q] = "Paid"
                    /\ \A y \in MeltSpentYs : proof'[y] = proof[y]
                    /\ \A b \in MeltSignedOuts : blind_signature'[b] = blind_signature[b]
<1>1. ASSUME ProcInv, [MeltNext]_meltVars PROVE Final
  <2>1. QuotesFinal /\ ProofsFinal /\ OutputsFinal
    <3>1. CASE \E o \in MeltOps : MeltStep(o)
      BY <1>1, <3>1, MeltStepFinal, Zenon
    <3>2. CASE \E w \in Workers : WorkerStep(w)
      BY <1>1, <3>2, WorkerStepFinal, Zenon
    <3>3. CASE \/ \E o \in MeltOps : RecoverMeltSaga(o)
               \/ \E w \in Workers : WorkerFails(w)
               \/ \E w \in Workers, q \in Quotes : PollQuote(w, q)
               \/ \E l \in LookupIds : LnSettles(l)
               \/ \E l \in InternalIds : InvoicePaid(l)
               \/ RotateSignatory \/ StoreKeysets \/ MeltCrash \/ MeltStart \/ MeltStartDone
               \/ UNCHANGED meltVars
      <4>1. UNCHANGED <<proof, blind_signature, melt_quote>>
        BY <3>3, Zenon DEF RecoverMeltSaga, WorkerFails, PollQuote, LnSettles, InvoicePaid, RotateSignatory,
                    StoreKeysets, MeltCrash, MeltStart, MeltStartDone, meltVars, storeVars, backVars
      <4>2. QED
        BY <4>1, Zenon DEF QuotesFinal, ProofsFinal, OutputsFinal
    <3>4. QED
      BY <1>1, <3>1, <3>2, <3>3, Zenon DEF MeltNext
  <2>2. QED
    BY <2>1, Zenon DEF QuotesFinal, ProofsFinal, OutputsFinal, MeltSpentYs, MeltSignedOuts
<1>2. ProcInv /\ [MeltNext]_meltVars => [Final]_meltVars
  BY <1>1, Zenon
<1>3. MeltInit => ProcInv
  BY MeltInitProc, Zenon
<1>4. ProcInv /\ [MeltNext]_meltVars => ProcInv'
  BY MeltNextProc, Zenon
<1>5. QED
  BY <1>2, <1>3, <1>4, PTL DEF MeltSpec, MeltIsFinal, Final

=============================================================================
