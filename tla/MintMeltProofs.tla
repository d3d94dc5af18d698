--------------------------- MODULE MintMeltProofs ---------------------------
(***************************************************************************)
(* Proofs about the melt saga: every action is one of the steps of         *)
(* MintMeltTables, so the inductive invariant holds, and what follows from *)
(* it about payments, inputs and what clients are told.                    *)
(***************************************************************************)
EXTENDS MintMeltProcess, MintMeltTables

LEMMA InternalSettlementSafe ==
    ASSUME MeltInv, ProcInv', NEW o \in MeltOps, InternalSettlement(o)
    PROVE  MeltInv' /\ KeepsPaid
<1> DEFINE q == meltReq[o].quote
           l == LookupId[q]
<1>1. /\ mint = "up" /\ meltPc[o] = "setup" /\ "setup" \in LiveMeltPcs
      /\ UNCHANGED <<proof, blind_signature, told, melt_quote, melt_request, ln, meltReq, work>>
      /\ l = Lid(o)
  BY Zenon DEF InternalSettlement, Lid, LiveMeltPcs
<1>2. ToldOk
  BY <1>1, ToldStays, Zenon
<1>3. PICK pc : pc = "setup"
  BY Zenon
<1>4. OpSafe(o, pc) /\ pc = meltPc[o] /\ pc \in LiveMeltPcs
  BY <1>1, <1>3, Zenon DEF MeltInv
<1>5. Holds(o) /\ ln[Lid(o)].state = "none" /\ ~Settled(q) /\ q \in Quotes
  BY <1>1, <1>3, <1>4, Zenon DEF OpSafe, Holds, Started
<1>6. CASE l \notin InternalIds /\ GoTo(o, "external") /\ UNCHANGED <<saga_state, mint_payments>>
  <2>1. PICK c : c = "external"
    BY Zenon
  <2>2. QuietStep
    BY <1>1, <1>6, QuietFrame, Zenon
  <2>3. OpSafe(o, c)'
    <3>1. OpSafe(o, pc)' /\ Lid(o)' = Lid(o) /\ Lid(o) \notin InternalIds
      BY <1>1, <1>4, <1>6, <2>2, QuietOp, Zenon
    <3>2. QED
      BY <3>1, <1>3, <2>1, Zenon DEF OpSafe, LiveMeltPcs
  <2>4. QED
    BY <1>1, <1>2, <1>6, <2>1, <2>2, <2>3, QuietRequest, Zenon
<1>7. CASE GoTo(o, "compensating") /\ UNCHANGED <<saga_state, mint_payments>>
  <2>1. PICK c : c = "compensating"
    BY Zenon
  <2>2. QuietStep
    BY <1>1, <1>7, QuietFrame, Zenon
  <2>3. OpSafe(o, c)'
    BY <1>1, <1>3, <1>4, <1>5, <2>1, <2>2, QuietOp, Zenon DEF OpSafe
  <2>4. QED
    BY <1>1, <1>2, <1>7, <2>1, <2>2, <2>3, QuietRequest, Zenon
<1>8. CASE /\ l \in InternalIds /\ mint_payments[l] = {}
           /\ UpdateSaga(o, "PaymentAttempted")
           /\ mint_payments' = [mint_payments EXCEPT ![l] = {q}]
           /\ GoTo(o, "confirmed")
  <2>1. PICK c : c = "confirmed"
    BY Zenon
  <2>2. CreditStep(o, TRUE)
    <3>1. \A k \in InternalIds : mint_payments'[k] = IF k = l THEN {q} ELSE mint_payments[k]
      BY <1>8, Zenon DEF MeltInv, ProcInv, MeltShape
    <3>2. \A k \in InternalIds, p \in Quotes :
             p \in mint_payments'[k] <=> p \in mint_payments[k] \/ (k = Lid(o) /\ p = q)
      BY <3>1, <1>1, <1>8
    <3>3. /\ saga_state'[o] = IF saga_state[o] = "None" THEN "None" ELSE "PaymentAttempted"
          /\ \A p \in MeltOps \ {o} : saga_state'[p] = saga_state[p]
      BY <1>8, MeltAssumption, Zenon DEF UpdateSaga, MeltInv, ProcInv, MeltShape
    <3>4. QED
      BY <3>2, <3>3, <1>1, <1>5, Zenon DEF CreditStep
  <2>3. TableInv' /\ KeepsPaid /\ Stays({p \in MeltOps : Lid(p) # Lid(o)}, Pollers)
    BY <2>2, CreditTables, Zenon DEF MeltInv
  <2>4. Holds(o)' /\ PaymentMade(meltReq[o].quote)' /\ Settled(meltReq[o].quote)'
    <3>1. Holds(o)' /\ meltReq' = meltReq
      BY <1>1, <1>5, Zenon DEF Holds, Started, Reserved, Consumed
    <3>2. l \in InternalIds /\ q \in mint_payments'[l]
      BY <1>8, Zenon DEF MeltInv, ProcInv, MeltShape
    <3>3. QED
      BY <3>1, <3>2, Zenon DEF PaymentMade, Settled
  <2>5. OpSafe(o, c)'
    <3>1. Lid(o)' = Lid(o) /\ ln' = ln
      BY <1>1, Zenon DEF Lid
    <3>2. QED
      BY <1>5, <2>1, <2>4, <3>1, Zenon DEF OpSafe
  <2>6. QED
    BY <1>1, <1>2, <1>5, <1>8, <2>1, <2>3, <2>5, AloneOnInvoice, RequestSafe, Zenon
<1>9. QED
  BY <1>6, <1>7, <1>8, Zenon DEF InternalSettlement

LEMMA AttemptPaymentSafe ==
    ASSUME MeltInv, ProcInv', NEW o \in MeltOps, AttemptPayment(o)
    PROVE  MeltInv' /\ KeepsPaid
<1>1. /\ mint = "up" /\ meltPc[o] = "external" /\ "external" \in LiveMeltPcs
      /\ GoTo(o, "attempted") /\ UpdateSaga(o, "PaymentAttempted")
      /\ UNCHANGED <<proof, blind_signature, told, melt_quote, melt_request, mint_payments, ln, meltReq, work>>
  BY Zenon DEF AttemptPayment, LiveMeltPcs, backVars
<1>2. ToldOk
  BY <1>1, ToldStays, Zenon
<1>3. PICK c : c = "attempted"
  BY Zenon
<1>4. Holds(o) /\ ln[Lid(o)].state = "none" /\ ~Settled(meltReq[o].quote) /\ Lid(o) \notin InternalIds
  BY <1>1, Zenon DEF MeltInv, OpSafe
<1>5. /\ saga_state'[o] = IF saga_state[o] = "None" THEN "None" ELSE "PaymentAttempted"
      /\ \A p \in MeltOps \ {o} : saga_state'[p] = saga_state[p]
  BY <1>1, MeltAssumption, Zenon DEF UpdateSaga, MeltInv, ProcInv, MeltShape
<1>6. CreditStep(o, FALSE)
  BY <1>1, <1>4, <1>5, Zenon DEF CreditStep
<1>7. TableInv' /\ KeepsPaid /\ Stays({p \in MeltOps : Lid(p) # Lid(o)}, Pollers)
  BY <1>6, CreditTables, Zenon DEF MeltInv
<1>8. OpSafe(o, c)'
  <2>1. /\ Lid(o)' = Lid(o) /\ ln' = ln /\ Holds(o)' /\ ~Settled(meltReq[o].quote)'
    BY <1>1, <1>4, Zenon DEF Lid, Holds, Started, Reserved, Consumed, Settled
  <2>2. QED
    BY <1>3, <1>4, <1>5, <2>1, Zenon DEF OpSafe
<1>9. QED
  BY <1>1, <1>2, <1>3, <1>4, <1>7, <1>8, AloneOnInvoice, RequestSafe, Zenon

LEMMA MakePaymentSafe ==
    ASSUME MeltInv, ProcInv', NEW o \in MeltOps, MakePayment(o)
    PROVE  MeltInv' /\ KeepsPaid
<1> DEFINE l == LookupId[meltReq[o].quote]
<1>1. /\ mint = "up" /\ meltPc[o] = "attempted" /\ "attempted" \in LiveMeltPcs
      /\ GoTo(o, "paying") /\ l = Lid(o)
      /\ UNCHANGED <<proof, blind_signature, saga_state, told, melt_quote, melt_request, mint_payments,
                     meltReq, work>>
  BY Zenon DEF MakePayment, LiveMeltPcs, storeVars, Lid
<1>2. ToldOk
  BY <1>1, ToldStays, Zenon
<1>3. PICK c : c = "paying"
  BY Zenon
<1>4. /\ Holds(o) /\ ln[Lid(o)].state = "none" /\ ~Settled(meltReq[o].quote)
      /\ Lid(o) \notin InternalIds /\ saga_state[o] # "SetupComplete" /\ Lid(o) \in LookupIds
  BY <1>1, Zenon DEF MeltInv, OpSafe, Holds, Started, Lid, LookupIds
<1>5. CASE ln' = ln
  <2>1. QuietStep
    BY <1>1, <1>5, QuietFrame, Zenon
  <2>2. PICK pc : pc = meltPc[o]
    BY Zenon
  <2>3. OpSafe(o, c)'
    <3>1. OpSafe(o, pc) /\ pc = "attempted" /\ pc \in LiveMeltPcs
      BY <1>1, <2>2, Zenon DEF MeltInv
    <3>2. QED
      BY <1>3, <1>4, <2>1, <2>2, <3>1, QuietOp, Zenon DEF OpSafe
  <2>4. QED
    BY <1>1, <1>2, <1>3, <2>1, <2>3, QuietRequest, Zenon
<1>6. CASE ln' = [ln EXCEPT ![l] = [state |-> "inflight", by |-> o, fee |-> 0]]
  <2>1. /\ ln'[Lid(o)].state = "inflight" /\ ln'[Lid(o)].by = o
        /\ \A k \in LookupIds \ {Lid(o)} : ln'[k] = ln[k]
    BY <1>1, <1>4, <1>6 DEF MeltInv, ProcInv, MeltShape
  <2>2. PayStep(o)
    BY <1>1, <1>4, <2>1, Zenon DEF PayStep
  <2>3. TableInv' /\ KeepsPaid /\ Stays({p \in MeltOps : Lid(p) # Lid(o)}, Pollers)
    BY <2>2, PayTables, Zenon DEF MeltInv
  <2>4. OpSafe(o, c)'
    <3>1. Lid(o)' = Lid(o)
      BY <1>1, Zenon DEF Lid
    <3>2. QED
      BY <1>3, <1>4, <2>1, <3>1, Zenon DEF OpSafe
  <2>5. QED
    BY <1>1, <1>2, <1>3, <1>4, <2>3, <2>4, AloneOnInvoice, RequestSafe, Zenon
<1>7. QED
  BY <1>5, <1>6, Zenon DEF MakePayment

LEMMA PaymentReturnsSafe ==
    ASSUME MeltInv, ProcInv', NEW o \in MeltOps, PaymentReturns(o)
    PROVE  MeltInv' /\ KeepsPaid
<1>1. /\ mint = "up" /\ meltPc[o] = "paying" /\ "paying" \in LiveMeltPcs
      /\ UNCHANGED <<proof, blind_signature, saga_state, told, melt_quote, melt_request, mint_payments,
                     ln, meltReq, work>>
  BY Zenon DEF PaymentReturns, LiveMeltPcs, storeVars, backVars
<1>2. ToldOk /\ QuietStep
  BY <1>1, ToldStays, QuietFrame, Zenon
<1>3. PICK pc : pc = meltPc[o]
  BY Zenon
<1>4. OpSafe(o, pc) /\ pc = "paying" /\ pc \in LiveMeltPcs /\ Started(o)
  BY <1>1, <1>3, Zenon DEF MeltInv, ProcInv, StartedOk
<1>5. /\ OpSafe(o, pc)' /\ Lid(o)' = Lid(o) /\ meltReq'[o] = meltReq[o] /\ ln' = ln
      /\ Holds(o)' <=> Holds(o)
      /\ PaymentMade(meltReq[o].quote)' <=> PaymentMade(meltReq[o].quote)
  BY <1>2, <1>3, <1>4, QuietOp, Zenon
<1>6. CASE GoTo(o, "confirmed") /\ ln[Lid(o)].state = "paid" /\ ln[Lid(o)].by = o
  <2>1. PICK c : c = "confirmed"
    BY Zenon
  <2>2. Holds(o) /\ PaymentMade(meltReq[o].quote)
    BY <1>4, <1>6, PaidHolds, Zenon
  <2>3. OpSafe(o, c)'
    BY <1>4, <1>5, <2>1, <2>2, Zenon DEF OpSafe
  <2>4. QED
    BY <1>1, <1>2, <1>6, <2>1, <2>3, QuietRequest, Zenon
<1>7. CASE GoTo(o, "verifyPending")
  <2>1. PICK c : c = "verifyPending"
    BY Zenon
  <2>2. OpSafe(o, c)'
    BY <1>4, <1>5, <2>1, Zenon DEF OpSafe
  <2>3. QED
    BY <1>1, <1>2, <1>7, <2>1, <2>2, QuietRequest, Zenon
<1>8. CASE GoTo(o, "verify")
  <2>1. PICK c : c = "verify"
    BY Zenon
  <2>2. OpSafe(o, c)'
    BY <1>4, <1>5, <2>1, Zenon DEF OpSafe
  <2>3. QED
    BY <1>1, <1>2, <1>8, <2>1, <2>2, QuietRequest, Zenon
<1>9. QED
  BY <1>6, <1>7, <1>8, Zenon DEF PaymentReturns, Lid

LEMMA VerifyPaymentSafe ==
    ASSUME MeltInv, ProcInv', NEW o \in MeltOps, VerifyPayment(o)
    PROVE  MeltInv' /\ KeepsPaid
<1> DEFINE lag == LnLag /\ meltPc[o] = "verifyPending"
<1>1. /\ mint = "up" /\ meltPc[o] \in {"verify", "verifyPending"} /\ meltPc[o] \in LiveMeltPcs
      /\ UNCHANGED <<proof, blind_signature, saga_state, told, melt_quote, melt_request, mint_payments,
                     ln, meltReq, work>>
  BY Zenon DEF VerifyPayment, LiveMeltPcs, storeVars, backVars
<1>2. ToldOk /\ QuietStep
  BY <1>1, ToldStays, QuietFrame, Zenon
<1>3. PICK pc : pc = meltPc[o]
  BY Zenon
<1>4. OpSafe(o, pc) /\ pc \in {"verify", "verifyPending"} /\ pc \in LiveMeltPcs /\ Started(o)
  BY <1>1, <1>3, Zenon DEF MeltInv, ProcInv, StartedOk
<1>5. /\ OpSafe(o, pc)' /\ Lid(o)' = Lid(o) /\ meltReq'[o] = meltReq[o] /\ ln' = ln
      /\ Holds(o)' <=> Holds(o)
      /\ Settled(meltReq[o].quote)' <=> Settled(meltReq[o].quote)
      /\ PaymentMade(meltReq[o].quote)' <=> PaymentMade(meltReq[o].quote)
  BY <1>2, <1>3, <1>4, QuietOp, Zenon
<1>6. PICK s \in CheckOutgoingPayment(Lid(o)) \cup (IF lag THEN {"Unknown"} ELSE {}) :
         GoTo(o, Verified(meltPc[o], s))
  BY Zenon DEF VerifyPayment, Lid
<1>7. Lid(o) \in LookupIds /\ ln[Lid(o)].state \in {"none", "inflight", "paid", "failed"}
  BY <1>4 DEF Started, Lid, LookupIds, MeltInv, ProcInv, MeltShape
<1>8. /\ s \in {"Unknown", "Pending", "Paid", "Failed", "error"}
      /\ s = "Paid" => ln[Lid(o)].state = "paid"
      /\ s = "Failed" => ln[Lid(o)].state = "failed"
      /\ s = "Unknown" => ln[Lid(o)].state = "none" \/ pc = "verifyPending"
  BY <1>3, <1>6, <1>7, Zenon DEF CheckOutgoingPayment
<1>9. PICK c : c = Verified(meltPc[o], s)
  BY Zenon
<1>10. CASE s = "Paid"
  <2>1. c = "confirmed"
    BY <1>9, <1>10, Zenon DEF Verified
  <2>2. ln[Lid(o)].state = "paid" /\ ln[Lid(o)].by = o
    BY <1>4, <1>8, <1>10, Zenon DEF OpSafe
  <2>3. Holds(o) /\ PaymentMade(meltReq[o].quote)
    BY <1>4, <2>2, PaidHolds, Zenon
  <2>4. OpSafe(o, c)'
    BY <1>4, <1>5, <2>1, <2>3, Zenon DEF OpSafe
  <2>5. QED
    BY <1>1, <1>2, <1>6, <1>9, <2>4, QuietRequest, Zenon
<1>11. CASE s = "Failed" \/ (s = "Unknown" /\ pc # "verifyPending")
  <2>1. c = "compensating"
    BY <1>3, <1>9, <1>11, Zenon DEF Verified
  <2>2. ln[Lid(o)].state \in {"none", "failed"}
    BY <1>8, <1>11, Zenon
  <2>3. ~Settled(meltReq[o].quote)
    BY <1>4, Zenon DEF OpSafe, Settled, Lid
  <2>4. OpSafe(o, c)'
    BY <1>4, <1>5, <2>1, <2>2, <2>3, Zenon DEF OpSafe
  <2>5. QED
    BY <1>1, <1>2, <1>6, <1>9, <2>4, QuietRequest, Zenon
<1>12. CASE s \in {"Pending", "error"} \/ (s = "Unknown" /\ pc = "verifyPending")
  <2>1. c = "failed"
    BY <1>3, <1>9, <1>12, Zenon DEF Verified
  <2>2. OpSafe(o, c)'
    BY <2>1, Zenon DEF OpSafe, LiveMeltPcs
  <2>3. QED
    BY <1>1, <1>2, <1>6, <1>9, <2>2, QuietRequest, Zenon
<1>13. QED
  BY <1>8, <1>10, <1>11, <1>12, Zenon

LEMMA DropMeltSafe ==
    ASSUME MeltInv, ProcInv', NEW o \in MeltOps, DropMelt(o)
    PROVE  MeltInv' /\ KeepsPaid
<1>1. /\ mint = "up" /\ GoTo(o, "failed")
      /\ UNCHANGED <<proof, blind_signature, saga_state, told, melt_quote, melt_request, mint_payments,
                     ln, meltReq, work>>
  BY Zenon DEF DropMelt, storeVars, backVars
<1>2. ToldOk /\ QuietStep
  BY <1>1, ToldStays, QuietFrame, Zenon
<1>3. PICK c : c = "failed"
  BY Zenon
<1>4. OpSafe(o, c)'
  BY <1>3, Zenon DEF OpSafe, LiveMeltPcs
<1>5. QED
  BY <1>1, <1>2, <1>3, <1>4, QuietRequest, Zenon

LEMMA FinalizeMeltFailsSafe ==
    ASSUME MeltInv, ProcInv', NEW o \in MeltOps, FinalizeMeltFails(o)
    PROVE  MeltInv' /\ KeepsPaid
<1>1. /\ mint = "up" /\ GoTo(o, "failed") /\ meltPc[o] = "confirmed"
      /\ told' = told \/ Publish(meltReq[o].ys, "Spent")
      /\ UNCHANGED <<proof, blind_signature, saga_state, melt_quote, melt_request, mint_payments,
                     ln, meltReq, work>>
  BY Zenon DEF FinalizeMeltFails, storeVars, backVars
<1>2. Holds(o) /\ PaymentMade(meltReq[o].quote)
  BY <1>1, Zenon DEF MeltInv, OpSafe
<1>3. ToldOk /\ QuietStep
  BY <1>1, <1>2, ToldPaid, QuietFrame, Zenon
<1>4. PICK c : c = "failed"
  BY Zenon
<1>5. OpSafe(o, c)'
  BY <1>4, Zenon DEF OpSafe, LiveMeltPcs
<1>6. QED
  BY <1>1, <1>3, <1>4, <1>5, QuietRequest, Zenon

LEMMA FinalizeMeltSafe ==
    ASSUME MeltInv, ProcInv', NEW o \in MeltOps, FinalizeMelt(o)
    PROVE  MeltInv' /\ KeepsPaid
<1> DEFINE q == meltReq[o].quote
           ys == meltReq[o].ys
<1>1. /\ mint = "up" /\ meltPc[o] = "confirmed" /\ melt_request[q] # NoOp
      /\ melt_quote' = [melt_quote EXCEPT ![q] = "Paid"]
      /\ proof' = UpdateProofsState(proof, ys, "Spent")
      /\ Publish(ys, "Spent")
      /\ UNCHANGED <<mint_payments, ln, meltReq, work>>
  BY Zenon DEF FinalizeMelt, FinalizeCore, FinalizeMeltOk
<1>2. Holds(o) /\ PaymentMade(q)
  BY <1>1, Zenon DEF MeltInv, OpSafe
<1>3. q \in Quotes /\ ys \in SUBSET Ys /\ saga_state[o] # "None"
  BY <1>1, <1>2, HolderState, Zenon
<1>4. /\ \A y \in Ys : /\ proof'[y].op = proof[y].op
                       /\ proof'[y].state = IF y \in ys THEN "Spent" ELSE proof[y].state
      /\ \A p \in Quotes : melt_quote'[p] = IF p = q THEN "Paid" ELSE melt_quote[p]
  <2>1. ProcInv
    BY Zenon DEF MeltInv
  <2>2. \A p \in Quotes : melt_quote'[p] = IF p = q THEN "Paid" ELSE melt_quote[p]
    BY <1>1, <2>1, TableDomains, Zenon
  <2>3. \A y \in Ys : /\ proof'[y].op = proof[y].op
                      /\ proof'[y].state = IF y \in ys THEN "Spent" ELSE proof[y].state
    BY <1>1, <1>3, <2>1, SpentRows, Zenon
  <2>4. QED
    BY <2>2, <2>3, Zenon
<1>5. ToldOk
  BY <1>1, <1>2, ToldPaid, Zenon
<1>6. CASE /\ DeleteMeltRequest(q, blind_signature) /\ DeleteMeltSaga(o) /\ GoTo(o, "done")
  <2>1. OutputsStay /\ RequestGone(q)
    BY <1>1, <1>3, <1>6, DeleteRequestRows, Zenon DEF MeltInv
  <2>2. saga_state'[o] = "None" /\ \A p \in MeltOps \ {o} : saga_state'[p] = saga_state[p]
    BY <1>6, MeltAssumption, Zenon DEF DeleteMeltSaga, MeltInv, ProcInv, MeltShape
  <2>3. FinishStep(o, q)
    BY <1>1, <1>2, <1>3, <1>4, <2>1, <2>2, Zenon DEF FinishStep, RequestGone
  <2>4. PICK c : c = "done"
    BY Zenon
  <2>5. c \notin LiveMeltPcs
    BY <2>4, Zenon DEF LiveMeltPcs
  <2>6. QED
    BY <1>1, <1>3, <1>5, <1>6, <2>3, <2>4, <2>5, FinishRequest, Zenon
<1>7. CASE /\ UpdateSaga(o, "Finalizing") /\ GoTo(o, "change")
           /\ UNCHANGED <<blind_signature, melt_request>>
  <2>1. OutputsStay
    BY <1>1, <1>7, Zenon DEF OutputsStay
  <2>2. saga_state'[o] = "Finalizing" /\ \A p \in MeltOps \ {o} : saga_state'[p] = saga_state[p]
    BY <1>3, <1>7, MeltAssumption, Zenon DEF UpdateSaga, MeltInv, ProcInv, MeltShape
  <2>3. FinishStep(o, q)
    BY <1>1, <1>2, <1>3, <1>4, <1>7, <2>1, <2>2, Zenon DEF FinishStep
  <2>4. PICK c : c = "change"
    BY Zenon
  <2>5. QED
    BY <1>1, <1>3, <1>5, <1>7, <2>3, <2>4, FinishRequest, Zenon
<1>8. QED
  BY <1>6, <1>7, Zenon DEF FinalizeMelt, CompleteMelt

LEMMA ChangeMeltSafe ==
    ASSUME MeltInv, ProcInv', NEW o \in MeltOps, ChangeMelt(o)
    PROVE  MeltInv' /\ KeepsPaid
<1> DEFINE q == meltReq[o].quote
<1>1. /\ mint = "up" /\ meltPc[o] = "change" /\ DeleteMeltSaga(o) /\ GoTo(o, "done")
      /\ UNCHANGED <<proof, told, melt_quote, mint_payments, ln, meltReq, work>>
      /\ \E sigs : StoreChange(q, sigs)
  BY Zenon DEF ChangeMelt, CompleteMelt
<1>2. Holds(o) /\ melt_quote[q] = "Paid"
  BY <1>1, Zenon DEF MeltInv, OpSafe
<1>3. q \in Quotes
  BY <1>2, HolderState, Zenon
<1>4. OutputsStay /\ RequestGone(q)
  BY <1>1, <1>3, StoredChange, Zenon DEF MeltInv
<1>5. saga_state'[o] = "None" /\ \A p \in MeltOps \ {o} : saga_state'[p] = saga_state[p]
  BY <1>1, MeltAssumption, Zenon DEF DeleteMeltSaga, MeltInv, ProcInv, MeltShape
<1>6. FinishStep(o, q)
  BY <1>1, <1>2, <1>3, <1>4, <1>5, ClosingFinishes, Zenon
<1>7. PICK c : c = "done"
  BY Zenon
<1>8. c \notin LiveMeltPcs /\ ToldOk
  BY <1>1, <1>7, ToldStays, Zenon DEF LiveMeltPcs
<1>9. QED
  BY <1>1, <1>3, <1>6, <1>7, <1>8, FinishRequest, Zenon

LEMMA CompensateMeltSafe ==
    ASSUME MeltInv, ProcInv', NEW o \in MeltOps, CompensateMelt(o)
    PROVE  MeltInv' /\ KeepsPaid
<1> DEFINE q == meltReq[o].quote
<1>1. /\ mint = "up" /\ meltPc[o] = "compensating" /\ GoTo(o, "failed")
      /\ RollbackMeltQuote(o, q, meltReq[o].ys, meltReq[o].bs)
      /\ UNCHANGED <<meltReq, work>>
  BY Zenon DEF CompensateMelt
<1>2. /\ ln[Lid(o)].state \in {"none", "failed"} /\ ~Settled(q)
      /\ IF ln[Lid(o)].state = "none" THEN Holds(o) ELSE ln[Lid(o)].by = o
  BY <1>1, Zenon DEF MeltInv, OpSafe, LiveMeltPcs
<1>3. Started(o) /\ q \in Quotes /\ Lid(o) \in LookupIds
  BY <1>1, Zenon DEF MeltInv, ProcInv, StartedOk, Started, Lid, LookupIds
<1>4. PICK c : c = "failed"
  BY Zenon
<1>5. OpSafe(o, c)'
  BY <1>4, Zenon DEF OpSafe, LiveMeltPcs
<1>6. CASE UNCHANGED <<storeVars, told, backVars>>
  <2>1. QuietStep /\ ToldOk
    BY <1>1, <1>6, QuietFrame, ToldStays, Zenon DEF storeVars, backVars
  <2>2. QED
    BY <1>1, <1>4, <1>5, <2>1, QuietRequest, Zenon
<1>7. CASE RollbackOk(q) /\ RollbackTx(o, q, meltReq[o].ys, meltReq[o].bs)
  <2>1. melt_quote[q] = "Pending"
    BY <1>3, <1>7, Zenon DEF RollbackOk, CheckMeltQuoteStateTransition, MeltInv, ProcInv, MeltShape
  <2>2. PICK r \in MeltOps : Holds(r) /\ meltReq[r].quote = q
    BY <1>3, <2>1, PendingHolder, Zenon
  <2>3. Holds(o)
    <3>1. CASE ln[Lid(o)].state = "none"
      BY <1>2, <3>1, Zenon
    <3>2. CASE ln[Lid(o)].state = "failed"
      <4>1. r = o
        BY <1>2, <1>3, <2>2, <3>2, Zenon DEF MeltInv, TableInv, LnRows, LnRow, Lid
      <4>2. QED
        BY <2>2, <4>1, Zenon
    <3>3. QED
      BY <1>2, <3>1, <3>2, Zenon
  <2>4. ReturnStep(o, q) /\ ToldOk
    BY <1>1, <1>2, <1>3, <1>7, <2>3, RollbackReturns, Zenon DEF Lid
  <2>5. TableInv' /\ KeepsPaid /\ Stays(MeltOps \ {o}, Pollers)
    BY <1>3, <2>4, ReturnTables, Zenon DEF MeltInv
  <2>6. QED
    BY <1>1, <1>4, <1>5, <2>4, <2>5, RequestSafe, Zenon
<1>8. QED
  BY <1>1, <1>6, <1>7, Zenon DEF RollbackMeltQuote

LEMMA SetupMeltSafe ==
    ASSUME MeltInv, ProcInv', NEW o \in MeltOps, ~Retries, SetupMelt(o)
    PROVE  MeltInv' /\ KeepsPaid
<1>1. PICK q \in Quotes, ys \in (SUBSET Ys) \ {{}}, bs \in SUBSET Outs :
         /\ ln[LookupId[q]].state # "failed"
         /\ NoConflict(q) /\ AddProofsOk(proof, ys)
         /\ melt_quote[q] \in {"Unpaid", "Failed"}
         /\ proof' = UpdateProofsState(AddProofs(proof, ys, o), ys, "Pending")
         /\ blind_signature' = AddBlindedMessages(blind_signature, bs, o)
         /\ melt_quote' = [melt_quote EXCEPT ![q] = "Pending"]
         /\ melt_request' = [melt_request EXCEPT ![q] = o]
         /\ meltReq' = [meltReq EXCEPT ![o] = [quote |-> q, ys |-> ys, bs |-> bs]]
         /\ Publish(ys, "Pending")
  BY Zenon DEF SetupMelt
<1>2. /\ mint = "up" /\ meltPc[o] = "idle" /\ GoTo(o, "setup")
      /\ saga_state' = [saga_state EXCEPT ![o] = "SetupComplete"]
      /\ UNCHANGED <<mint_payments, ln, work>>
  BY Zenon DEF SetupMelt
<1>3. ToldOk
  BY <1>1, Zenon DEF ToldOk, Publish
<1>4. SetupStep(o, q, ys, bs)
  <2>1. ~Started(o) /\ ys \subseteq Ys /\ ys # {} /\ melt_quote[q] = "Unpaid"
    BY <1>1, <1>2, Zenon DEF MeltInv, ProcInv, StartedOk, MeltShape
  <2>2. \A y \in ys : proof[y].state = "None" /\ proof'[y].state = "Pending" /\ proof'[y].op = o
    BY <1>1, <2>1, Zenon DEF AddProofsOk, UpdateProofsState, AddProofs
  <2>3. \A y \in Ys \ ys : proof'[y] = proof[y]
    BY <1>1, Zenon DEF UpdateProofsState, AddProofs
  <2>4. /\ \A p \in Quotes : melt_quote'[p] = IF p = q THEN "Pending" ELSE melt_quote[p]
        /\ \A p \in Quotes : melt_request'[p] = IF p = q THEN o ELSE melt_request[p]
        /\ meltReq'[o] = [quote |-> q, ys |-> ys, bs |-> bs]
        /\ \A p \in MeltOps \ {o} : meltReq'[p] = meltReq[p]
    BY <1>1 DEF MeltInv, ProcInv, MeltShape
  <2>5. \A p \in MeltOps : saga_state'[p] = IF p = o THEN "SetupComplete" ELSE saga_state[p]
    BY <1>2, MeltAssumption, Zenon DEF MeltInv, ProcInv, MeltShape
  <2>6. \A b \in Outs : blind_signature'[b].state = "Unsigned" =>
           blind_signature'[b].op = o \/ blind_signature'[b] = blind_signature[b]
    BY <1>1, Zenon DEF AddBlindedMessages
  <2>7. QED
    BY <1>1, <1>2, <2>1, <2>2, <2>3, <2>4, <2>5, <2>6, Zenon DEF SetupStep
<1>5. PICK c : c = "setup"
  BY Zenon
<1>6. TableInv' /\ KeepsPaid /\ Stays(MeltOps, Pollers) /\ OpSafe(o, c)'
  BY <1>4, <1>5, SetupTables, Zenon DEF MeltInv
<1>7. QED
  BY <1>2, <1>3, <1>5, <1>6, RequestSafe, Zenon

LEMMA MeltStepSafe ==
    ASSUME MeltInv, ProcInv', ~Retries, NEW o \in MeltOps, MeltStep(o)
    PROVE  MeltInv' /\ KeepsPaid
BY Zenon, SetupMeltSafe, InternalSettlementSafe, AttemptPaymentSafe, MakePaymentSafe, PaymentReturnsSafe,
   VerifyPaymentSafe, FinalizeMeltSafe, FinalizeMeltFailsSafe, ChangeMeltSafe, CompensateMeltSafe,
   DropMeltSafe
   DEF MeltStep

LEMMA PollQuoteSafe ==
    ASSUME MeltInv, ProcInv', NEW w \in Workers, NEW q \in Quotes, PollQuote(w, q)
    PROVE  MeltInv' /\ KeepsPaid
<1>1. PICK rec : rec = [Idle EXCEPT !.pc = "find", !.quote = q]
  BY Zenon
<1>2. /\ Active(w) /\ work' = [work EXCEPT ![w] = rec] /\ meltPc' = meltPc /\ told' = told
      /\ UNCHANGED <<proof, blind_signature, saga_state, melt_quote, melt_request, mint_payments, ln,
                     meltReq>>
  BY <1>1, Zenon DEF PollQuote, WorkerAt, Becomes, storeVars, backVars
<1>3. QuietStep /\ ToldOk
  BY <1>2, QuietFrame, ToldStays, Zenon
<1>4. WorkSafe(w, rec)
  BY <1>1, Zenon DEF WorkSafe, Idle
<1>5. QED
  BY <1>2, <1>3, <1>4, QuietWorker, Zenon

LEMMA FindSagaSafe ==
    ASSUME MeltInv, ProcInv', NEW w \in Workers, FindSaga(w)
    PROVE  MeltInv' /\ KeepsPaid
<1>1. /\ Active(w) /\ meltPc' = meltPc /\ told' = told
      /\ UNCHANGED <<proof, blind_signature, saga_state, melt_quote, melt_request, mint_payments, ln,
                     meltReq>>
  BY Zenon DEF FindSaga, WorkerAt, storeVars, backVars
<1>2. QuietStep /\ ToldOk
  BY <1>1, QuietFrame, ToldStays, Zenon
<1>3. CASE work' = [work EXCEPT ![w] = Idle]
  BY <1>1, <1>2, <1>3, IdleSafe, QuietWorker, Zenon
<1>4. CASE \E o \in MeltSagas(work[w].quote) : work' = [work EXCEPT ![w].op = o, ![w].pc = "check"]
  <2>1. PICK o \in MeltSagas(work[w].quote) : work' = [work EXCEPT ![w].op = o, ![w].pc = "check"]
    BY <1>4, Zenon
  <2>2. PICK rec : rec = [work[w] EXCEPT !.op = o, !.pc = "check"]
    BY Zenon
  <2>3. work[w] \in WorkRecord /\ work \in [Workers -> WorkRecord]
    BY Zenon DEF MeltInv, ProcInv, MeltShape
  <2>4. work' = [work EXCEPT ![w] = rec]
    BY <2>1, <2>2, <2>3, Zenon
  <2>5. rec.pc = "check" /\ rec.op = o /\ rec.quote = work[w].quote
    BY <2>2, <2>3, Zenon DEF WorkRecord
  <2>6. Started(o) /\ meltReq[o].quote = work[w].quote
    BY <2>1, Zenon DEF MeltSagas, OfQuote, MeltInv, ProcInv, StartedOk
  <2>7. WorkSafe(w, rec)
    BY <2>5, <2>6, Zenon DEF WorkSafe
  <2>8. QED
    BY <1>1, <1>2, <2>4, <2>7, QuietWorker, Zenon
<1>5. QED
  BY <1>3, <1>4, Zenon DEF FindSaga, Becomes

LEMMA CheckPaymentSafe ==
    ASSUME MeltInv, ProcInv', NEW w \in Workers, CheckPayment(w)
    PROVE  MeltInv' /\ KeepsPaid
<1> DEFINE q == work[w].quote
<1>1. /\ Active(w) /\ meltPc' = meltPc /\ told' = told /\ work[w].pc = "check"
      /\ UNCHANGED <<proof, blind_signature, saga_state, melt_quote, melt_request, mint_payments, ln,
                     meltReq>>
  BY Zenon DEF CheckPayment, WorkerAt, storeVars, backVars
<1>2. QuietStep /\ ToldOk
  BY <1>1, QuietFrame, ToldStays, Zenon
<1>3. PICK s \in CheckOutgoingPayment(LookupId[q]) :
         work' = [work EXCEPT ![w] =
                     IF Outcome(s) = "idle" THEN Idle
                     ELSE [work[w] EXCEPT !.pc = Outcome(s),
                              !.spent = IF s = "Paid" THEN TotalSpent(q) ELSE 0,
                              !.foreign = MsatChecks]]
  BY Zenon DEF CheckPayment, Becomes
<1>4. /\ work[w] \in WorkRecord /\ q \in Quotes /\ Started(work[w].op) /\ meltReq[work[w].op].quote = q
      /\ ln[LookupId[q]].state \in {"none", "inflight", "paid", "failed"}
  <2>1. WorkSafe(w, work[w]) /\ work[w] \in WorkRecord
    BY Zenon DEF MeltInv, ProcInv, MeltShape
  <2>2. Started(work[w].op) /\ meltReq[work[w].op].quote = q
    BY <1>1, <2>1, Zenon DEF WorkSafe
  <2>3. q \in Quotes /\ LookupId[q] \in LookupIds
    BY <2>2, Zenon DEF Started, LookupIds
  <2>4. QED
    BY <2>1, <2>2, <2>3, Zenon DEF MeltInv, ProcInv, MeltShape
<1>5. /\ s \in {"Unknown", "Pending", "Paid", "Failed", "error"}
      /\ s = "Paid" => ln[LookupId[q]].state = "paid"
      /\ s = "Failed" => ln[LookupId[q]].state = "failed"
  BY <1>3, <1>4, Zenon DEF CheckOutgoingPayment
<1>6. CASE s \notin {"Paid", "Failed"}
  <2>1. work' = [work EXCEPT ![w] = Idle]
    BY <1>3, <1>5, <1>6, Zenon DEF Outcome
  <2>2. QED
    BY <1>1, <1>2, <2>1, IdleSafe, QuietWorker, Zenon
<1>7. CASE s \in {"Paid", "Failed"}
  <2>1. PICK rec : rec = [work[w] EXCEPT !.pc = Outcome(s),
                             !.spent = IF s = "Paid" THEN TotalSpent(q) ELSE 0,
                             !.foreign = MsatChecks]
    BY Zenon
  <2>2. work' = [work EXCEPT ![w] = rec]
    BY <1>3, <1>7, <2>1, Zenon DEF Outcome
  <2>3. /\ rec.op = work[w].op /\ rec.quote = q
        /\ rec.pc = IF s = "Paid" THEN "finalize" ELSE "collect"
    BY <1>4, <1>7, <2>1, Zenon DEF WorkRecord, Outcome
  <2>4. WorkSafe(w, rec)
    BY <1>4, <1>5, <1>7, <2>3, Zenon DEF WorkSafe
  <2>5. QED
    BY <1>1, <1>2, <2>2, <2>4, QuietWorker, Zenon
<1>8. QED
  BY <1>6, <1>7, Zenon

(* What a rollback finds in the tables: the inputs, if the melt holds      *)
(* them.                                                                   *)
LEMMA CollectedSafe ==
    ASSUME MeltInv, NEW w \in Workers, NEW base \in WorkRecord, NEW rec,
           Started(base.op), meltReq[base.op].quote = base.quote,
           \/ ln[LookupId[base.quote]].state = "failed"
           \/ w = "recovery" /\ saga_state[base.op] = "SetupComplete",
           rec = Collected(base)
    PROVE  WorkSafe(w, rec)
<1> DEFINE o == base.op
           ys == ProofYsByOperationId(proof, o)
<1>1. rec.pc = "rollback" /\ rec.op = o /\ rec.quote = base.quote /\ rec.ys = ys
  BY Zenon DEF Collected, WorkRecord
<1>2. o \in MeltOps
  BY Zenon DEF Started
<1>3. \A y \in ys : y \in Ys /\ Holds(o) /\ y \in meltReq[o].ys
  BY <1>2, Zenon DEF ProofYsByOperationId, MeltInv, TableInv, ProofRows
<1>4. ASSUME Holds(o) PROVE ys = meltReq[o].ys
  <2>1. meltReq[o].ys \subseteq Ys
    BY <1>2, Zenon DEF MeltInv, ProcInv, MeltShape
  <2>2. meltReq[o].ys \subseteq ys
    BY <1>4, <2>1, Zenon DEF Holds, Reserved, Consumed, ProofYsByOperationId
  <2>3. QED
    BY <1>3, <2>2, Zenon
<1>5. ASSUME ys # {}, NEW p \in MeltOps, Holds(p), Lid(p) = LookupId[base.quote] PROVE p = o
  BY <1>2, <1>3, <1>5, Zenon DEF MeltInv, TableInv, OneHolder, Lid
<1> HIDE DEF ys, o
<1>6. QED
  BY <1>1, <1>4, <1>5, Zenon DEF WorkSafe, o

LEMMA CollectSetupSafe ==
    ASSUME MeltInv, ProcInv', NEW w \in Workers, CollectSetup(w)
    PROVE  MeltInv' /\ KeepsPaid
<1>1. PICK rec : rec = Collected(work[w])
  BY Zenon
<1>2. /\ Active(w) /\ meltPc' = meltPc /\ told' = told /\ work[w].pc = "collect"
      /\ work' = [work EXCEPT ![w] = rec]
      /\ UNCHANGED <<proof, blind_signature, saga_state, melt_quote, melt_request, mint_payments, ln,
                     meltReq>>
  BY <1>1, Zenon DEF CollectSetup, WorkerAt, Becomes, storeVars, backVars
<1>3. QuietStep /\ ToldOk
  BY <1>2, QuietFrame, ToldStays, Zenon
<1>4. PICK base : base = work[w]
  BY Zenon
<1>5. base \in WorkRecord /\ WorkSafe(w, base) /\ base.pc = "collect"
  BY <1>2, <1>4, Zenon DEF MeltInv, ProcInv, MeltShape
<1>6. WorkSafe(w, rec)
  <2>1. /\ Started(base.op) /\ meltReq[base.op].quote = base.quote
        /\ ln[LookupId[base.quote]].state = "failed"
    BY <1>5, Zenon DEF WorkSafe
  <2>2. rec = Collected(base)
    BY <1>1, <1>4, Zenon DEF Collected
  <2>3. QED
    BY <1>5, <2>1, <2>2, CollectedSafe, Zenon
<1>7. QED
  BY <1>2, <1>3, <1>6, QuietWorker, Zenon

LEMMA ReadSignaturesSafe ==
    ASSUME MeltInv, ProcInv', NEW w \in Workers, ReadSignatures(w)
    PROVE  MeltInv' /\ KeepsPaid
<1>1. PICK c \in {"sign", "close"} : work' = [work EXCEPT ![w].pc = c]
  BY Zenon DEF ReadSignatures, Moves
<1>2. /\ Active(w) /\ meltPc' = meltPc /\ told' = told /\ work[w].pc = "sigs"
      /\ UNCHANGED <<proof, blind_signature, saga_state, melt_quote, melt_request, mint_payments, ln,
                     meltReq>>
  BY Zenon DEF ReadSignatures, WorkerAt, storeVars, backVars
<1>3. QuietStep /\ ToldOk
  BY <1>2, QuietFrame, ToldStays, Zenon
<1>4. PICK rec : rec = [work[w] EXCEPT !.pc = c]
  BY Zenon
<1>5. work' = [work EXCEPT ![w] = rec]
  BY <1>1, <1>4, Zenon
<1>6. work[w] \in WorkRecord /\ WorkSafe(w, work[w])
  BY Zenon DEF MeltInv, ProcInv, MeltShape
<1>7. rec.pc = c /\ rec.op = work[w].op /\ rec.quote = work[w].quote
  BY <1>4, <1>6, Zenon DEF WorkRecord
<1>8. WorkSafe(w, rec)
  BY <1>1, <1>2, <1>6, <1>7, Zenon DEF WorkSafe
<1>9. QED
  BY <1>2, <1>3, <1>5, <1>8, QuietWorker, Zenon

LEMMA FinalizeQuoteSafe ==
    ASSUME MeltInv, ProcInv', NEW w \in Workers, FinalizeQuote(w)
    PROVE  MeltInv' /\ KeepsPaid
<1> DEFINE q == work[w].quote
           ys == ProofYsByQuoteId(q)
<1>1. /\ Active(w) /\ meltPc' = meltPc /\ work[w].pc = "finalize"
      /\ FinalizeQuoteOk(w)
      /\ UNCHANGED <<blind_signature, saga_state, melt_request, mint_payments, ln, meltReq>>
  BY Zenon DEF FinalizeQuote, WorkerAt
<1>2. /\ work[w] \in WorkRecord /\ WorkSafe(w, work[w]) /\ q \in Quotes
      /\ work[w].op \in MeltOps /\ meltReq[work[w].op].quote = q
  <2>1. work[w] \in WorkRecord /\ WorkSafe(w, work[w])
    BY Zenon DEF MeltInv, ProcInv, MeltShape
  <2>2. Started(work[w].op) /\ meltReq[work[w].op].quote = q
    BY <1>1, <2>1, Zenon DEF WorkSafe
  <2>3. QED
    BY <2>1, <2>2, Zenon DEF Started
<1>3. PICK o \in MeltOps : o = work[w].op
  BY <1>2, Zenon
<1>4. CASE NothingToFinalize(q)
  <2>1. PICK rec : rec = [work[w] EXCEPT !.pc = "delete"]
    BY Zenon
  <2>2. /\ work' = [work EXCEPT ![w] = rec]
        /\ UNCHANGED <<proof, melt_quote, told>>
    BY <1>4, <2>1, Zenon DEF FinalizeQuote, Moves
  <2>3. QuietStep /\ ToldOk
    BY <1>1, <2>2, QuietFrame, ToldStays, Zenon
  <2>4. rec.pc = "delete" /\ rec.op = o /\ rec.quote = q
    BY <1>2, <1>3, <2>1, Zenon DEF WorkRecord
  <2>5. ASSUME Holds(o) PROVE melt_quote[q] = "Paid" /\ melt_request[q] = NoOp
    <3>1. meltReq[o].quote = q /\ meltReq[o].ys # {} /\ meltReq[o].ys \subseteq Ys
      BY <1>2, <1>3, <2>5, HolderState, Zenon
    <3>2. meltReq[o].ys \subseteq ys
      BY <2>5, <3>1, Zenon DEF ProofYsByQuoteId, OfQuote, Holds, Reserved, Consumed
    <3>3. melt_request[q] = NoOp
      BY <1>4, <3>1, <3>2, Zenon DEF NothingToFinalize
    <3>4. melt_quote[q] # "Pending"
      BY <1>2, <3>3, Zenon DEF MeltInv, TableInv, QuoteRows, QuoteRow
    <3>5. melt_quote[q] = "Paid" \/ (melt_quote[q] = "Unpaid" /\ ln[LookupId[q]].state = "failed")
      BY <2>5, <3>1, <3>4, Zenon DEF MeltInv, TableInv, HolderRows, Holds, Lid
    <3>6. \/ ln[LookupId[q]].state = "paid" \/ Settled(q) \/ melt_quote[q] = "Paid"
      BY <1>1, <1>2, Zenon DEF WorkSafe
    <3>7. Settled(q) => ln[LookupId[q]].state = "none"
      BY <1>2 DEF Settled, MeltInv, TableInv, LnRows, LnRow, LookupIds
    <3>8. QED
      BY <3>3, <3>5, <3>6, <3>7, Zenon
  <2>6. WorkSafe(w, rec)
    <3>1. Started(o) /\ meltReq[o].quote = q
      BY <1>2, <1>3, Zenon DEF Started
    <3>2. QED
      BY <2>4, <2>5, <3>1, Zenon DEF WorkSafe
  <2>7. QED
    BY <1>1, <2>2, <2>3, <2>6, QuietWorker, Zenon
<1>5. CASE ~NothingToFinalize(q)
  <2>1. PICK rec : rec = [work[w] EXCEPT !.pc = "sigs", !.req = melt_request[q],
                             !.bs = OutputsByQuoteId(blind_signature, q, "Unsigned")]
    BY Zenon
  <2>2. work' = [work EXCEPT ![w] = rec]
    BY <1>5, <2>1, Zenon DEF FinalizeQuote, Becomes
  <2>3. rec.pc = "sigs" /\ rec.op = o /\ rec.quote = q
    BY <1>2, <1>3, <2>1, Zenon DEF WorkRecord
  <2>4. Started(o) /\ meltReq[o].quote = q
    BY <1>2, <1>3, Zenon DEF Started
  <2>5. CASE melt_quote[q] = "Paid"
    <3>1. UNCHANGED <<proof, melt_quote, told>>
      BY <2>5, Zenon DEF FinalizeQuote
    <3>2. QuietStep /\ ToldOk
      BY <1>1, <3>1, QuietFrame, ToldStays, Zenon
    <3>3. WorkSafe(w, rec)
      BY <2>3, <2>4, <2>5, Zenon DEF WorkSafe
    <3>4. QED
      BY <1>1, <2>2, <3>2, <3>3, QuietWorker, Zenon
  <2>6. CASE melt_quote[q] # "Paid"
    <3>1. melt_quote[q] = "Pending" /\ FinalizeCore(q, ys)
      BY <1>1, <1>2, <1>5, <2>6, Zenon
      DEF FinalizeQuote, FinalizeQuoteOk, FinalizeCoreOk, CheckMeltQuoteStateTransition, MeltInv, ProcInv,
          MeltShape
    <3>2. PICK h \in MeltOps : /\ Holds(h) /\ meltReq[h].quote = q /\ PaymentMade(q)
                               /\ saga_state[h] # "None" /\ ys = meltReq[h].ys
      BY <1>1, <1>2, <3>1, FinalizeFinds, Zenon
    <3>3. meltReq[h].ys \in SUBSET Ys /\ ProcInv
      BY <3>2, HolderState, Zenon DEF MeltInv
    <3>4. /\ \A y \in Ys : /\ proof'[y].op = proof[y].op
                           /\ proof'[y].state = IF y \in meltReq[h].ys THEN "Spent" ELSE proof[y].state
          /\ \A p \in Quotes : melt_quote'[p] = IF p = q THEN "Paid" ELSE melt_quote[p]
      <4>1. /\ proof' = UpdateProofsState(proof, meltReq[h].ys, "Spent")
            /\ melt_quote' = [melt_quote EXCEPT ![q] = "Paid"] /\ DOMAIN melt_quote = Quotes
        BY <3>1, <3>2, <3>3, Zenon DEF FinalizeCore, ProcInv, MeltShape
      <4>2. QED
        BY <3>3, <4>1, SpentRows, Zenon
    <3>5. OutputsStay
      BY <1>1, Zenon DEF OutputsStay
    <3>6. FinishStep(h, q)
      BY <1>1, <3>2, <3>4, <3>5, Zenon DEF FinishStep
    <3>7. ToldOk
      BY <3>1, <3>2, ToldPaid, Zenon DEF FinalizeCore
    <3>8. WorkSafe(w, rec)'
      <4>1. Started(o)' /\ meltReq' = meltReq /\ melt_quote'[q] = "Paid"
        BY <1>1, <1>2, <2>4, <3>4, Zenon DEF Started
      <4>2. PICK p : p = q
        BY Zenon
      <4>3. rec.quote = p /\ melt_quote'[p] = "Paid" /\ meltReq[o].quote = p
        BY <2>3, <2>4, <4>1, <4>2, Zenon
      <4>4. QED
        BY <2>3, <4>1, <4>3, Zenon DEF WorkSafe
    <3>9. QED
      BY <1>1, <1>2, <2>2, <3>6, <3>7, <3>8, FinishWorker, Zenon
  <2>7. QED
    BY <2>5, <2>6, Zenon
<1>6. QED
  BY <1>4, <1>5, Zenon

LEMMA SignChangeSafe ==
    ASSUME MeltInv, ProcInv', NEW w \in Workers, SignChange(w)
    PROVE  MeltInv' /\ KeepsPaid
<1>1. /\ Active(w) /\ work[w].pc = "sign" /\ Moves(w, "delete") /\ meltPc' = meltPc
      /\ UNCHANGED <<proof, told, saga_state, melt_quote, mint_payments, ln, meltReq>>
      /\ \E sigs : StoreChange(work[w].quote, sigs)
  BY Zenon DEF SignChange, WorkerAt
<1>2. work[w].quote \in Quotes /\ ProcInv
  BY <1>1, Zenon DEF MeltInv, ProcInv, StartedOk
<1>3. /\ OutputsStay
      /\ RequestGone(work[w].quote)
  BY <1>1, <1>2, StoredChange, Zenon
<1>4. QED
  BY <1>1, <1>3, CloseWorker, Zenon

LEMMA CloseRequestSafe ==
    ASSUME MeltInv, ProcInv', NEW w \in Workers, CloseRequest(w)
    PROVE  MeltInv' /\ KeepsPaid
<1>1. /\ Active(w) /\ work[w].pc = "close" /\ Moves(w, "delete") /\ meltPc' = meltPc
      /\ UNCHANGED <<proof, told, saga_state, melt_quote, mint_payments, ln, meltReq>>
      /\ DeleteMeltRequest(work[w].quote, blind_signature)
  BY Zenon DEF CloseRequest, WorkerAt
<1>2. work[w].quote \in Quotes /\ ProcInv
  BY <1>1, Zenon DEF MeltInv, ProcInv, StartedOk
<1>3. /\ OutputsStay
      /\ RequestGone(work[w].quote)
  BY <1>1, <1>2, DeleteRequestRows, Zenon
<1>4. QED
  BY <1>1, <1>3, CloseWorker, Zenon

LEMMA DeleteSagaSafe ==
    ASSUME MeltInv, ProcInv', NEW w \in Workers, DeleteSaga(w)
    PROVE  MeltInv' /\ KeepsPaid
<1>1. /\ Active(w) /\ work[w].pc = "delete" /\ work' = [work EXCEPT ![w] = Idle] /\ meltPc' = meltPc
      /\ DeleteMeltSaga(work[w].op)
      /\ UNCHANGED <<proof, blind_signature, told, melt_quote, melt_request, mint_payments, ln, meltReq>>
  BY Zenon DEF DeleteSaga, WorkerAt, Becomes, backVars
<1>2. PICK o : o = work[w].op
  BY Zenon
<1>3. PICK q : q = work[w].quote
  BY Zenon
<1>4. /\ Started(o) /\ meltReq[o].quote = q
      /\ Holds(o) => melt_quote[q] = "Paid" /\ melt_request[q] = NoOp
  BY <1>1, <1>2, <1>3, Zenon DEF MeltInv, WorkSafe
<1>5. o \in MeltOps /\ q \in Quotes
  BY <1>4, Zenon DEF Started
<1>6. saga_state'[o] = "None" /\ \A p \in MeltOps \ {o} : saga_state'[p] = saga_state[p]
  BY <1>1, <1>2, <1>5, MeltAssumption, Zenon DEF DeleteMeltSaga, MeltInv, ProcInv, MeltShape
<1>7. ToldOk
  BY <1>1, ToldStays, Zenon
<1>8. CASE Holds(o)
  <2>1. OutputsStay
    BY <1>1, Zenon DEF OutputsStay
  <2>2. RequestGone(q)
    BY <1>1, <1>4, <1>8, Zenon DEF RequestGone
  <2>3. FinishStep(o, q)
    BY <1>1, <1>4, <1>5, <1>6, <1>8, <2>1, <2>2, ClosingFinishes, Zenon
  <2>4. QED
    BY <1>1, <1>5, <1>7, <2>3, IdleStaysSafe, FinishWorker, Zenon
<1>9. CASE ~Holds(o)
  <2>1. saga_state[o] = "None"
    BY <1>5, <1>9, Zenon DEF MeltInv, TableInv, SagaRows
  <2>2. QuietStep
    BY <1>1, <1>6, <2>1, Zenon DEF QuietStep
  <2>3. QED
    BY <1>1, <1>7, <2>2, IdleSafe, QuietWorker, Zenon
<1>10. QED
  BY <1>8, <1>9, Zenon

LEMMA RollbackQuoteSafe ==
    ASSUME MeltInv, ProcInv', NEW w \in Workers, RollbackQuote(w)
    PROVE  MeltInv' /\ KeepsPaid
<1>1. PICK o, q, ys, bs : o = work[w].op /\ q = work[w].quote /\ ys = work[w].ys /\ bs = work[w].bs
  BY Zenon
<1>2. /\ Active(w) /\ work[w].pc = "rollback" /\ work' = [work EXCEPT ![w] = Idle] /\ meltPc' = meltPc
      /\ meltReq' = meltReq
      /\ \/ RollbackOk(q) /\ RollbackTx(o, q, ys, bs)
         \/ UNCHANGED <<storeVars, told, backVars>>
  BY <1>1, Zenon DEF RollbackQuote, WorkerAt, Becomes, RollbackMeltQuote
<1>3. /\ Started(o) /\ meltReq[o].quote = q
      /\ ln[LookupId[q]].state = "failed" \/ (w = "recovery" /\ saga_state[o] = "SetupComplete")
      /\ ys # {} => \A p \in MeltOps : Holds(p) /\ Lid(p) = LookupId[q] => p = o
      /\ Holds(o) => ys = meltReq[o].ys
  BY <1>1, <1>2, Zenon DEF MeltInv, WorkSafe
<1>4. o \in MeltOps /\ q \in Quotes /\ LookupId[q] \in LookupIds
  BY <1>3, Zenon DEF Started, LookupIds
<1>5. CASE UNCHANGED <<storeVars, told, backVars>>
  <2>1. QuietStep /\ ToldOk
    BY <1>2, <1>5, QuietFrame, ToldStays, Zenon DEF storeVars, backVars
  <2>2. QED
    BY <1>2, <2>1, IdleSafe, QuietWorker, Zenon
<1>6. CASE RollbackOk(q) /\ RollbackTx(o, q, ys, bs)
  <2>1. melt_quote[q] = "Pending"
    BY <1>4, <1>6, Zenon DEF RollbackOk, CheckMeltQuoteStateTransition, MeltInv, ProcInv, MeltShape
  <2>2. PICK r \in MeltOps : Holds(r) /\ meltReq[r].quote = q
    BY <1>4, <2>1, PendingHolder, Zenon
  <2>3. CASE ys # {}
    <3>1. Holds(o) /\ ys = meltReq[o].ys
      BY <1>3, <1>4, <2>2, <2>3, Zenon DEF Lid
    <3>2. ln[LookupId[q]].state \in {"none", "failed"} /\ ~Settled(q)
      BY <1>3, <1>4, Zenon DEF MeltInv, TableInv, SagaRows, LnRows, LnRow, Settled, Lid
    <3>3. ReturnStep(o, q) /\ ToldOk
      BY <1>2, <1>3, <1>4, <1>6, <3>1, <3>2, RollbackReturns, Zenon
    <3>4. /\ TableInv' /\ KeepsPaid /\ Stays(MeltOps \ {o}, Pollers)
          /\ ln[LookupId[q]].state = "failed" => \A pc : OpSafe(o, pc) => OpSafe(o, pc)'
      BY <1>4, <3>3, ReturnTables, Zenon DEF MeltInv
    <3>5. ASSUME NEW p \in MeltOps, NEW pc, p \notin MeltOps \ {o}, pc \in LiveMeltPcs, pc = meltPc[p]
          PROVE  OpSafe(p, pc)'
      <4>1. mint = "up"
        BY <3>5, Zenon DEF MeltInv, ProcInv, ProcessOk
      <4>2. ln[LookupId[q]].state = "failed"
        BY <1>2, <1>3, <4>1, Zenon DEF Active
      <4>3. OpSafe(p, pc) /\ p = o
        BY <3>5, Zenon DEF MeltInv
      <4>4. QED
        BY <3>4, <4>2, <4>3, Zenon
    <3>6. QED
      BY <1>2, <3>3, <3>4, <3>5, IdleStaysSafe, WorkerSafe, Zenon
  <2>4. CASE ys = {}
    <3>1. ~Holds(o)
      BY <1>3, <1>4, <2>4, HolderState, Zenon
    <3>2. saga_state[o] = "None"
      BY <1>4, <3>1, Zenon DEF MeltInv, TableInv, SagaRows
    <3>3. ln[LookupId[q]].state = "failed"
      BY <1>3, <3>2, Zenon
    <3>4. \A y \in Ys : proof'[y] = proof[y]
      BY <1>6, <2>4, Zenon DEF RollbackTx, RemoveProofs, Removable
    <3>5. /\ \A p \in Quotes : melt_quote'[p] = IF p = q THEN "Unpaid" ELSE melt_quote[p]
          /\ \A p \in MeltOps : saga_state'[p] = saga_state[p]
      <4>1. /\ melt_quote' = [melt_quote EXCEPT ![q] = "Unpaid"]
            /\ saga_state' = [saga_state EXCEPT ![o] = "None"]
            /\ DOMAIN melt_quote = Quotes /\ \A p \in MeltOps : p \in DOMAIN saga_state
        BY <1>6, TableDomains, Zenon DEF RollbackTx, DeleteMeltSaga, MeltInv
      <4>2. QED
        BY <1>4, <3>2, <4>1, Zenon
    <3>6. OutputsStay /\ RequestGone(q)
      <4>1. DeleteMeltRequest(q, DeleteBlindedMessages(blind_signature, bs)) /\ ProcInv
        BY <1>6, Zenon DEF RollbackTx, MeltInv
      <4>2. QED
        BY <1>2, <1>4, <4>1, ReleasedRows, Zenon
    <3>7. ReopenStep(q)
      <4>1. UNCHANGED <<ln, mint_payments>>
        BY <1>6, Zenon DEF RollbackTx
      <4>2. QED
        BY <1>2, <2>1, <3>3, <3>4, <3>5, <3>6, <4>1, Zenon DEF ReopenStep
    <3>8. TableInv' /\ KeepsPaid /\ Stays(MeltOps, Workers)
      BY <1>4, <3>7, ReopenTables, Zenon DEF MeltInv
    <3>9. Stays(MeltOps, Pollers)
      BY <3>8, Zenon DEF Stays, Workers
    <3>10. ToldOk
      BY <1>6, <2>4, ToldStays, Zenon DEF RollbackTx
    <3>11. QED
      BY <1>2, <3>8, <3>9, <3>10, IdleStaysSafe, WorkerSafe, Zenon
  <2>5. QED
    BY <2>3, <2>4, Zenon
<1>7. QED
  BY <1>2, <1>5, <1>6, Zenon

LEMMA WorkerStepSafe ==
    ASSUME MeltInv, ProcInv', NEW w \in Workers, WorkerStep(w)
    PROVE  MeltInv' /\ KeepsPaid
BY Zenon, FindSagaSafe, CheckPaymentSafe, CollectSetupSafe, RollbackQuoteSafe, FinalizeQuoteSafe,
   ReadSignaturesSafe, SignChangeSafe, CloseRequestSafe, DeleteSagaSafe
   DEF WorkerStep

LEMMA WorkerFailsSafe ==
    ASSUME MeltInv, ProcInv', NEW w \in Workers, WorkerFails(w)
    PROVE  MeltInv' /\ KeepsPaid
<1> DEFINE q == work[w].quote
<1>1. /\ Active(w) /\ work' = [work EXCEPT ![w] = Idle] /\ meltPc' = meltPc
      /\ UNCHANGED <<proof, blind_signature, saga_state, melt_quote, melt_request, mint_payments, ln,
                     meltReq>>
      /\ \/ /\ work[w].pc = "finalize" /\ FinalizeQuoteOk(w) /\ ~NothingToFinalize(q)
            /\ melt_quote[q] # "Paid" /\ Publish(ProofYsByQuoteId(q), "Spent")
         \/ told' = told
  BY Zenon DEF WorkerFails, Becomes, storeVars, backVars
<1>2. QuietStep
  BY <1>1, QuietFrame, Zenon
<1>3. ToldOk
  <2>1. CASE told' = told
    BY <2>1, ToldStays, Zenon
  <2>2. CASE /\ work[w].pc = "finalize" /\ FinalizeQuoteOk(w) /\ ~NothingToFinalize(q)
             /\ melt_quote[q] # "Paid" /\ Publish(ProofYsByQuoteId(q), "Spent")
    <3>1. q \in Quotes
      BY <2>2, Zenon DEF MeltInv, ProcInv, StartedOk
    <3>2. melt_quote[q] = "Pending"
      BY <2>2, <3>1, Zenon
      DEF FinalizeQuoteOk, FinalizeCoreOk, CheckMeltQuoteStateTransition, MeltInv, ProcInv, MeltShape
    <3>3. PICK h \in MeltOps : /\ Holds(h) /\ meltReq[h].quote = q /\ PaymentMade(q)
                               /\ ProofYsByQuoteId(q) = meltReq[h].ys
      BY <2>2, <3>1, <3>2, FinalizeFinds, Zenon
    <3>4. QED
      BY <2>2, <3>3, ToldPaid, Zenon
  <2>3. QED
    BY <1>1, <2>1, <2>2, Zenon
<1>4. QED
  BY <1>1, <1>2, <1>3, IdleSafe, QuietWorker, Zenon

LEMMA RecoverSafe ==
    ASSUME MeltInv, ProcInv', NEW o \in MeltOps, RecoverMeltSaga(o)
    PROVE  MeltInv' /\ KeepsPaid
<1> DEFINE q == meltReq[o].quote
           base == [Idle EXCEPT !.quote = q, !.op = o]
           settled == LookupId[q] \in InternalIds /\ q \in mint_payments[LookupId[q]]
<1>1. /\ mint = "starting" /\ meltPc' = meltPc /\ told' = told /\ o \in meltTodo
      /\ UNCHANGED <<proof, blind_signature, saga_state, melt_quote, melt_request, mint_payments, ln,
                     meltReq>>
  BY Zenon DEF RecoverMeltSaga, storeVars, backVars
<1>2. QuietStep /\ ToldOk
  BY <1>1, QuietFrame, ToldStays, Zenon
<1>3. saga_state[o] \in {"SetupComplete", "PaymentAttempted", "Finalizing"} /\ Started(o) /\ q \in Quotes
  BY <1>1, MeltAssumption, Zenon DEF MeltInv, ProcInv, ProcessOk, StartedOk, Started, MeltShape
<1>4. base \in WorkRecord /\ base.op = o /\ base.quote = q
  BY <1>3, IdleRecord, Zenon DEF WorkRecord
<1>5. "recovery" \in Workers /\ Active("recovery")
  BY <1>1, Zenon DEF Workers, Active
<1>6. CASE saga_state[o] = "SetupComplete"
  <2>1. PICK rec : rec = Collected(base)
    BY Zenon
  <2>2. work' = [work EXCEPT !["recovery"] = rec]
    BY <1>6, <2>1, Zenon DEF RecoverMeltSaga, Becomes
  <2>3. PICK b \in WorkRecord : b = base
    BY <1>4, Zenon
  <2>4. /\ Started(b.op) /\ meltReq[b.op].quote = b.quote /\ saga_state[b.op] = "SetupComplete"
        /\ rec = Collected(b)
    BY <1>3, <1>4, <1>6, <2>1, <2>3, Zenon DEF Collected
  <2>5. WorkSafe("recovery", rec)
    BY <1>5, <2>4, CollectedSafe, Zenon
  <2>6. QED
    BY <1>1, <1>2, <1>5, <2>2, <2>5, QuietWorker, Zenon
<1>7. CASE saga_state[o] = "Finalizing" \/ (saga_state[o] = "PaymentAttempted" /\ settled)
  <2>1. PICK rec : rec = [base EXCEPT !.pc = "finalize", !.spent = QuoteAmount[q]]
    BY Zenon
  <2>2. work' = [work EXCEPT !["recovery"] = rec]
    BY <1>7, <2>1, Zenon DEF RecoverMeltSaga, Becomes
  <2>3. rec.pc = "finalize" /\ rec.op = o /\ rec.quote = q
    BY <1>4, <2>1, Zenon DEF WorkRecord
  <2>4. Settled(q) \/ melt_quote[q] = "Paid"
    BY <1>7, Zenon DEF Settled, MeltInv, TableInv, SagaRows
  <2>5. WorkSafe("recovery", rec)
    BY <1>3, <2>3, <2>4, Zenon DEF WorkSafe
  <2>6. QED
    BY <1>1, <1>2, <1>5, <2>2, <2>5, QuietWorker, Zenon
<1>8. CASE saga_state[o] = "PaymentAttempted" /\ ~settled
  <2>1. PICK rec : rec = [base EXCEPT !.pc = "check"]
    BY Zenon
  <2>2. work' = [work EXCEPT !["recovery"] = rec]
    BY <1>8, <2>1, Zenon DEF RecoverMeltSaga, Becomes
  <2>3. rec.pc = "check" /\ rec.op = o /\ rec.quote = q
    BY <1>4, <2>1, Zenon DEF WorkRecord
  <2>4. WorkSafe("recovery", rec)
    BY <1>3, <2>3, Zenon DEF WorkSafe
  <2>5. QED
    BY <1>1, <1>2, <1>5, <2>2, <2>4, QuietWorker, Zenon
<1>9. QED
  BY <1>3, <1>6, <1>7, <1>8, Zenon

LEMMA OutsideSafe ==
    ASSUME MeltInv, ProcInv',
           \/ \E l \in LookupIds : LnSettles(l)
           \/ \E l \in InternalIds : InvoicePaid(l)
           \/ RotateSignatory \/ StoreKeysets \/ MeltCrash \/ MeltStart \/ MeltStartDone
           \/ UNCHANGED meltVars
    PROVE  MeltInv' /\ KeepsPaid
<1>1. /\ meltPc \in [MeltOps -> LiveMeltPcs \cup {"idle", "done", "failed"}]
      /\ work \in [Workers -> WorkRecord] /\ ln \in [LookupIds -> [state : {"none", "inflight", "paid", "failed"},
                             by : MeltOps \cup {NoOp}, fee : PayFees \cup {0}]]
      /\ mint_payments \in [InternalIds -> SUBSET (Quotes \cup {"invoice"})]
  BY Zenon DEF MeltInv, ProcInv, MeltShape
<1>2. CASE \E l \in LookupIds : LnSettles(l)
  <2>1. PICK l \in LookupIds : LnSettles(l)
    BY <1>2, Zenon
  <2>2. UNCHANGED <<proof, blind_signature, saga_state, told, melt_quote, melt_request, mint_payments,
                    meltReq, meltPc, work>>
    BY <2>1, Zenon DEF LnSettles, storeVars, procVars
  <2>3. SettleStep(l)
    <3>1. /\ ln[l].state = "inflight"
          /\ \/ \E f \in PayFees : ln' = [ln EXCEPT ![l].state = "paid", ![l].fee = f]
             \/ ln' = [ln EXCEPT ![l].state = "failed"]
      BY <2>1, Zenon DEF LnSettles
    <3>2. /\ ln'[l].state \in {"paid", "failed"} /\ ln'[l].by = ln[l].by
          /\ \A k \in LookupIds \ {l} : ln'[k] = ln[k]
      BY <1>1, <3>1
    <3>3. QED
      BY <2>2, <3>1, <3>2, Zenon DEF SettleStep
  <2>4. /\ TableInv' /\ KeepsPaid /\ Stays({}, Workers)
        /\ \A o \in MeltOps : \A pc : Started(o) /\ OpSafe(o, pc) => OpSafe(o, pc)'
    BY <2>3, SettleTables, Zenon DEF MeltInv
  <2>5. ToldOk
    BY <2>2, ToldStays, Zenon
  <2>6. ASSUME NEW o \in MeltOps, NEW pc, pc = meltPc'[o] PROVE OpSafe(o, pc)'
    <3>1. CASE pc \notin LiveMeltPcs
      BY <3>1, NotLiveSafe, Zenon
    <3>2. CASE pc \in LiveMeltPcs
      <4>1. pc = meltPc[o] /\ pc # "idle"
        BY <2>2, <2>6, <3>2, Zenon DEF LiveMeltPcs
      <4>2. Started(o) /\ OpSafe(o, pc)
        BY <4>1, Zenon DEF MeltInv, ProcInv, StartedOk
      <4>3. QED
        BY <2>4, <4>2, Zenon
    <3>3. QED
      BY <3>1, <3>2, Zenon
  <2>7. ASSUME NEW w \in Workers, NEW rec, rec = work'[w] PROVE WorkSafe(w, rec)'
    <3>1. rec = work[w] /\ rec \in WorkRecord /\ WorkSafe(w, work[w])
      BY <1>1, <2>2, <2>7, Zenon DEF MeltInv
    <3>2. QED
      BY <2>4, <3>1, WorkerKeeps, Zenon
  <2>8. QED
    BY <2>4, <2>5, <2>6, <2>7, StepSafe, Zenon
<1>3. CASE ~\E l \in LookupIds : LnSettles(l)
  <2>1. /\ UNCHANGED <<proof, blind_signature, saga_state, told, melt_quote, melt_request, ln, meltReq>>
        /\ mint_payments' = mint_payments \/ \E l \in InternalIds : InvoicePaid(l)
        /\ MeltCrash \/ UNCHANGED <<meltPc, work>>
    BY <1>3, Zenon DEF InvoicePaid, RotateSignatory, StoreKeysets, MeltCrash, MeltStart, MeltStartDone,
                meltVars, storeVars, backVars, procVars
  <2>2. \A l \in InternalIds, p \in Quotes : p \in mint_payments'[l] <=> p \in mint_payments[l]
    <3>1. CASE mint_payments' = mint_payments
      BY <3>1, Zenon
    <3>2. CASE \E l \in InternalIds : InvoicePaid(l)
      <4>1. PICK l \in InternalIds : /\ mint_payments[l] = {}
                                     /\ mint_payments' = [mint_payments EXCEPT ![l] = {"invoice"}]
        BY <3>2, Zenon DEF InvoicePaid
      <4>2. "invoice" \notin Quotes
        BY MeltAssumption, Zenon
      <4>3. QED
        BY <1>1, <4>1, <4>2, Zenon
    <3>3. QED
      BY <2>1, <3>1, <3>2, Zenon
  <2>3. QuietStep /\ ToldOk
    BY <2>1, <2>2, ToldStays, Zenon DEF QuietStep
  <2>4. TableInv' /\ KeepsPaid /\ Stays(MeltOps, Workers)
    BY <2>3, QuietTables, Zenon DEF MeltInv
  <2>5. ASSUME NEW o \in MeltOps, NEW pc, pc = meltPc'[o] PROVE OpSafe(o, pc)'
    <3>1. CASE pc \notin LiveMeltPcs
      BY <3>1, NotLiveSafe, Zenon
    <3>2. CASE pc \in LiveMeltPcs
      <4>1. pc = meltPc[o] /\ pc # "idle"
        BY <2>1, <2>5, <3>2, Zenon DEF LiveMeltPcs, MeltCrash
      <4>2. Started(o) /\ OpSafe(o, pc)
        BY <4>1, Zenon DEF MeltInv, ProcInv, StartedOk
      <4>3. QED
        BY <2>4, <4>2, OpStaysSafe, Zenon DEF Stays
    <3>3. QED
      BY <3>1, <3>2, Zenon
  <2>6. ASSUME NEW w \in Workers, NEW rec, rec = work'[w] PROVE WorkSafe(w, rec)'
    <3>1. CASE rec = Idle
      BY <3>1, IdleStaysSafe, Zenon
    <3>2. CASE rec # Idle
      <4>1. rec = work[w] /\ rec \in WorkRecord /\ WorkSafe(w, work[w])
        BY <1>1, <2>1, <2>6, <3>2, Zenon DEF MeltInv, MeltCrash
      <4>2. QED
        BY <2>4, <4>1, WorkerKeeps, Zenon
    <3>3. QED
      BY <3>1, <3>2, Zenon
  <2>7. QED
    BY <2>3, <2>4, <2>5, <2>6, StepSafe, Zenon
<1>4. QED
  BY <1>2, <1>3, Zenon

LEMMA MeltInitSafe == MeltInit => MeltInv
<1> SUFFICES ASSUME MeltInit PROVE MeltInv
  BY Zenon
<1>1. ProcInv
  BY MeltInitProc, Zenon
<1>2. \A o \in MeltOps : ~Started(o) /\ ~Holds(o) /\ saga_state[o] = "None"
  BY MeltAssumption, StoreAssumption, Zenon DEF MeltInit, StoreInit, NoMelt, Started, Holds
<1>3. /\ \A y \in Ys : proof[y].state = "None" /\ told[y] = "None"
      /\ \A b \in Outs : blind_signature[b].state = "None"
      /\ \A q \in Quotes : melt_quote[q] = "Unpaid" /\ melt_request[q] = NoOp
      /\ \A l \in LookupIds : ln[l].state = "none"
      /\ \A l \in InternalIds : mint_payments[l] = {}
      /\ \A o \in MeltOps : meltPc[o] = "idle"
      /\ \A w \in Workers : work[w] = Idle
  BY Zenon DEF MeltInit, StoreInit, NoProof, NoOutput, NoLn
<1>4. TableInv
  BY <1>2, <1>3, Zenon DEF TableInv, ProofRows, HolderRows, OneHolder, QuoteRows, QuoteRow, SagaRows, LnRows, LnRow, CreditRows,
                    OutputRows
<1>5. ToldRows
  BY <1>3, Zenon DEF ToldRows
<1>6. \A o \in MeltOps : OpSafe(o, meltPc[o])
  BY <1>3, Zenon DEF OpSafe, LiveMeltPcs
<1>7. \A w \in Workers : WorkSafe(w, work[w])
  BY <1>3, IdleSafe, Zenon
<1>8. QED
  BY <1>1, <1>4, <1>5, <1>6, <1>7, Zenon DEF MeltInv

LEMMA MeltNextSafe == MeltInv /\ ~Retries /\ [MeltNext]_meltVars => MeltInv' /\ KeepsPaid
<1> SUFFICES ASSUME MeltInv, ~Retries, [MeltNext]_meltVars PROVE MeltInv' /\ KeepsPaid
  BY Zenon
<1>1. ProcInv'
  BY MeltNextProc, Zenon DEF MeltInv
<1>2. QED
  BY <1>1, MeltStepSafe, RecoverSafe, WorkerStepSafe, WorkerFailsSafe, PollQuoteSafe, OutsideSafe, Zenon
  DEF MeltNext

-----------------------------------------------------------------------------

(* However many melts race with their polls, the backend, crashes and      *)
(* recovery, the inductive invariant holds, as long as no quote is melted  *)
(* again after its payment failed.                                         *)
THEOREM MeltInvariant == ASSUME ~Retries PROVE MeltSpec => []MeltInv
<1>1. MeltInit => MeltInv
  BY MeltInitSafe, Zenon
<1>2. MeltInv /\ [MeltNext]_meltVars => MeltInv'
  BY MeltNextSafe, Zenon
<1>3. QED
  BY <1>1, <1>2, PTL DEF MeltSpec

LEMMA HoldsIsHolding == \A o \in MeltOps : Holds(o) => HoldsInputs(o)
BY Zenon DEF Holds, Reserved, Consumed, HoldsInputs

(* The mint never returns the proofs of a payment it makes.                *)
THEOREM MeltPaymentHoldsInputs == ASSUME ~Retries PROVE MeltSpec => []PaymentHoldsInputs
<1>1. MeltInv => PaymentHoldsInputs
  <2> SUFFICES ASSUME MeltInv PROVE PaymentHoldsInputs
    BY Zenon
  <2>1. ASSUME NEW l \in LookupIds, ln[l].state \in {"inflight", "paid"} PROVE HoldsInputs(ln[l].by)
    <3>1. PICK h \in MeltOps : ln[l].by = h /\ Holds(h)
      BY <2>1, Zenon DEF MeltInv, TableInv, LnRows, LnRow
    <3>2. QED
      BY <3>1, HoldsIsHolding, Zenon
  <2>2. ASSUME NEW l \in InternalIds, NEW q \in mint_payments[l] \cap Quotes
        PROVE  \E o \in MeltOps : OfQuote(o, q) /\ HoldsInputs(o)
    BY HoldsIsHolding, Zenon DEF MeltInv, TableInv, CreditRows, OfQuote
  <2>3. QED
    BY <2>1, <2>2, Zenon DEF PaymentHoldsInputs
<1>2. QED
  BY <1>1, MeltInvariant, PTL

(* A quote is Paid, and its inputs are Spent, only if its payment was      *)
(* made, and no payment is charged to two melts.                           *)
THEOREM MeltPaidMeansPaid == ASSUME ~Retries PROVE MeltSpec => []PaidMeansPaid
<1>1. MeltInv => PaidMeansPaid
  <2> SUFFICES ASSUME MeltInv PROVE PaidMeansPaid
    BY Zenon
  <2>1. ASSUME NEW q \in Quotes, melt_quote[q] = "Paid"
        PROVE  PaymentMade(q) /\ \A y \in ProofYsByQuoteId(q) : proof[y].state = "Spent"
    <3>1. PaymentMade(q)
      BY <2>1, Zenon DEF MeltInv, TableInv, QuoteRows, QuoteRow
    <3>2. ASSUME NEW y \in ProofYsByQuoteId(q) PROVE proof[y].state = "Spent"
      <4>1. PICK o \in MeltOps : proof[y].op = o /\ Holds(o) /\ y \in meltReq[o].ys
        BY Zenon DEF ProofYsByQuoteId, MeltInv, TableInv, ProofRows
      <4>2. meltReq[o].quote = q
        BY <4>1, Zenon DEF ProofYsByQuoteId, OfQuote
      <4>3. Consumed(o)
        BY <2>1, <4>1, <4>2, HolderState, Zenon
      <4>4. QED
        BY <4>1, <4>3, Zenon DEF Consumed
    <3>3. QED
      BY <3>1, <3>2, Zenon
  <2>2. ASSUME NEW y \in MeltSpentYs PROVE melt_quote[meltReq[proof[y].op].quote] = "Paid"
    <3>1. y \in Ys /\ proof[y].state = "Spent"
      BY Zenon DEF MeltSpentYs
    <3>2. PICK o \in MeltOps : proof[y].op = o /\ Holds(o) /\ y \in meltReq[o].ys
      BY <3>1, Zenon DEF MeltInv, TableInv, ProofRows
    <3>3. Consumed(o)
      BY <3>1, <3>2, Zenon DEF Holds, Reserved
    <3>4. QED
      BY <3>2, <3>3, Zenon DEF MeltInv, TableInv, HolderRows
  <2>3. ASSUME NEW p \in Quotes, NEW q \in Quotes,
               melt_quote[p] \in {"Pending", "Paid"}, melt_quote[q] \in {"Pending", "Paid"},
               LookupId[p] = LookupId[q]
        PROVE  p = q
    <3>1. PICK g \in MeltOps : Holds(g) /\ meltReq[g].quote = p
      BY <2>3, Zenon DEF MeltInv, TableInv, QuoteRows, QuoteRow
    <3>2. PICK h \in MeltOps : Holds(h) /\ meltReq[h].quote = q
      BY <2>3, Zenon DEF MeltInv, TableInv, QuoteRows, QuoteRow
    <3>3. g = h
      BY <2>3, <3>1, <3>2, Zenon DEF MeltInv, TableInv, OneHolder, Lid
    <3>4. QED
      BY <3>1, <3>2, <3>3, Zenon
  <2>4. QED
    BY <2>1, <2>2, <2>3, Zenon DEF PaidMeansPaid
<1>2. QED
  BY <1>1, MeltInvariant, PTL

(* Nothing a melt has reserved is out of reach of its recovery.            *)
THEOREM MeltNothingIsStranded == ASSUME ~Retries PROVE MeltSpec => []MeltNothingStranded
<1>1. MeltInv => MeltNothingStranded
  <2> SUFFICES ASSUME MeltInv PROVE MeltNothingStranded
    BY Zenon
  <2>1. ASSUME NEW q \in Quotes, melt_quote[q] = "Pending" PROVE MeltSagas(q) # {}
    BY <2>1, PendingHolder, Zenon DEF MeltSagas, OfQuote
  <2>2. ASSUME NEW y \in Ys, proof[y].state = "Pending" PROVE saga_state[proof[y].op] # "None"
    <3>1. PICK o \in MeltOps : proof[y].op = o /\ Holds(o) /\ y \in meltReq[o].ys
      BY <2>2, Zenon DEF MeltInv, TableInv, ProofRows
    <3>2. Reserved(o)
      BY <2>2, <3>1, Zenon DEF Holds, Consumed
    <3>3. QED
      BY <3>1, <3>2, Zenon DEF MeltInv, TableInv, HolderRows
  <2>3. ASSUME NEW b \in Outs, blind_signature[b].state = "Unsigned"
        PROVE  melt_request[meltReq[blind_signature[b].op].quote] # NoOp
    BY <2>3, Zenon DEF MeltInv, TableInv, OutputRows
  <2>4. ASSUME NEW q \in Quotes, melt_request[q] # NoOp PROVE saga_state[melt_request[q]] # "None"
    BY <2>4, Zenon DEF MeltInv, TableInv, QuoteRows, QuoteRow
  <2>5. QED
    BY <2>1, <2>2, <2>3, <2>4, Zenon DEF MeltNothingStranded
<1>2. QED
  BY <1>1, MeltInvariant, PTL

(* A subscriber who was told Spent does not get the proof back.            *)
THEOREM MeltToldSpentStays == ASSUME ~Retries PROVE MeltSpec => ToldSpentStays
<1>1. ASSUME MeltInv, [MeltNext]_meltVars
      PROVE  \A y \in Ys : told[y] = "Spent" => proof'[y].state \in {"Pending", "Spent"}
  <2> SUFFICES ASSUME NEW y \in Ys, told[y] = "Spent" PROVE proof'[y].state \in {"Pending", "Spent"}
    BY Zenon
  <2>1. PICK o \in MeltOps : Holds(o) /\ y \in meltReq[o].ys /\ PaymentMade(meltReq[o].quote)
    BY <1>1, Zenon DEF MeltInv, ToldRows
  <2>2. meltReq'[o] = meltReq[o] /\ Holds(o)'
    BY <1>1, <2>1, MeltNextSafe, Zenon DEF KeepsPaid
  <2>3. QED
    BY <2>1, <2>2, Zenon DEF Holds, Reserved, Consumed
<1>2. MeltInv /\ [MeltNext]_meltVars =>
         [\A y \in Ys : told[y] = "Spent" => proof'[y].state \in {"Pending", "Spent"}]_meltVars
  BY <1>1, Zenon
<1>3. QED
  BY <1>2, MeltInvariant, PTL DEF MeltSpec, ToldSpentStays
=============================================================================
