--------------------------- MODULE MintMeltTables ---------------------------
(***************************************************************************)
(* Proofs about the melt saga: the few things a step can do to the tables, *)
(* and that each of these keeps the rows in agreement and what the         *)
(* requests and workers that do not take the step rely on.                 *)
(***************************************************************************)
EXTENDS MintMeltInvariant, TLAPS

(***************************************************************************)
(* Every step does one of the following to the tables.                     *)
(***************************************************************************)
OutputsStay ==
    \A b \in Outs : blind_signature'[b].state = "Unsigned" =>
        /\ blind_signature[b].state = "Unsigned"
        /\ blind_signature'[b].op = blind_signature[b].op
        /\ \A o \in MeltOps :
              blind_signature[b].op = o /\ Started(o) /\ melt_request[meltReq[o].quote] # NoOp
                => melt_request'[meltReq[o].quote] # NoOp

(* The request of a quote is deleted, the others are kept.                 *)
RequestGone(q) == \A p \in Quotes : melt_request'[p] = IF p = q THEN NoOp ELSE melt_request[p]

(* A melt that was paid for is finalized, or closed.                       *)
FinishStep(h, q) ==
    /\ Holds(h) /\ meltReq[h].quote = q /\ PaymentMade(q)
    /\ \A p \in Quotes : melt_quote'[p] = IF p = q THEN "Paid" ELSE melt_quote[p]
    /\ \A y \in Ys : /\ proof'[y].op = proof[y].op
                     /\ proof'[y].state = IF y \in meltReq[h].ys THEN "Spent" ELSE proof[y].state
    /\ \A o \in MeltOps \ {h} : saga_state'[o] = saga_state[o]
    /\ saga_state'[h] \in {saga_state[h], "Finalizing", "None"}
    /\ \A p \in Quotes \ {q} : melt_request'[p] = melt_request[p]
    /\ melt_request'[q] \in {melt_request[q], NoOp}
    /\ saga_state'[h] = "None" => melt_request'[q] = NoOp
    /\ UNCHANGED <<ln, mint_payments, meltReq>>
    /\ OutputsStay

(* The inputs of a melt that was not paid for are given back.              *)
ReturnStep(h, q) ==
    /\ Holds(h) /\ Reserved(h) /\ meltReq[h].quote = q
    /\ ln[LookupId[q]].state \in {"none", "failed"} /\ ~Settled(q)
    /\ \A p \in Quotes : melt_quote'[p] = IF p = q THEN "Unpaid" ELSE melt_quote[p]
    /\ \A y \in Ys : IF y \in meltReq[h].ys THEN proof'[y].state = "None" ELSE proof'[y] = proof[y]
    /\ \A o \in MeltOps : saga_state'[o] = IF o = h THEN "None" ELSE saga_state[o]
    /\ RequestGone(q)
    /\ UNCHANGED <<ln, mint_payments, meltReq>>
    /\ OutputsStay

(* A quote whose payment failed is released, its inputs are not.           *)
ReopenStep(q) ==
    /\ melt_quote[q] = "Pending" /\ ln[LookupId[q]].state = "failed"
    /\ \A p \in Quotes : melt_quote'[p] = IF p = q THEN "Unpaid" ELSE melt_quote[p]
    /\ RequestGone(q)
    /\ \A y \in Ys : proof'[y] = proof[y]
    /\ \A o \in MeltOps : saga_state'[o] = saga_state[o]
    /\ UNCHANGED <<ln, mint_payments, meltReq>>
    /\ OutputsStay

(* A melt is set up.                                                       *)
SetupStep(o, q, ys, bs) ==
    /\ ~Started(o) /\ ys \subseteq Ys /\ ys # {}
    /\ ln[LookupId[q]].state # "failed" /\ NoConflict(q) /\ melt_quote[q] = "Unpaid"
    /\ \A y \in ys : proof[y].state = "None" /\ proof'[y].state = "Pending" /\ proof'[y].op = o
    /\ \A y \in Ys \ ys : proof'[y] = proof[y]
    /\ \A p \in Quotes : melt_quote'[p] = IF p = q THEN "Pending" ELSE melt_quote[p]
    /\ \A p \in Quotes : melt_request'[p] = IF p = q THEN o ELSE melt_request[p]
    /\ \A p \in MeltOps : saga_state'[p] = IF p = o THEN "SetupComplete" ELSE saga_state[p]
    /\ meltReq'[o] = [quote |-> q, ys |-> ys, bs |-> bs]
    /\ \A p \in MeltOps \ {o} : meltReq'[p] = meltReq[p]
    /\ \A b \in Outs : blind_signature'[b].state = "Unsigned" =>
          blind_signature'[b].op = o \/ blind_signature'[b] = blind_signature[b]
    /\ UNCHANGED <<ln, mint_payments>>

(* The payment attempt of a melt is recorded; with credit, the mint quote  *)
(* of its invoice is credited.                                             *)
CreditStep(o, credit) ==
    /\ Holds(o) /\ ln[Lid(o)].state = "none"
    /\ saga_state'[o] = IF saga_state[o] = "None" THEN "None" ELSE "PaymentAttempted"
    /\ \A p \in MeltOps \ {o} : saga_state'[p] = saga_state[p]
    /\ \A l \in InternalIds, p \in Quotes :
          p \in mint_payments'[l] <=>
             p \in mint_payments[l] \/ (credit /\ l = Lid(o) /\ p = meltReq[o].quote)
    /\ UNCHANGED <<proof, blind_signature, melt_quote, melt_request, ln, meltReq>>

(* The backend sends a payment.                                            *)
PayStep(o) ==
    /\ Holds(o) /\ ln[Lid(o)].state = "none" /\ Lid(o) \notin InternalIds
    /\ saga_state[o] # "SetupComplete"
    /\ \A l \in LookupIds \ {Lid(o)} : ln'[l] = ln[l]
    /\ ln'[Lid(o)].state = "inflight" /\ ln'[Lid(o)].by = o
    /\ UNCHANGED <<proof, blind_signature, saga_state, melt_quote, melt_request, mint_payments, meltReq>>

(* It succeeds or fails.                                                   *)
SettleStep(l) ==
    /\ ln[l].state = "inflight"
    /\ ln'[l].state \in {"paid", "failed"} /\ ln'[l].by = ln[l].by
    /\ \A k \in LookupIds \ {l} : ln'[k] = ln[k]
    /\ UNCHANGED <<proof, blind_signature, saga_state, melt_quote, melt_request, mint_payments, meltReq>>

(* Nothing of this happens.                                                *)
QuietStep ==
    /\ \A o \in MeltOps : saga_state'[o] = saga_state[o]
    /\ \A l \in InternalIds, p \in Quotes : p \in mint_payments'[l] <=> p \in mint_payments[l]
    /\ UNCHANGED <<proof, blind_signature, melt_quote, melt_request, ln, meltReq>>

(* The payments that were made stay made, and paid for.                    *)
KeepsPaid ==
    \A o \in MeltOps : Holds(o) /\ PaymentMade(meltReq[o].quote) =>
        meltReq'[o] = meltReq[o] /\ Holds(o)' /\ PaymentMade(meltReq[o].quote)'

(* What a request that does not take the step relies on.                   *)
OpStays(o) ==
    /\ meltReq'[o] = meltReq[o]
    /\ Holds(o) => Holds(o)'
    /\ ln'[Lid(o)] = ln[Lid(o)]
    /\ Settled(meltReq[o].quote)' => Settled(meltReq[o].quote)
    /\ PaymentMade(meltReq[o].quote) => PaymentMade(meltReq[o].quote)'
    /\ melt_quote[meltReq[o].quote] = "Paid" => melt_quote'[meltReq[o].quote] = "Paid"
    /\ saga_state'[o] = "SetupComplete" => saga_state[o] = "SetupComplete"

(* What a worker that does not take the step relies on.                    *)
WorkStays(w, o, q) ==
    /\ meltReq'[o] = meltReq[o]
    /\ ln[LookupId[q]].state = "failed" => ln'[LookupId[q]].state = "failed"
    /\ ln[LookupId[q]].state = "paid" => ln'[LookupId[q]].state = "paid"
    /\ ln[LookupId[q]].state = "failed" \/ w = "recovery" =>
          \A p \in MeltOps : Holds(p)' /\ Lid(p)' = LookupId[q] => Holds(p) /\ Lid(p) = LookupId[q]
    /\ Holds(o)' => Holds(o)
    /\ Settled(q) => Settled(q)'
    /\ melt_quote[q] = "Paid" => melt_quote'[q] = "Paid"
    /\ melt_quote[q] = "Paid" /\ melt_request[q] = NoOp => melt_request'[q] = NoOp
    /\ w = "recovery" /\ saga_state[o] = "SetupComplete" => saga_state'[o] = "SetupComplete"

Stays(ops, workers) ==
    /\ \A o \in ops : Started(o) => OpStays(o)
    /\ \A w \in workers, o \in MeltOps : Started(o) => WorkStays(w, o, meltReq[o].quote)

LEMMA TableDomains ==
    ASSUME ProcInv
    PROVE  /\ DOMAIN melt_quote = Quotes /\ DOMAIN melt_request = Quotes
           /\ \A o \in MeltOps : o \in DOMAIN saga_state
BY MeltAssumption, Zenon DEF ProcInv, MeltShape

LEMMA OpStaysSafe ==
    ASSUME NEW o \in MeltOps, NEW pc, OpSafe(o, pc), OpStays(o)
    PROVE  OpSafe(o, pc)'
<1>1. Lid(o)' = Lid(o) /\ meltReq'[o] = meltReq[o]
  BY Zenon DEF OpStays, Lid
<1> DEFINE q == meltReq[o].quote
           l == Lid(o)
<1>2. /\ Holds(o) => Holds(o)'
      /\ ln'[l] = ln[l]
      /\ Settled(q)' => Settled(q)
      /\ PaymentMade(q) => PaymentMade(q)'
      /\ melt_quote[q] = "Paid" => melt_quote'[q] = "Paid"
      /\ saga_state'[o] = "SetupComplete" => saga_state[o] = "SetupComplete"
  BY Zenon DEF OpStays
<1>3. q' = q /\ l' = l
  BY <1>1, Zenon
<1> HIDE DEF q, l
<1>4. QED
  BY <1>1, <1>2, <1>3, Zenon DEF OpSafe, q, l

LEMMA WorkStaysSafe ==
    ASSUME NEW w \in Workers, NEW rec \in WorkRecord, WorkSafe(w, rec),
           rec.pc \notin {"idle", "find"} => WorkStays(w, rec.op, rec.quote)
    PROVE  WorkSafe(w, rec)'
<1>1. CASE rec.pc \in {"idle", "find"}
  BY <1>1, Zenon DEF WorkSafe
<1>2. CASE rec.pc \notin {"idle", "find"}
  <2> DEFINE o == rec.op
             q == rec.quote
  <2>1. Started(o) /\ meltReq[o].quote = q /\ WorkStays(w, o, q)
    BY <1>2, Zenon DEF WorkSafe
  <2>2. Started(o)' /\ meltReq'[o] = meltReq[o]
    BY <2>1, Zenon DEF WorkStays, Started
  <2>3. QED
    BY <1>2, <2>1, <2>2, Zenon DEF WorkSafe, WorkStays
<1>3. QED
  BY <1>1, <1>2, Zenon

LEMMA IdleSafe == \A w \in Workers : WorkSafe(w, Idle)
BY Zenon DEF WorkSafe, Idle

(***************************************************************************)
(* Rows of which nothing changed that matters to them.                     *)
(***************************************************************************)
Same(o) ==
    /\ meltReq'[o] = meltReq[o] /\ Lid(o)' = Lid(o)
    /\ Started(o)' <=> Started(o)
    /\ Consumed(o)' <=> Consumed(o)
    /\ Reserved(o)' <=> Reserved(o)
    /\ Holds(o)' <=> Holds(o)

LEMMA HoldersKept ==
    ASSUME HolderRows, \A o \in MeltOps : Same(o), melt_quote' = melt_quote,
           \A o \in MeltOps : saga_state'[o] = "None" => saga_state[o] = "None",
           \A o \in MeltOps : Holds(o) /\ ln[Lid(o)].state = "failed" => ln'[Lid(o)].state = "failed"
    PROVE  HolderRows'
BY DEF HolderRows, Same

LEMMA QuoteKept ==
    ASSUME QuoteRows, NEW q \in Quotes,
           melt_quote'[q] = melt_quote[q], melt_request'[q] = melt_request[q],
           PaymentMade(q) => PaymentMade(q)',
           \A o \in MeltOps : Holds(o) /\ meltReq[o].quote = q =>
               /\ Holds(o)' /\ meltReq'[o] = meltReq[o]
               /\ saga_state'[o] = "None" => saga_state[o] = "None"
    PROVE  QuoteRow(q)'
BY DEF QuoteRows, QuoteRow

LEMMA QuotesKept ==
    ASSUME QuoteRows, \A o \in MeltOps : Same(o),
           melt_quote' = melt_quote, melt_request' = melt_request,
           \A q \in Quotes : PaymentMade(q) => PaymentMade(q)',
           \A o \in MeltOps : saga_state'[o] = "None" => saga_state[o] = "None"
    PROVE  QuoteRows'
<1>1. ASSUME NEW q \in Quotes PROVE QuoteRow(q)'
  BY QuoteKept, Zenon DEF Same
<1>2. QED
  BY <1>1, Zenon DEF QuoteRows, QuoteRow

LEMMA LnRowKept ==
    ASSUME LnRows, NEW l \in LookupIds, ln'[l].by = ln[l].by,
           ln[l].state = "none" => ln'[l].state = "none",
           ln[l].state = "failed" => ln'[l].state \in {"none", "failed"},
           \A o \in MeltOps : /\ Lid(o)' = Lid(o) /\ (Started(o)' <=> Started(o))
                              /\ Holds(o)' => Holds(o)
                              /\ Holds(o) /\ Lid(o) = l => Holds(o)' \/ ln'[l].state \in {"none", "failed"}
    PROVE  LnRow(l)'
BY DEF LnRows, LnRow

LEMMA LnKept ==
    ASSUME LnRows, ln' = ln,
           \A o \in MeltOps : /\ Lid(o)' = Lid(o) /\ (Started(o)' <=> Started(o))
                              /\ Holds(o)' => Holds(o)
                              /\ Holds(o) => Holds(o)' \/ ln[Lid(o)].state \in {"none", "failed"}
    PROVE  LnRows'
<1>1. ASSUME NEW l \in LookupIds PROVE LnRow(l)'
  BY LnRowKept, Zenon
<1>2. QED
  BY <1>1, Zenon DEF LnRows

LEMMA CreditsKept ==
    ASSUME CreditRows, mint_payments' = mint_payments, \A o \in MeltOps : Same(o)
    PROVE  CreditRows'
BY Zenon DEF CreditRows, Same

LEMMA OutputsKept ==
    ASSUME OutputRows, OutputsStay,
           \A o \in MeltOps : meltReq'[o] = meltReq[o] /\ (Started(o)' <=> Started(o))
    PROVE  OutputRows'
BY DEF OutputRows, OutputsStay

LEMMA FinishTables ==
    ASSUME ProcInv, ProcInv', TableInv, NEW h \in MeltOps, NEW q \in Quotes, FinishStep(h, q)
    PROVE  TableInv' /\ KeepsPaid /\ Stays(MeltOps, Workers)
<1>0. \A o \in MeltOps : /\ meltReq[o].ys \subseteq Ys
                         /\ Started(o) => meltReq[o].ys # {}
  BY Zenon DEF ProcInv, MeltShape, StartedOk
<1>1. \A o \in MeltOps : /\ meltReq'[o] = meltReq[o] /\ Lid(o)' = Lid(o)
                         /\ Started(o)' <=> Started(o)
  BY Zenon DEF FinishStep, Lid, Started
<1>2. Started(h) /\ \A y \in meltReq[h].ys : proof[y].op = h
  BY Zenon DEF FinishStep, Holds, Reserved, Consumed
<1>3. Consumed(h)' /\ ~Reserved(h)'
  BY <1>0, <1>1, <1>2, Zenon DEF FinishStep, Reserved, Consumed
<1>4. \A o \in MeltOps \ {h} : \A y \in meltReq[o].ys :
         /\ proof'[y].op = proof[y].op
         /\ proof[y].op = o => proof'[y].state = proof[y].state
  BY <1>0, <1>2, Zenon DEF FinishStep
<1>5. \A o \in MeltOps \ {h} : /\ Consumed(o)' <=> Consumed(o)
                               /\ Reserved(o)' <=> Reserved(o)
  BY <1>1, <1>4 DEF Reserved, Consumed
<1>6. \A o \in MeltOps : Holds(o)' <=> Holds(o)
  <2>1. Holds(h) /\ Holds(h)'
    BY <1>1, <1>2, <1>3, Zenon DEF Holds, FinishStep
  <2>2. \A o \in MeltOps \ {h} : Holds(o)' <=> Holds(o)
    BY <1>1, <1>5, Zenon DEF Holds
  <2>3. QED
    BY <2>1, <2>2, Zenon
<1>7. \A p \in Quotes : /\ PaymentMade(p)' <=> PaymentMade(p)
                        /\ Settled(p)' <=> Settled(p)
  BY Zenon DEF FinishStep, PaymentMade, OfQuote, Settled
<1>8. \A o \in MeltOps : Holds(o) /\ meltReq[o].quote = q => o = h
  BY Zenon DEF TableInv, OneHolder, Lid, FinishStep
<1>9. \A o \in MeltOps : Holds(o) => meltReq[o].quote \in Quotes
  BY Zenon DEF Holds, Started
<1>10. KeepsPaid
  BY <1>1, <1>6, <1>7, <1>9, Zenon DEF KeepsPaid
<1>11. ProofRows'
  BY <1>1, <1>2, <1>6 DEF TableInv, ProofRows, FinishStep
<1>12. HolderRows'
  <2> SUFFICES ASSUME NEW o \in MeltOps, Holds(o)
               PROVE  /\ Consumed(o)' => melt_quote'[meltReq[o].quote] = "Paid"
                      /\ Reserved(o)' =>
                           /\ saga_state'[o] # "None"
                           /\ \/ melt_quote'[meltReq[o].quote] = "Pending"
                              \/ melt_quote'[meltReq[o].quote] = "Unpaid" /\ ln'[Lid(o)].state = "failed"
    BY <1>1, <1>6, Zenon DEF HolderRows
  <2>1. CASE o = h
    BY <2>1, <1>3, Zenon DEF FinishStep
  <2>2. CASE o # h
    <3>1. meltReq[o].quote # q /\ meltReq[o].quote \in Quotes
      BY <2>2, <1>8, <1>9, Zenon
    <3>2. /\ melt_quote'[meltReq[o].quote] = melt_quote[meltReq[o].quote]
          /\ saga_state'[o] = saga_state[o] /\ ln' = ln
      BY <2>2, <3>1, Zenon DEF FinishStep
    <3>3. /\ Consumed(o)' <=> Consumed(o)
          /\ Reserved(o)' <=> Reserved(o)
      BY <2>2, <1>5, Zenon
    <3>4. QED
      BY <3>2, <3>3, Zenon DEF TableInv, HolderRows
  <2>3. QED
    BY <2>1, <2>2, Zenon
<1>13. OneHolder'
  BY <1>1, <1>6, Zenon DEF TableInv, OneHolder
<1>14. QuoteRows'
  <2>1. QuoteRow(q)'
    <3>1. melt_quote'[q] = "Paid" /\ PaymentMade(q)' /\ Holds(h)' /\ meltReq'[h].quote = q
      BY <1>1, <1>6, <1>7, Zenon DEF FinishStep
    <3>2. ASSUME melt_request'[q] # NoOp
          PROVE  melt_request'[q] = h /\ saga_state'[h] # "None"
      <4>1. melt_request[q] = melt_request'[q]
        BY <3>2, Zenon DEF FinishStep
      <4>2. melt_request[q] = h
        BY <3>2, <4>1, <1>8, Zenon DEF TableInv, QuoteRows, QuoteRow
      <4>3. QED
        BY <3>2, <4>1, <4>2, Zenon DEF FinishStep
    <3>3. QED
      BY <3>1, <3>2, Zenon DEF QuoteRow
  <2>2. ASSUME NEW p \in Quotes, p # q PROVE QuoteRow(p)'
    <3>1. melt_quote'[p] = melt_quote[p] /\ melt_request'[p] = melt_request[p]
      BY <2>2, Zenon DEF FinishStep
    <3>2. \A o \in MeltOps : meltReq[o].quote = p => saga_state'[o] = saga_state[o]
      BY <2>2, Zenon DEF FinishStep
    <3>3. QED
      BY <3>1, <3>2, <1>1, <1>6, <1>7, QuoteKept, Zenon DEF TableInv
  <2>3. QED
    BY <2>1, <2>2, Zenon DEF QuoteRows, QuoteRow
<1>15. SagaRows'
  <2>1. saga_state[h] # "SetupComplete"
    BY Zenon DEF TableInv, SagaRows, FinishStep, PaymentMade, Lid, Settled
  <2>2. melt_quote'[q] = "Paid"
    BY Zenon DEF FinishStep
  <2>3. \A o \in MeltOps \ {h} : saga_state'[o] = saga_state[o]
    BY Zenon DEF FinishStep
  <2>4. \A p \in Quotes : melt_quote[p] = "Paid" => melt_quote'[p] = "Paid"
    BY Zenon DEF FinishStep
  <2>5. \A o \in MeltOps \ {h} :
            /\ saga_state'[o] # "None" => Holds(o)'
            /\ saga_state'[o] = "SetupComplete" =>
                  ln'[Lid(o)'].state = "none" /\ ~Settled(meltReq[o].quote)'
            /\ saga_state'[o] = "Finalizing" => melt_quote'[meltReq[o].quote] = "Paid"
    BY <1>1, <1>6, <1>7, <1>9, <2>3, <2>4 DEF TableInv, SagaRows, FinishStep
  <2>6. /\ Holds(h)' /\ saga_state'[h] # "SetupComplete" /\ melt_quote'[meltReq[h].quote] = "Paid"
    BY <1>6, <2>1, <2>2, Zenon DEF FinishStep
  <2>7. QED
    BY <1>1, <2>5, <2>6, Zenon DEF SagaRows
<1>16. LnRows'
  BY <1>1, <1>6, LnKept, Zenon DEF TableInv, FinishStep
<1>17. CreditRows'
  BY <1>1, <1>6 DEF TableInv, CreditRows, FinishStep
<1>18. OutputRows'
  BY <1>1, OutputsKept, Zenon DEF TableInv, FinishStep
<1>19. Stays(MeltOps, Workers)
  <2>1. saga_state[h] # "SetupComplete"
    BY Zenon DEF TableInv, SagaRows, FinishStep, PaymentMade, Lid, Settled
  <2>2. \A o \in MeltOps : saga_state'[o] = "SetupComplete" <=> saga_state[o] = "SetupComplete"
    BY <2>1, Zenon DEF FinishStep
  <2>3. \A p \in Quotes : /\ melt_quote[p] = "Paid" => melt_quote'[p] = "Paid"
                          /\ melt_request[p] = NoOp => melt_request'[p] = NoOp
    BY Zenon DEF FinishStep
  <2>4. ln' = ln
    BY Zenon DEF FinishStep
  <2>5. \A o \in MeltOps : Started(o) => OpStays(o)
    BY <1>1, <1>6, <1>7, <2>2, <2>3, <2>4, Zenon DEF Started, OpStays
  <2>6. \A w \in Workers, o \in MeltOps : Started(o) => WorkStays(w, o, meltReq[o].quote)
    BY <1>1, <1>6, <1>7, <2>2, <2>3, <2>4, Zenon DEF Started, WorkStays
  <2>7. QED
    BY <2>5, <2>6, Zenon DEF Stays
<1>20. QED
  BY <1>10, <1>11, <1>12, <1>13, <1>14, <1>15, <1>16, <1>17, <1>18, <1>19, Zenon DEF TableInv

LEMMA ReturnTables ==
    ASSUME ProcInv, ProcInv', TableInv, NEW h \in MeltOps, NEW q \in Quotes, ReturnStep(h, q)
    PROVE  /\ TableInv' /\ KeepsPaid /\ Stays(MeltOps \ {h}, Pollers)
           /\ ln[LookupId[q]].state = "failed" => \A pc : OpSafe(h, pc) => OpSafe(h, pc)'
<1>0. \A o \in MeltOps : /\ meltReq[o].ys \subseteq Ys
                         /\ Started(o) => meltReq[o].ys # {}
  BY Zenon DEF ProcInv, MeltShape, StartedOk
<1>1. \A o \in MeltOps : /\ meltReq'[o] = meltReq[o] /\ Lid(o)' = Lid(o)
                         /\ Started(o)' <=> Started(o)
  BY Zenon DEF ReturnStep, Lid, Started
<1>2. Started(h) /\ \A y \in meltReq[h].ys : proof[y].op = h /\ proof[y].state = "Pending"
  BY Zenon DEF ReturnStep, Holds, Reserved
<1>3. ~Holds(h)'
  BY <1>0, <1>1, <1>2 DEF ReturnStep, Holds, Reserved, Consumed
<1>4. \A o \in MeltOps \ {h} : Started(o) =>
         /\ Consumed(o)' <=> Consumed(o)
         /\ Reserved(o)' <=> Reserved(o)
  <2> SUFFICES ASSUME NEW o \in MeltOps \ {h}
               PROVE  /\ Consumed(o)' <=> Consumed(o)
                      /\ Reserved(o)' <=> Reserved(o)
    BY Zenon
  <2>1. CASE meltReq[o].ys \cap meltReq[h].ys = {}
    <3>1. \A y \in meltReq[o].ys : proof'[y] = proof[y]
      BY <2>1, <1>0, Zenon DEF ReturnStep
    <3>2. QED
      BY <1>1, <3>1, Zenon DEF Consumed, Reserved
  <2>2. CASE meltReq[o].ys \cap meltReq[h].ys # {}
    <3>1. PICK y \in meltReq[o].ys : y \in meltReq[h].ys
      BY <2>2, Zenon
    <3>2. proof[y].op # o /\ proof'[y].state = "None"
      BY <3>1, <1>0, <1>2, Zenon DEF ReturnStep
    <3>3. QED
      BY <1>1, <3>1, <3>2, Zenon DEF Consumed, Reserved
  <2>3. QED
    BY <2>1, <2>2, Zenon
<1>5. \A o \in MeltOps \ {h} : Holds(o)' <=> Holds(o)
  BY <1>1, <1>4, Zenon DEF Holds
<1>6. \A o \in MeltOps : Holds(o)' <=> Holds(o) /\ o # h
  BY <1>3, <1>5, Zenon
<1>7. \A p \in Quotes : /\ PaymentMade(p)' <=> PaymentMade(p)
                        /\ Settled(p)' <=> Settled(p)
  BY Zenon DEF ReturnStep, PaymentMade, OfQuote, Settled
<1>8. \A o \in MeltOps : Holds(o) /\ meltReq[o].quote = q => o = h
  BY Zenon DEF TableInv, OneHolder, Lid, ReturnStep
<1>9. \A o \in MeltOps : Holds(o) => meltReq[o].quote \in Quotes
  BY Zenon DEF Holds, Started
<1>10. ~PaymentMade(q) /\ melt_quote[q] # "Paid"
  <2>1. ~PaymentMade(q)
    BY Zenon DEF ReturnStep, PaymentMade, Settled
  <2>2. QED
    BY <2>1, Zenon DEF TableInv, QuoteRows, QuoteRow
<1>11. KeepsPaid
  BY <1>1, <1>6, <1>7, <1>9, <1>10, Zenon DEF KeepsPaid, ReturnStep
<1>12. ProofRows'
  <2> SUFFICES ASSUME NEW y \in Ys, proof'[y].state # "None"
               PROVE  \E o \in MeltOps : proof'[y].op = o /\ Holds(o)' /\ y \in meltReq[o].ys
    BY <1>1, Zenon DEF ProofRows
  <2>1. y \notin meltReq[h].ys /\ proof'[y] = proof[y]
    BY Zenon DEF ReturnStep
  <2>2. PICK o \in MeltOps : proof[y].op = o /\ Holds(o) /\ y \in meltReq[o].ys
    BY <2>1, Zenon DEF TableInv, ProofRows
  <2>3. QED
    BY <2>1, <2>2, <1>6, Zenon
<1>13. HolderRows'
  <2> SUFFICES ASSUME NEW o \in MeltOps, Holds(o), o # h
               PROVE  /\ Consumed(o)' => melt_quote'[meltReq[o].quote] = "Paid"
                      /\ Reserved(o)' =>
                           /\ saga_state'[o] # "None"
                           /\ \/ melt_quote'[meltReq[o].quote] = "Pending"
                              \/ melt_quote'[meltReq[o].quote] = "Unpaid" /\ ln'[Lid(o)].state = "failed"
    BY <1>1, <1>6, Zenon DEF HolderRows
  <2>1. meltReq[o].quote # q /\ meltReq[o].quote \in Quotes /\ Started(o)
    BY <1>8, <1>9, Zenon DEF Holds
  <2>2. /\ melt_quote'[meltReq[o].quote] = melt_quote[meltReq[o].quote]
        /\ saga_state'[o] = saga_state[o] /\ ln' = ln
    BY <2>1, Zenon DEF ReturnStep
  <2>3. QED
    BY <2>1, <2>2, <1>4, Zenon DEF TableInv, HolderRows
<1>14. OneHolder'
  BY <1>1, <1>6, Zenon DEF TableInv, OneHolder
<1>15. QuoteRows'
  <2>1. QuoteRow(q)'
    BY Zenon DEF QuoteRow, ReturnStep, RequestGone
  <2>2. ASSUME NEW p \in Quotes, p # q PROVE QuoteRow(p)'
    <3>1. melt_quote'[p] = melt_quote[p] /\ melt_request'[p] = melt_request[p]
      BY <2>2, Zenon DEF ReturnStep, RequestGone
    <3>2. \A o \in MeltOps : meltReq[o].quote = p =>
             /\ saga_state'[o] = saga_state[o]
             /\ Holds(o)' <=> Holds(o)
      BY <2>2, <1>6, Zenon DEF ReturnStep
    <3>3. QED
      BY <3>1, <3>2, <1>1, <1>7, QuoteKept, Zenon DEF TableInv
  <2>3. QED
    BY <2>1, <2>2, Zenon DEF QuoteRows, QuoteRow
<1>16. SagaRows'
  <2> SUFFICES ASSUME NEW o \in MeltOps, o # h, saga_state[o] # "None"
               PROVE  /\ Holds(o)'
                      /\ saga_state[o] = "SetupComplete" =>
                            ln'[Lid(o)].state = "none" /\ ~Settled(meltReq[o].quote)'
                      /\ saga_state[o] = "Finalizing" => melt_quote'[meltReq[o].quote] = "Paid"
    BY <1>1 DEF SagaRows, ReturnStep
  <2>1. Holds(o) /\ meltReq[o].quote \in Quotes /\ meltReq[o].quote # q
    BY <1>8, <1>9, Zenon DEF TableInv, SagaRows
  <2>2. melt_quote'[meltReq[o].quote] = melt_quote[meltReq[o].quote] /\ ln' = ln
    BY <2>1, Zenon DEF ReturnStep
  <2>3. QED
    BY <2>1, <2>2, <1>1, <1>6, <1>7, Zenon DEF TableInv, SagaRows
<1>17. LnRows'
  <2>1. ln' = ln /\ ln[Lid(h)].state \in {"none", "failed"}
    BY Zenon DEF ReturnStep, Lid
  <2>2. QED
    BY <2>1, <1>1, <1>6, LnKept, Zenon DEF TableInv
<1>18. CreditRows'
  <2> SUFFICES ASSUME NEW l \in InternalIds, NEW p \in Quotes, p \in mint_payments[l]
               PROVE  LookupId[p] = l /\ \E o \in MeltOps : Holds(o)' /\ meltReq[o].quote = p
    BY <1>1, Zenon DEF CreditRows, ReturnStep
  <2>1. LookupId[p] = l
    BY Zenon DEF TableInv, CreditRows
  <2>2. PICK o \in MeltOps : Holds(o) /\ meltReq[o].quote = p
    BY Zenon DEF TableInv, CreditRows
  <2>3. p # q
    BY <2>1, Zenon DEF ReturnStep, Settled
  <2>4. QED
    BY <2>1, <2>2, <2>3, <1>6, Zenon DEF ReturnStep
<1>19. OutputRows'
  BY <1>1, OutputsKept, Zenon DEF TableInv, ReturnStep
<1>20. /\ \A p \in Quotes : /\ melt_quote[p] = "Paid" => melt_quote'[p] = "Paid"
                            /\ melt_request[p] = NoOp => melt_request'[p] = NoOp
       /\ ln' = ln
       /\ \A o \in MeltOps : saga_state'[o] = "SetupComplete" => saga_state[o] = "SetupComplete"
  BY <1>10, Zenon DEF ReturnStep, RequestGone
<1>21. Stays(MeltOps \ {h}, Pollers)
  <2>1. \A o \in MeltOps \ {h} : Started(o) => OpStays(o)
    BY <1>1, <1>6, <1>7, <1>20, Zenon DEF Started, OpStays
  <2>2. \A w \in Pollers, o \in MeltOps : Started(o) => WorkStays(w, o, meltReq[o].quote)
    BY <1>1, <1>6, <1>7, <1>20, MeltAssumption, Zenon DEF Started, WorkStays
  <2>3. QED
    BY <2>1, <2>2, Zenon DEF Stays
<1>22. ASSUME ln[LookupId[q]].state = "failed", NEW pc, OpSafe(h, pc)
       PROVE  OpSafe(h, pc)'
  <2>1. /\ Lid(h) = LookupId[q] /\ meltReq[h].quote = q /\ Lid(h)' = Lid(h) /\ meltReq'[h] = meltReq[h]
    BY <1>1, Zenon DEF Lid, ReturnStep
  <2>2. QED
    BY <1>22, <2>1, <1>7, <1>10, <1>20, Zenon DEF OpSafe
<1>23. QED
  BY <1>11, <1>12, <1>13, <1>14, <1>15, <1>16, <1>17, <1>18, <1>19, <1>21, <1>22, Zenon DEF TableInv

LEMMA ReopenTables ==
    ASSUME ProcInv, ProcInv', TableInv, NEW q \in Quotes, ReopenStep(q)
    PROVE  TableInv' /\ KeepsPaid /\ Stays(MeltOps, Workers)
<1>0. \A o \in MeltOps : meltReq[o].ys \subseteq Ys
  BY Zenon DEF ProcInv, MeltShape
<1>1. \A o \in MeltOps : /\ meltReq'[o] = meltReq[o] /\ Lid(o)' = Lid(o)
                         /\ Started(o)' <=> Started(o)
  BY Zenon DEF ReopenStep, Lid, Started
<1>2. \A o \in MeltOps : /\ Consumed(o)' <=> Consumed(o)
                         /\ Reserved(o)' <=> Reserved(o)
  <2>1. \A o \in MeltOps : \A y \in meltReq[o].ys : proof'[y] = proof[y]
    BY <1>0, Zenon DEF ReopenStep
  <2>2. QED
    BY <1>1, <2>1 DEF Consumed, Reserved
<1>3. \A o \in MeltOps : Holds(o)' <=> Holds(o)
  BY <1>1, <1>2, Zenon DEF Holds
<1>4. \A p \in Quotes : /\ PaymentMade(p)' <=> PaymentMade(p)
                        /\ Settled(p)' <=> Settled(p)
  BY Zenon DEF ReopenStep, PaymentMade, OfQuote, Settled
<1>5. \A o \in MeltOps : Holds(o) => meltReq[o].quote \in Quotes
  BY Zenon DEF Holds, Started
<1>6. /\ ln' = ln /\ \A o \in MeltOps : saga_state'[o] = saga_state[o]
      /\ \A p \in Quotes : p # q => melt_quote'[p] = melt_quote[p] /\ melt_request'[p] = melt_request[p]
      /\ melt_quote'[q] = "Unpaid" /\ melt_request'[q] = NoOp
      /\ melt_quote[q] = "Pending" /\ ln[LookupId[q]].state = "failed"
  BY Zenon DEF ReopenStep, RequestGone
<1>7. KeepsPaid
  BY <1>1, <1>3, <1>4, <1>5, Zenon DEF KeepsPaid
<1>8. ProofRows'
  BY <1>1, <1>3, Zenon DEF TableInv, ProofRows, ReopenStep
<1>9. HolderRows'
  <2> SUFFICES ASSUME NEW o \in MeltOps, Holds(o)
               PROVE  /\ Consumed(o) => melt_quote'[meltReq[o].quote] = "Paid"
                      /\ Reserved(o) =>
                           /\ saga_state[o] # "None"
                           /\ \/ melt_quote'[meltReq[o].quote] = "Pending"
                              \/ melt_quote'[meltReq[o].quote] = "Unpaid" /\ ln[Lid(o)].state = "failed"
    BY <1>1, <1>2, <1>3, <1>6, Zenon DEF HolderRows
  <2>1. CASE meltReq[o].quote = q
    BY <2>1, <1>6, Zenon DEF TableInv, HolderRows, Lid
  <2>2. CASE meltReq[o].quote # q
    BY <2>2, <1>5, <1>6, Zenon DEF TableInv, HolderRows
  <2>3. QED
    BY <2>1, <2>2, Zenon
<1>10. OneHolder'
  BY <1>1, <1>3, Zenon DEF TableInv, OneHolder
<1>11. QuoteRows'
  <2>1. QuoteRow(q)'
    BY <1>6, Zenon DEF QuoteRow
  <2>2. ASSUME NEW p \in Quotes, p # q PROVE QuoteRow(p)'
    BY <2>2, <1>1, <1>3, <1>4, <1>6, QuoteKept, Zenon DEF TableInv
  <2>3. QED
    BY <2>1, <2>2, Zenon DEF QuoteRows, QuoteRow
<1>12. SagaRows'
  <2> SUFFICES ASSUME NEW o \in MeltOps, saga_state[o] # "None"
               PROVE  /\ Holds(o)
                      /\ saga_state[o] = "SetupComplete" =>
                            ln[Lid(o)].state = "none" /\ ~Settled(meltReq[o].quote)'
                      /\ saga_state[o] = "Finalizing" => melt_quote'[meltReq[o].quote] = "Paid"
    BY <1>1, <1>3, <1>6, Zenon DEF SagaRows
  <2>1. Holds(o) /\ meltReq[o].quote \in Quotes
    BY <1>5, Zenon DEF TableInv, SagaRows
  <2>2. QED
    BY <2>1, <1>1, <1>4, <1>6, Zenon DEF TableInv, SagaRows
<1>13. LnRows'
  BY <1>1, <1>3, <1>6, LnKept, Zenon DEF TableInv
<1>14. CreditRows'
  BY <1>1, <1>3, Zenon DEF TableInv, CreditRows, ReopenStep
<1>15. OutputRows'
  BY <1>1, OutputsKept, Zenon DEF TableInv, ReopenStep
<1>16. \A p \in Quotes : /\ melt_quote[p] = "Paid" => melt_quote'[p] = "Paid"
                         /\ melt_request[p] = NoOp => melt_request'[p] = NoOp
  BY <1>6, Zenon
<1>17. Stays(MeltOps, Workers)
  <2>1. \A o \in MeltOps : Started(o) => OpStays(o)
    BY <1>1, <1>3, <1>4, <1>6, <1>16, Zenon DEF Started, OpStays
  <2>2. \A w \in Workers, o \in MeltOps : Started(o) => WorkStays(w, o, meltReq[o].quote)
    BY <1>1, <1>3, <1>4, <1>6, <1>16, Zenon DEF Started, WorkStays
  <2>3. QED
    BY <2>1, <2>2, Zenon DEF Stays
<1>18. QED
  BY <1>7, <1>8, <1>9, <1>10, <1>11, <1>12, <1>13, <1>14, <1>15, <1>17, Zenon DEF TableInv

LEMMA SetupTables ==
    ASSUME ProcInv, ProcInv', TableInv, NEW o \in MeltOps, NEW q \in Quotes, NEW ys, NEW bs,
           SetupStep(o, q, ys, bs)
    PROVE  TableInv' /\ KeepsPaid /\ Stays(MeltOps, Pollers) /\ OpSafe(o, "setup")'
<1>0. \A p \in MeltOps : meltReq[p].ys \subseteq Ys
  BY Zenon DEF ProcInv, MeltShape
<1>1. \A p \in MeltOps \ {o} : /\ meltReq'[p] = meltReq[p] /\ Lid(p)' = Lid(p)
                               /\ Started(p)' <=> Started(p)
  BY Zenon DEF SetupStep, Lid, Started
<1>2. /\ Started(o)' /\ ~Started(o) /\ Lid(o)' = LookupId[q]
      /\ meltReq'[o].quote = q /\ meltReq'[o].ys = ys
  BY DEF SetupStep, Lid, Started
<1>3. Reserved(o)' /\ ~Consumed(o)' /\ Holds(o)' /\ ~Holds(o)
  BY <1>2, Zenon DEF SetupStep, Reserved, Consumed, Holds
<1>4. \A p \in MeltOps \ {o} : /\ Consumed(p)' <=> Consumed(p)
                               /\ Reserved(p)' <=> Reserved(p)
  <2> SUFFICES ASSUME NEW p \in MeltOps \ {o}
               PROVE  /\ Consumed(p)' <=> Consumed(p)
                      /\ Reserved(p)' <=> Reserved(p)
    BY Zenon
  <2>1. CASE meltReq[p].ys \cap ys = {}
    <3>1. \A y \in meltReq[p].ys : proof'[y] = proof[y]
      BY <2>1, <1>0, Zenon DEF SetupStep
    <3>2. QED
      BY <1>1, <3>1, Zenon DEF Consumed, Reserved
  <2>2. CASE meltReq[p].ys \cap ys # {}
    <3>1. PICK y \in meltReq[p].ys : y \in ys
      BY <2>2, Zenon
    <3>2. proof'[y].op # p /\ proof[y].state = "None"
      BY <3>1, Zenon DEF SetupStep
    <3>3. QED
      BY <1>1, <3>1, <3>2, Zenon DEF Consumed, Reserved
  <2>3. QED
    BY <2>1, <2>2, Zenon
<1>5. \A p \in MeltOps : Holds(p)' <=> p = o \/ Holds(p)
  <2>1. \A p \in MeltOps \ {o} : Holds(p)' <=> Holds(p)
    BY <1>1, <1>4, Zenon DEF Holds
  <2>2. QED
    BY <1>3, <2>1, Zenon
<1>6. \A p \in MeltOps : Holds(p) => p # o /\ meltReq[p].quote \in Quotes /\ Started(p)
  BY <1>3, Zenon DEF Holds, Started
<1>7. \A p \in MeltOps : Holds(p) => Lid(p) # LookupId[q]
  <2> SUFFICES ASSUME NEW p \in MeltOps, Holds(p), Lid(p) = LookupId[q]
               PROVE  FALSE
    BY Zenon
  <2>1. melt_quote[meltReq[p].quote] \in {"Paid", "Pending"}
    BY Zenon DEF TableInv, HolderRows, SetupStep, Holds
  <2>2. QED
    BY <2>1, <1>6, Zenon DEF SetupStep, NoConflict, Lid
<1>8. LookupId[q] \in LookupIds /\ ln[LookupId[q]].state = "none"
  <2>1. LookupId[q] \in LookupIds
    BY Zenon DEF LookupIds
  <2>2. QED
    BY <2>1, <1>7, Zenon DEF TableInv, LnRows, LnRow, SetupStep
<1>9. ~Settled(q)
  BY <1>7 DEF TableInv, CreditRows, Settled, Lid
<1>10. ln' = ln /\ mint_payments' = mint_payments
  BY Zenon DEF SetupStep
<1>11. \A p \in Quotes : /\ Settled(p)' <=> Settled(p)
                         /\ PaymentMade(p)' <=> PaymentMade(p)
  <2>1. \A p \in Quotes : Settled(p)' <=> Settled(p)
    BY <1>10, Zenon DEF Settled
  <2>2. \A l \in LookupIds : ln[l].state = "paid" => ln[l].by # o
    BY <1>2, Zenon DEF TableInv, LnRows, LnRow
  <2>3. \A p \in Quotes : PaymentMade(p)' <=> PaymentMade(p)
    BY <1>1, <1>10, <2>2, Zenon DEF PaymentMade, OfQuote, LookupIds
  <2>4. QED
    BY <2>1, <2>3, Zenon
<1>12. /\ \A p \in MeltOps \ {o} : saga_state'[p] = saga_state[p]
       /\ saga_state'[o] = "SetupComplete"
       /\ \A p \in Quotes : p # q => melt_quote'[p] = melt_quote[p] /\ melt_request'[p] = melt_request[p]
       /\ melt_quote'[q] = "Pending" /\ melt_request'[q] = o /\ melt_quote[q] = "Unpaid" /\ o # NoOp
  BY MeltAssumption, StoreAssumption, Zenon DEF SetupStep
<1>13. \A p \in MeltOps : Holds(p) => meltReq[p].quote # q
  BY <1>7, Zenon DEF Lid
<1>14. KeepsPaid
  BY <1>1, <1>5, <1>6, <1>11, Zenon DEF KeepsPaid
<1>15. ProofRows'
  <2> SUFFICES ASSUME NEW y \in Ys, proof'[y].state # "None"
               PROVE  \E p \in MeltOps : proof'[y].op = p /\ Holds(p)' /\ y \in meltReq'[p].ys
    BY Zenon DEF ProofRows
  <2>1. CASE y \in ys
    BY <2>1, <1>2, <1>3, Zenon DEF SetupStep
  <2>2. CASE y \notin ys
    <3>1. proof'[y] = proof[y]
      BY <2>2, Zenon DEF SetupStep
    <3>2. PICK p \in MeltOps : proof[y].op = p /\ Holds(p) /\ y \in meltReq[p].ys
      BY <3>1, Zenon DEF TableInv, ProofRows
    <3>3. QED
      BY <3>1, <3>2, <1>1, <1>5, <1>6, Zenon
  <2>3. QED
    BY <2>1, <2>2, Zenon
<1>16. HolderRows'
  <2>1. ASSUME NEW p \in MeltOps, Holds(p)
        PROVE  /\ Consumed(p)' => melt_quote'[meltReq'[p].quote] = "Paid"
               /\ Reserved(p)' =>
                    /\ saga_state'[p] # "None"
                    /\ \/ melt_quote'[meltReq'[p].quote] = "Pending"
                       \/ melt_quote'[meltReq'[p].quote] = "Unpaid" /\ ln'[Lid(p)'].state = "failed"
    <3>1. p # o /\ meltReq[p].quote \in Quotes /\ meltReq[p].quote # q
      BY <2>1, <1>6, <1>13, Zenon
    <3>2. /\ meltReq'[p] = meltReq[p] /\ Lid(p)' = Lid(p) /\ saga_state'[p] = saga_state[p]
          /\ melt_quote'[meltReq[p].quote] = melt_quote[meltReq[p].quote]
          /\ Consumed(p)' <=> Consumed(p)
          /\ Reserved(p)' <=> Reserved(p)
      BY <3>1, <1>1, <1>4, <1>12, Zenon
    <3>3. QED
      BY <2>1, <3>2, <1>10, Zenon DEF TableInv, HolderRows
  <2>2. QED
    BY <2>1, <1>2, <1>3, <1>5, <1>12, Zenon DEF HolderRows
<1>17. OneHolder'
  <2>1. \A p \in MeltOps : Holds(p) => p # o /\ Lid(p)' = Lid(p) /\ Lid(p)' # LookupId[q]
    BY <1>1, <1>6, <1>7, Zenon
  <2>2. QED
    BY <2>1, <1>2, <1>5, Zenon DEF TableInv, OneHolder
<1>18. QuoteRows'
  <2>1. QuoteRow(q)'
    BY <1>2, <1>3, <1>12, Zenon DEF QuoteRow
  <2>2. ASSUME NEW p \in Quotes, p # q PROVE QuoteRow(p)'
    <3>1. \A h \in MeltOps : Holds(h) =>
             Holds(h)' /\ meltReq'[h] = meltReq[h] /\ saga_state'[h] = saga_state[h]
      BY <1>1, <1>5, <1>6, <1>12, Zenon
    <3>2. melt_quote'[p] = melt_quote[p] /\ melt_request'[p] = melt_request[p]
      BY <2>2, <1>12, Zenon
    <3>3. QED
      BY <3>1, <3>2, <1>11, QuoteKept, Zenon DEF TableInv
  <2>3. QED
    BY <2>1, <2>2, Zenon DEF QuoteRows, QuoteRow
<1>19. SagaRows'
  <2>1. ASSUME NEW p \in MeltOps, p # o, saga_state[p] # "None"
        PROVE  /\ Holds(p)'
               /\ saga_state[p] = "SetupComplete" =>
                     ln'[Lid(p)'].state = "none" /\ ~Settled(meltReq[p].quote)'
               /\ saga_state[p] = "Finalizing" => melt_quote'[meltReq'[p].quote] = "Paid"
    <3>1. Holds(p) /\ meltReq[p].quote \in Quotes /\ meltReq[p].quote # q
      BY <2>1, <1>6, <1>13, Zenon DEF TableInv, SagaRows
    <3>2. meltReq'[p] = meltReq[p] /\ Lid(p)' = Lid(p)
      BY <2>1, <1>1, Zenon
    <3>3. QED
      BY <2>1, <3>1, <3>2, <1>5, <1>10, <1>11, <1>12, Zenon DEF TableInv, SagaRows
  <2>2. /\ Holds(o)' /\ ln'[Lid(o)'].state = "none" /\ ~Settled(q)'
    BY <1>2, <1>3, <1>8, <1>9, <1>10, <1>11, Zenon
  <2>3. QED
    BY <2>1, <2>2, <1>2, <1>12, Zenon DEF SagaRows
<1>20. LnRows'
  <2> SUFFICES ASSUME NEW l \in LookupIds, ln[l].state # "none"
               PROVE  /\ l \notin InternalIds
                      /\ \E g \in MeltOps :
                            /\ ln[l].by = g /\ Started(g)' /\ Lid(g)' = l
                            /\ \A p \in MeltOps : Holds(p)' /\ Lid(p)' = l => p = g
                            /\ ln[l].state # "failed" => Holds(g)'
    BY <1>10, Zenon DEF LnRows, LnRow
  <2>1. l \notin InternalIds
    BY Zenon DEF TableInv, LnRows, LnRow
  <2>2. PICK g \in MeltOps :
           /\ ln[l].by = g /\ Started(g) /\ Lid(g) = l
           /\ \A p \in MeltOps : Holds(p) /\ Lid(p) = l => p = g
           /\ ln[l].state # "failed" => Holds(g)
    BY Zenon DEF TableInv, LnRows, LnRow
  <2>3. g # o /\ l # LookupId[q]
    BY <2>2, <1>2, <1>8, Zenon
  <2>4. \A p \in MeltOps : Holds(p)' /\ Lid(p)' = l => Holds(p) /\ Lid(p) = l
    BY <2>3, <1>1, <1>2, <1>5, Zenon
  <2>5. QED
    BY <2>1, <2>2, <2>3, <2>4, <1>1, <1>5, Zenon
<1>21. CreditRows'
  <2>1. \A h \in MeltOps : Holds(h) => Holds(h)' /\ meltReq'[h] = meltReq[h]
    BY <1>1, <1>5, <1>6, Zenon
  <2>2. QED
    BY <2>1, <1>10, Zenon DEF TableInv, CreditRows
<1>22. OutputRows'
  <2> SUFFICES ASSUME NEW b \in Outs, blind_signature'[b].state = "Unsigned"
               PROVE  \E p \in MeltOps : /\ blind_signature'[b].op = p /\ Started(p)'
                                         /\ melt_request'[meltReq'[p].quote] # NoOp
    BY Zenon DEF OutputRows
  <2>1. CASE blind_signature'[b].op = o
    BY <2>1, <1>2, <1>12, Zenon
  <2>2. CASE blind_signature'[b].op # o
    <3>1. blind_signature'[b] = blind_signature[b]
      BY <2>2, Zenon DEF SetupStep
    <3>2. PICK p \in MeltOps : /\ blind_signature[b].op = p /\ Started(p)
                               /\ melt_request[meltReq[p].quote] # NoOp
      BY <3>1, Zenon DEF TableInv, OutputRows
    <3>3. p # o /\ meltReq'[p] = meltReq[p] /\ Started(p)' /\ meltReq[p].quote \in Quotes
      BY <3>1, <3>2, <2>2, <1>1, Zenon DEF Started
    <3>4. melt_request'[meltReq[p].quote] # NoOp
      BY <3>2, <3>3, <1>12, Zenon
    <3>5. QED
      BY <3>1, <3>2, <3>3, <3>4, Zenon
  <2>3. QED
    BY <2>1, <2>2, Zenon
<1>23. Stays(MeltOps, Pollers)
  <2>1. \A p \in MeltOps : Started(p) => p # o /\ meltReq[p].quote \in Quotes
    BY <1>2, Zenon DEF Started
  <2>2. \A p \in Quotes : melt_quote[p] = "Paid" => melt_quote'[p] = "Paid" /\ melt_request'[p] = melt_request[p]
    BY <1>12, Zenon
  <2>3. ASSUME NEW p \in MeltOps, Started(p) PROVE OpStays(p)
    <3>1. p # o /\ meltReq[p].quote \in Quotes /\ meltReq'[p] = meltReq[p]
      BY <2>1, <2>3, <1>1, Zenon
    <3>2. QED
      BY <3>1, <2>2, <1>5, <1>10, <1>11, <1>12, Zenon DEF OpStays
  <2>4. ASSUME NEW w \in Pollers, NEW p \in MeltOps, Started(p)
        PROVE  WorkStays(w, p, meltReq[p].quote)
    <3>1. p # o /\ meltReq[p].quote \in Quotes /\ meltReq'[p] = meltReq[p] /\ w # "recovery"
      BY <2>1, <2>4, <1>1, MeltAssumption, Zenon
    <3>2. ln[LookupId[meltReq[p].quote]].state = "failed" =>
            \A g \in MeltOps : Holds(g)' /\ Lid(g)' = LookupId[meltReq[p].quote]
                => Holds(g) /\ Lid(g) = LookupId[meltReq[p].quote]
      BY <1>1, <1>2, <1>5, <1>8, Zenon
    <3>3. QED
      BY <3>1, <3>2, <2>2, <1>5, <1>10, <1>11, <1>12, Zenon DEF WorkStays
  <2>5. QED
    BY <2>3, <2>4, Zenon DEF Stays
<1>24. OpSafe(o, "setup")'
  BY <1>2, <1>3, <1>8, <1>9, <1>10, <1>11, Zenon DEF OpSafe
<1>25. QED
  BY <1>14, <1>15, <1>16, <1>17, <1>18, <1>19, <1>20, <1>21, <1>22, <1>23, <1>24, Zenon DEF TableInv

LEMMA CreditTables ==
    ASSUME ProcInv, ProcInv', TableInv, NEW o \in MeltOps, NEW credit \in BOOLEAN, CreditStep(o, credit)
    PROVE  TableInv' /\ KeepsPaid /\ Stays({p \in MeltOps : Lid(p) # Lid(o)}, Pollers)
<1>1. \A p \in MeltOps : Same(p)
  BY Zenon DEF CreditStep, Same, Lid, Started, Consumed, Reserved, Holds
<1>2. /\ ln' = ln /\ melt_quote' = melt_quote /\ melt_request' = melt_request /\ proof' = proof
      /\ \A p \in MeltOps : saga_state'[p] = "None" <=> saga_state[p] = "None"
      /\ \A p \in MeltOps : p # o => saga_state'[p] = saga_state[p]
      /\ saga_state'[o] \in {"None", "PaymentAttempted"}
  BY Zenon DEF CreditStep
<1>3. \A p \in MeltOps : Holds(p) => meltReq[p].quote \in Quotes
  BY Zenon DEF Holds, Started
<1>4. \A p \in Quotes : /\ Settled(p) => Settled(p)'
                        /\ Settled(p)' => Settled(p) \/ p = meltReq[o].quote
                        /\ PaymentMade(p) => PaymentMade(p)'
  <2>1. \A p \in Quotes : /\ Settled(p) => Settled(p)'
                          /\ Settled(p)' => Settled(p) \/ p = meltReq[o].quote
    BY Zenon DEF CreditStep, Settled
  <2>2. \A p \in Quotes : PaymentMade(p) => PaymentMade(p)'
    BY Zenon DEF CreditStep, PaymentMade, OfQuote
  <2>3. QED
    BY <2>1, <2>2, Zenon
<1>5. KeepsPaid
  BY <1>1, <1>3, <1>4, Zenon DEF KeepsPaid, Same
<1>6. ProofRows'
  BY <1>1, <1>2, Zenon DEF TableInv, ProofRows, Same
<1>7. HolderRows'
  BY <1>1, <1>2, HoldersKept, Zenon DEF TableInv
<1>8. OneHolder'
  BY <1>1, Zenon DEF TableInv, OneHolder, Same
<1>9. QuoteRows'
  BY <1>1, <1>2, <1>4, QuotesKept, Zenon DEF TableInv
<1>10. SagaRows'
  <2> SUFFICES ASSUME NEW p \in MeltOps, saga_state'[p] # "None"
               PROVE  /\ Holds(p)'
                      /\ saga_state'[p] = "SetupComplete" =>
                            ln'[Lid(p)'].state = "none" /\ ~Settled(meltReq[p].quote)'
                      /\ saga_state'[p] = "Finalizing" => melt_quote'[meltReq'[p].quote] = "Paid"
    BY <1>1, Zenon DEF SagaRows, Same
  <2>1. /\ Holds(p) /\ Holds(p)' /\ meltReq[p].quote \in Quotes
        /\ meltReq'[p] = meltReq[p] /\ Lid(p)' = Lid(p)
    BY <1>1, <1>2, <1>3, Zenon DEF TableInv, SagaRows, Same
  <2>2. CASE p = o
    BY <2>1, <2>2, <1>2, Zenon
  <2>3. CASE p # o
    <3>1. meltReq[p].quote # meltReq[o].quote
      BY <2>1, <2>3, Zenon DEF TableInv, OneHolder, CreditStep, Lid
    <3>2. QED
      BY <2>1, <2>3, <3>1, <1>2, <1>4, Zenon DEF TableInv, SagaRows
  <2>4. QED
    BY <2>2, <2>3, Zenon
<1>11. LnRows'
  BY <1>1, <1>2, LnKept, Zenon DEF TableInv, Same
<1>12. CreditRows'
  <2> SUFFICES ASSUME NEW l \in InternalIds, NEW p \in Quotes, p \in mint_payments'[l]
               PROVE  LookupId[p] = l /\ \E h \in MeltOps : Holds(h) /\ meltReq[h].quote = p
    BY <1>1, Zenon DEF CreditRows, Same
  <2>1. CASE p \in mint_payments[l]
    BY <2>1, Zenon DEF TableInv, CreditRows
  <2>2. CASE p \notin mint_payments[l]
    BY <2>2, Zenon DEF CreditStep, Lid
  <2>3. QED
    BY <2>1, <2>2, Zenon
<1>13. OutputRows'
  BY <1>1, <1>2, Zenon DEF TableInv, OutputRows, CreditStep, Same
<1>14. Stays({p \in MeltOps : Lid(p) # Lid(o)}, Pollers)
  <2>1. ASSUME NEW p \in MeltOps, Lid(p) # Lid(o), Started(p) PROVE OpStays(p)
    <3>1. meltReq[p].quote \in Quotes /\ meltReq[p].quote # meltReq[o].quote
      BY <2>1, Zenon DEF Started, Lid
    <3>2. QED
      BY <2>1, <3>1, <1>1, <1>2, <1>4, Zenon DEF OpStays, Same
  <2>2. \A w \in Pollers, p \in MeltOps : Started(p) => WorkStays(w, p, meltReq[p].quote)
    BY <1>1, <1>2, <1>4, MeltAssumption, Zenon DEF Started, WorkStays, Same
  <2>3. QED
    BY <2>1, <2>2, Zenon DEF Stays
<1>15. QED
  BY <1>5, <1>6, <1>7, <1>8, <1>9, <1>10, <1>11, <1>12, <1>13, <1>14, Zenon DEF TableInv

LEMMA PayTables ==
    ASSUME ProcInv, ProcInv', TableInv, NEW o \in MeltOps, PayStep(o)
    PROVE  TableInv' /\ KeepsPaid /\ Stays({p \in MeltOps : Lid(p) # Lid(o)}, Pollers)
<1>1. \A p \in MeltOps : Same(p)
  BY Zenon DEF PayStep, Same, Lid, Started, Consumed, Reserved, Holds
<1>2. /\ melt_quote' = melt_quote /\ melt_request' = melt_request /\ proof' = proof
      /\ saga_state' = saga_state /\ mint_payments' = mint_payments
      /\ \A l \in LookupIds : l # Lid(o) => ln'[l] = ln[l]
      /\ ln[Lid(o)].state = "none" /\ ln'[Lid(o)].state = "inflight" /\ ln'[Lid(o)].by = o
      /\ Holds(o)
  BY Zenon DEF PayStep
<1>3. \A p \in MeltOps : Started(p) => meltReq[p].quote \in Quotes /\ Lid(p) \in LookupIds
  BY Zenon DEF Started, Lid, LookupIds
<1>4. \A p \in MeltOps : Holds(p) => Started(p)
  BY Zenon DEF Holds
<1>5. \A p \in Quotes : LookupId[p] \in LookupIds
  BY Zenon DEF LookupIds
<1>6. \A p \in Quotes : /\ Settled(p) <=> Settled(p)'
                        /\ PaymentMade(p) <=> PaymentMade(p)'
  <2>1. \A p \in Quotes : Settled(p) <=> Settled(p)'
    BY <1>2, Zenon DEF Settled
  <2>2. ASSUME NEW p \in Quotes PROVE PaymentMade(p) <=> PaymentMade(p)'
    <3>1. CASE LookupId[p] = Lid(o)
      BY <3>1, <1>2, Zenon DEF PaymentMade
    <3>2. CASE LookupId[p] # Lid(o)
      <4>1. ln'[LookupId[p]] = ln[LookupId[p]] /\ meltReq' = meltReq
        BY <3>2, <1>2, <1>5, Zenon DEF PayStep
      <4>2. QED
        BY <4>1, <1>2, Zenon DEF PaymentMade, OfQuote
    <3>3. QED
      BY <3>1, <3>2, Zenon
  <2>3. QED
    BY <2>1, <2>2, Zenon
<1>7. KeepsPaid
  BY <1>1, <1>3, <1>4, <1>6, Zenon DEF KeepsPaid, Same
<1>8. ProofRows'
  BY <1>1, <1>2, Zenon DEF TableInv, ProofRows, Same
<1>9. HolderRows'
  <2>1. \A p \in MeltOps : Holds(p) /\ ln[Lid(p)].state = "failed" => ln'[Lid(p)].state = "failed"
    BY <1>2, <1>3, <1>4, Zenon
  <2>2. QED
    BY <2>1, <1>1, <1>2, HoldersKept, Zenon DEF TableInv
<1>10. OneHolder'
  BY <1>1, Zenon DEF TableInv, OneHolder, Same
<1>11. QuoteRows'
  BY <1>1, <1>2, <1>6, QuotesKept, Zenon DEF TableInv
<1>12. SagaRows'
  <2> SUFFICES ASSUME NEW p \in MeltOps, saga_state[p] # "None"
               PROVE  /\ Holds(p)
                      /\ saga_state[p] = "SetupComplete" =>
                            ln'[Lid(p)].state = "none" /\ ~Settled(meltReq[p].quote)'
                      /\ saga_state[p] = "Finalizing" => melt_quote[meltReq[p].quote] = "Paid"
    BY <1>1, <1>2, Zenon DEF SagaRows, Same
  <2>1. Holds(p) /\ meltReq[p].quote \in Quotes /\ Lid(p) \in LookupIds
    BY <1>3, <1>4, Zenon DEF TableInv, SagaRows
  <2>2. saga_state[p] = "SetupComplete" => p # o /\ Lid(p) # Lid(o)
    BY <2>1, Zenon DEF TableInv, OneHolder, PayStep
  <2>3. QED
    BY <2>1, <2>2, <1>1, <1>2, <1>6, Zenon DEF TableInv, SagaRows, Same
<1>13. LnRows'
  <2>1. LnRow(Lid(o))'
    <3>1. /\ Lid(o) \notin InternalIds /\ Started(o)
          /\ \A p \in MeltOps : Holds(p) /\ Lid(p) = Lid(o) => p = o
      BY <1>2, <1>4, Zenon DEF PayStep, TableInv, OneHolder
    <3>2. /\ Lid(o)' = Lid(o) /\ Started(o)' /\ Holds(o)'
          /\ \A p \in MeltOps : Holds(p)' /\ Lid(p)' = Lid(o) => p = o
      BY <3>1, <1>1, <1>2, Zenon DEF Same
    <3>3. QED
      BY <3>1, <3>2, <1>2, Zenon DEF LnRow
  <2>2. ASSUME NEW l \in LookupIds, l # Lid(o) PROVE LnRow(l)'
    <3>1. ln'[l] = ln[l]
      BY <2>2, <1>2, Zenon
    <3>2. QED
      BY <3>1, <1>1, LnRowKept, Zenon DEF TableInv, Same
  <2>3. ASSUME NEW l \in LookupIds PROVE LnRow(l)'
    BY <2>1, <2>2, <1>1, Zenon DEF Same
  <2>4. QED
    BY <2>3, Zenon DEF LnRows
<1>14. CreditRows'
  BY <1>1, <1>2, CreditsKept, Zenon DEF TableInv
<1>15. OutputRows'
  BY <1>1, <1>2, Zenon DEF TableInv, OutputRows, PayStep, Same
<1>16. Stays({p \in MeltOps : Lid(p) # Lid(o)}, Pollers)
  <2>1. ASSUME NEW p \in MeltOps, Lid(p) # Lid(o), Started(p) PROVE OpStays(p)
    BY <2>1, <1>1, <1>2, <1>3, <1>6, Zenon DEF OpStays, Same
  <2>2. \A p \in Quotes : /\ ln[LookupId[p]].state = "failed" => ln'[LookupId[p]].state = "failed"
                          /\ ln[LookupId[p]].state = "paid" => ln'[LookupId[p]].state = "paid"
    BY <1>2, <1>5, Zenon
  <2>3. \A w \in Pollers, p \in MeltOps : Started(p) => WorkStays(w, p, meltReq[p].quote)
    BY <1>1, <1>2, <1>6, <2>2, MeltAssumption, Zenon DEF Started, WorkStays, Same
  <2>4. QED
    BY <2>1, <2>3, Zenon DEF Stays
<1>17. QED
  BY <1>7, <1>8, <1>9, <1>10, <1>11, <1>12, <1>13, <1>14, <1>15, <1>16, Zenon DEF TableInv

LEMMA SettleTables ==
    ASSUME ProcInv, ProcInv', TableInv, NEW l \in LookupIds, SettleStep(l)
    PROVE  /\ TableInv' /\ KeepsPaid /\ Stays({}, Workers)
           /\ \A o \in MeltOps : \A pc : Started(o) /\ OpSafe(o, pc) => OpSafe(o, pc)'
<1>1. \A p \in MeltOps : Same(p)
  BY Zenon DEF SettleStep, Same, Lid, Started, Consumed, Reserved, Holds
<1>2. /\ melt_quote' = melt_quote /\ melt_request' = melt_request /\ proof' = proof
      /\ saga_state' = saga_state /\ mint_payments' = mint_payments
      /\ \A k \in LookupIds : ln'[k].by = ln[k].by /\ (k # l => ln'[k] = ln[k])
      /\ ln[l].state = "inflight" /\ ln'[l].state \in {"paid", "failed"}
  BY Zenon DEF SettleStep
<1>3. \A p \in MeltOps : Started(p) => meltReq[p].quote \in Quotes /\ Lid(p) \in LookupIds
  BY Zenon DEF Started, Lid, LookupIds
<1>4. \A p \in MeltOps : Holds(p) => Started(p)
  BY Zenon DEF Holds
<1>5. \A p \in Quotes : LookupId[p] \in LookupIds
  BY Zenon DEF LookupIds
<1>6. \A p \in Quotes : /\ Settled(p) <=> Settled(p)'
                        /\ PaymentMade(p) => PaymentMade(p)'
  <2>1. \A p \in Quotes : Settled(p) <=> Settled(p)'
    BY <1>2, Zenon DEF Settled
  <2>2. ASSUME NEW p \in Quotes, PaymentMade(p) PROVE PaymentMade(p)'
    <3>1. CASE LookupId[p] = l
      BY <3>1, <2>2, <1>2, Zenon DEF PaymentMade
    <3>2. CASE LookupId[p] # l
      <4>1. ln'[LookupId[p]] = ln[LookupId[p]] /\ meltReq' = meltReq
        BY <3>2, <1>2, <1>5, Zenon DEF SettleStep
      <4>2. QED
        BY <4>1, <2>2, <1>2, Zenon DEF PaymentMade, OfQuote
    <3>3. QED
      BY <3>1, <3>2, Zenon
  <2>3. QED
    BY <2>1, <2>2, Zenon
<1>7. /\ \A k \in LookupIds : /\ ln'[k].state = "none" <=> ln[k].state = "none"
                              /\ ln[k].state = "failed" => ln'[k].state = "failed"
                              /\ ln[k].state = "paid" => ln'[k].state = "paid"
                              /\ ln'[k].state # "failed" => ln[k].state # "failed"
  BY <1>2, Zenon
<1>8. KeepsPaid
  BY <1>1, <1>3, <1>4, <1>6, Zenon DEF KeepsPaid, Same
<1>9. ProofRows'
  BY <1>1, <1>2, Zenon DEF TableInv, ProofRows, Same
<1>10. HolderRows'
  BY <1>1, <1>2, <1>3, <1>4, <1>7, HoldersKept, Zenon DEF TableInv
<1>11. OneHolder'
  BY <1>1, Zenon DEF TableInv, OneHolder, Same
<1>12. QuoteRows'
  BY <1>1, <1>2, <1>6, QuotesKept, Zenon DEF TableInv
<1>13. SagaRows'
  <2> SUFFICES ASSUME NEW p \in MeltOps, saga_state[p] # "None"
               PROVE  /\ Holds(p)
                      /\ saga_state[p] = "SetupComplete" =>
                            ln'[Lid(p)].state = "none" /\ ~Settled(meltReq[p].quote)'
                      /\ saga_state[p] = "Finalizing" => melt_quote[meltReq[p].quote] = "Paid"
    BY <1>1, <1>2, Zenon DEF SagaRows, Same
  <2>1. Holds(p) /\ meltReq[p].quote \in Quotes /\ Lid(p) \in LookupIds
    BY <1>3, <1>4, Zenon DEF TableInv, SagaRows
  <2>2. QED
    BY <2>1, <1>1, <1>6, <1>7, Zenon DEF TableInv, SagaRows, Same
<1>14. LnRows'
  <2>1. ASSUME NEW k \in LookupIds PROVE LnRow(k)'
    BY <1>1, <1>2, <1>7, LnRowKept, Zenon DEF TableInv, Same
  <2>2. QED
    BY <2>1, Zenon DEF LnRows
<1>15. CreditRows'
  BY <1>1, <1>2, CreditsKept, Zenon DEF TableInv
<1>16. OutputRows'
  BY <1>1, <1>2, Zenon DEF TableInv, OutputRows, SettleStep, Same
<1>17. Stays({}, Workers)
  <2>1. \A w \in Workers, p \in MeltOps : Started(p) => WorkStays(w, p, meltReq[p].quote)
    BY <1>1, <1>2, <1>5, <1>6, <1>7, Zenon DEF Started, WorkStays, Same
  <2>2. QED
    BY <2>1, Zenon DEF Stays
<1>18. ASSUME NEW o \in MeltOps, NEW pc, Started(o), OpSafe(o, pc)
       PROVE  OpSafe(o, pc)'
  <2>1. CASE Lid(o) # l
    <3>1. OpStays(o)
      BY <1>18, <2>1, <1>1, <1>2, <1>3, <1>6, Zenon DEF OpStays, Same
    <3>2. QED
      BY <1>18, <3>1, OpStaysSafe, Zenon
  <2>2. CASE Lid(o) = l
    <3>1. /\ Lid(o)' = l /\ meltReq'[o] = meltReq[o] /\ meltReq[o].quote \in Quotes
          /\ ln[l].state = "inflight" /\ ln'[l].state # "none" /\ ln'[l].by = ln[l].by
      BY <1>18, <2>2, <1>1, <1>2, <1>3, Zenon DEF Same
    <3>2. QED
      BY <1>18, <2>2, <3>1, <1>1, <1>2, <1>6, Zenon DEF OpSafe, Same
  <2>3. QED
    BY <2>1, <2>2, Zenon
<1>19. QED
  BY <1>8, <1>9, <1>10, <1>11, <1>12, <1>13, <1>14, <1>15, <1>16, <1>17, <1>18, Zenon DEF TableInv

LEMMA QuietTables ==
    ASSUME ProcInv, TableInv, QuietStep
    PROVE  TableInv' /\ KeepsPaid /\ Stays(MeltOps, Workers)
<1>1. \A p \in MeltOps : Same(p)
  BY Zenon DEF QuietStep, Same, Lid, Started, Consumed, Reserved, Holds
<1>2. /\ ln' = ln /\ melt_quote' = melt_quote /\ melt_request' = melt_request /\ proof' = proof
      /\ \A p \in MeltOps : saga_state'[p] = saga_state[p]
  BY Zenon DEF QuietStep
<1>3. \A p \in MeltOps : Holds(p) => meltReq[p].quote \in Quotes
  BY Zenon DEF Holds, Started
<1>4. \A p \in Quotes : /\ Settled(p)' <=> Settled(p)
                        /\ PaymentMade(p)' <=> PaymentMade(p)
  BY Zenon DEF QuietStep, Settled, PaymentMade, OfQuote
<1>5. KeepsPaid
  BY <1>1, <1>3, <1>4, Zenon DEF KeepsPaid, Same
<1>6. ProofRows'
  BY <1>1, <1>2, Zenon DEF TableInv, ProofRows, Same
<1>7. HolderRows'
  BY <1>1, <1>2, HoldersKept, Zenon DEF TableInv
<1>8. OneHolder'
  BY <1>1, Zenon DEF TableInv, OneHolder, Same
<1>9. QuoteRows'
  BY <1>1, <1>2, <1>4, QuotesKept, Zenon DEF TableInv
<1>10. SagaRows'
  BY <1>1, <1>2, <1>3, <1>4, Zenon DEF TableInv, SagaRows, Same
<1>11. LnRows'
  BY <1>1, <1>2, LnKept, Zenon DEF TableInv, Same
<1>12. CreditRows'
  BY <1>1, Zenon DEF TableInv, CreditRows, QuietStep, Same
<1>13. OutputRows'
  <2>1. OutputsStay
    BY <1>2, Zenon DEF OutputsStay, QuietStep
  <2>2. QED
    BY <1>1, <2>1, OutputsKept, Zenon DEF TableInv, Same
<1>14. Stays(MeltOps, Workers)
  BY <1>1, <1>2, <1>4, Zenon DEF Stays, OpStays, WorkStays, Started, Same
<1>15. QED
  BY <1>5, <1>6, <1>7, <1>8, <1>9, <1>10, <1>11, <1>12, <1>13, <1>14, Zenon DEF TableInv

(***************************************************************************)
(* What each action does, in these terms.                                  *)
(***************************************************************************)
ToldOk ==
    \A y \in Ys : told'[y] = "Spent" =>
        \/ told[y] = "Spent"
        \/ \E o \in MeltOps : Holds(o) /\ y \in meltReq[o].ys /\ PaymentMade(meltReq[o].quote)

(* The inductive invariant holds after a step that keeps its parts.        *)
LEMMA StepSafe ==
    ASSUME MeltInv, ProcInv', TableInv', KeepsPaid, ToldOk,
           \A o \in MeltOps : \A pc : pc = meltPc'[o] => OpSafe(o, pc)',
           \A w \in Workers : \A rec : rec = work'[w] => WorkSafe(w, rec)'
    PROVE  MeltInv' /\ KeepsPaid
<1>1. ASSUME NEW y \in Ys, told'[y] = "Spent"
      PROVE  \E o \in MeltOps : /\ Holds(o)' /\ y \in meltReq'[o].ys
                                /\ PaymentMade(meltReq[o].quote)'
  <2>1. PICK o \in MeltOps : Holds(o) /\ y \in meltReq[o].ys /\ PaymentMade(meltReq[o].quote)
    BY <1>1, Zenon DEF ToldOk, MeltInv, ToldRows
  <2>2. QED
    BY <2>1, Zenon DEF KeepsPaid
<1>2. ToldRows'
  BY <1>1, Zenon DEF ToldRows
<1>3. ASSUME NEW o \in MeltOps PROVE OpSafe(o, meltPc[o])'
  <2>1. PICK pc : pc = meltPc'[o]
    BY Zenon
  <2>2. OpSafe(o, pc)'
    BY <2>1, Zenon
  <2>3. QED
    BY <2>1, <2>2, Zenon DEF OpSafe
<1>4. ASSUME NEW w \in Workers PROVE WorkSafe(w, work[w])'
  <2>1. PICK rec : rec = work'[w]
    BY Zenon
  <2>2. WorkSafe(w, rec)'
    BY <2>1, Zenon
  <2>3. QED
    BY <2>1, <2>2, Zenon DEF WorkSafe
<1>5. QED
  BY <1>2, <1>3, <1>4, Zenon DEF MeltInv

LEMMA NotLiveSafe ==
    ASSUME NEW o \in MeltOps, NEW pc, pc \notin LiveMeltPcs
    PROVE  OpSafe(o, pc)'
BY Zenon DEF OpSafe, LiveMeltPcs

LEMMA IdleStaysSafe == ASSUME NEW w \in Workers PROVE WorkSafe(w, Idle)'
BY Zenon DEF WorkSafe, Idle

LEMMA WorkerKeeps ==
    ASSUME NEW workers \in SUBSET Workers, NEW ops, Stays(ops, workers),
           NEW w \in workers, NEW rec \in WorkRecord, WorkSafe(w, work[w]), rec = work[w]
    PROVE  WorkSafe(w, rec)'
<1>1. WorkSafe(w, rec)
  BY Zenon
<1>2. rec.pc \notin {"idle", "find"} => WorkStays(w, rec.op, rec.quote)
  <2>1. rec.pc \notin {"idle", "find"} => Started(rec.op) /\ meltReq[rec.op].quote = rec.quote
    BY <1>1, Zenon DEF WorkSafe
  <2>2. QED
    BY <2>1, Zenon DEF Stays, Started
<1>3. QED
  BY <1>1, <1>2, WorkStaysSafe, Zenon

(* A step of a request: the others keep what they rely on.                 *)
LEMMA RequestSafe ==
    ASSUME MeltInv, ProcInv', NEW o \in MeltOps, NEW pc, NEW ops,
           mint = "up", work' = work, GoTo(o, pc),
           TableInv', KeepsPaid, ToldOk, Stays(ops, Pollers),
           \A p \in MeltOps \ {o} : meltPc[p] \in LiveMeltPcs => p \in ops,
           OpSafe(o, pc)'
    PROVE  MeltInv' /\ KeepsPaid
<1>1. /\ meltPc \in [MeltOps -> LiveMeltPcs \cup {"idle", "done", "failed"}]
      /\ work \in [Workers -> WorkRecord] /\ work["recovery"] = Idle
      /\ Workers = Pollers \cup {"recovery"}
  BY Zenon DEF MeltInv, ProcInv, MeltShape, ProcessOk, Workers
<1>2. ASSUME NEW p \in MeltOps, NEW c, c = meltPc'[p] PROVE OpSafe(p, c)'
  <2>1. CASE p = o
    <3>1. c = pc
      BY <1>1, <1>2, <2>1, Zenon DEF GoTo
    <3>2. QED
      BY <2>1, <3>1, Zenon
  <2>2. CASE p # o /\ c \notin LiveMeltPcs
    BY <2>2, NotLiveSafe, Zenon
  <2>3. CASE p # o /\ c \in LiveMeltPcs
    <3>1. c # "idle" /\ meltPc[p] = c
      BY <1>1, <1>2, <2>3, Zenon DEF GoTo, LiveMeltPcs
    <3>2. OpSafe(p, meltPc[p]) /\ OpStays(p)
      BY <2>3, <3>1, Zenon DEF MeltInv, ProcInv, StartedOk, Stays
    <3>3. OpSafe(p, c)
      BY <3>1, <3>2, Zenon
    <3>4. QED
      BY <3>2, <3>3, OpStaysSafe, Zenon
  <2>4. QED
    BY <2>1, <2>2, <2>3, Zenon
<1>3. ASSUME NEW w \in Workers, NEW rec, rec = work'[w] PROVE WorkSafe(w, rec)'
  <2>1. rec = work[w]
    BY <1>3, Zenon
  <2>2. CASE w = "recovery"
    BY <1>1, <2>1, <2>2, IdleStaysSafe, Zenon
  <2>3. CASE w \in Pollers
    BY <1>1, <2>1, <2>3, WorkerKeeps, Zenon DEF MeltInv
  <2>4. QED
    BY <1>1, <2>2, <2>3, Zenon
<1>4. QED
  BY <1>2, <1>3, StepSafe, Zenon

(* A step of a worker.                                                     *)
LEMMA WorkerSafe ==
    ASSUME MeltInv, ProcInv', NEW w \in Workers, NEW rec, NEW ops,
           Active(w), work' = [work EXCEPT ![w] = rec], meltPc' = meltPc,
           TableInv', KeepsPaid, ToldOk, Stays(ops, Pollers),
           \A p \in MeltOps : \A pc : p \notin ops /\ pc \in LiveMeltPcs /\ pc = meltPc[p] => OpSafe(p, pc)',
           WorkSafe(w, rec)'
    PROVE  MeltInv' /\ KeepsPaid
<1>1. /\ meltPc \in [MeltOps -> LiveMeltPcs \cup {"idle", "done", "failed"}]
      /\ work \in [Workers -> WorkRecord]
      /\ Workers = Pollers \cup {"recovery"}
      /\ mint = "up" => work["recovery"] = Idle
      /\ mint # "up" => \A v \in Pollers : work[v] = Idle
  BY Zenon DEF MeltInv, ProcInv, MeltShape, ProcessOk, Workers
<1>2. ASSUME NEW p \in MeltOps, NEW c, c = meltPc'[p] PROVE OpSafe(p, c)'
  <2>1. CASE c \notin LiveMeltPcs
    BY <2>1, NotLiveSafe, Zenon
  <2>2. CASE c \in LiveMeltPcs /\ p \notin ops
    BY <1>2, <2>2, Zenon
  <2>3. CASE c \in LiveMeltPcs /\ p \in ops
    <3>1. c # "idle" /\ meltPc[p] = c
      BY <1>2, <2>3, Zenon DEF LiveMeltPcs
    <3>2. OpSafe(p, meltPc[p]) /\ OpStays(p)
      BY <2>3, <3>1, Zenon DEF MeltInv, ProcInv, StartedOk, Stays
    <3>3. OpSafe(p, c)
      BY <3>1, <3>2, Zenon
    <3>4. QED
      BY <3>2, <3>3, OpStaysSafe, Zenon
  <2>4. QED
    BY <2>1, <2>2, <2>3, Zenon
<1>3. ASSUME NEW v \in Workers, NEW r, r = work'[v] PROVE WorkSafe(v, r)'
  <2>1. CASE v = w
    <3>1. r = rec
      BY <1>1, <1>3, <2>1, Zenon
    <3>2. QED
      BY <2>1, <3>1, Zenon
  <2>2. CASE v # w
    <3>1. r = work[v]
      BY <1>1, <1>3, <2>2, Zenon
    <3>2. CASE v \in Pollers /\ w # "recovery"
      BY <1>1, <3>1, <3>2, WorkerKeeps, Zenon DEF MeltInv
    <3>3. CASE v = "recovery" \/ w = "recovery"
      <4>1. r = Idle
        BY <1>1, <2>2, <3>1, <3>3, Zenon DEF Active
      <4>2. QED
        BY <4>1, IdleStaysSafe, Zenon
    <3>4. QED
      BY <1>1, <3>2, <3>3, Zenon
  <2>3. QED
    BY <2>1, <2>2, Zenon
<1>4. QED
  BY <1>2, <1>3, StepSafe, Zenon

LEMMA QuietRequest ==
    ASSUME MeltInv, ProcInv', NEW o \in MeltOps, NEW pc,
           mint = "up", work' = work, GoTo(o, pc), QuietStep, ToldOk,
           OpSafe(o, pc)'
    PROVE  MeltInv' /\ KeepsPaid
<1>1. ProcInv /\ TableInv
  BY Zenon DEF MeltInv
<1>2. TableInv' /\ KeepsPaid /\ Stays(MeltOps, Workers)
  BY <1>1, QuietTables, Zenon
<1>3. Stays(MeltOps, Pollers)
  BY <1>2, Zenon DEF Stays, Workers
<1>4. QED
  BY <1>2, <1>3, RequestSafe, Zenon

(* What the request that takes a quiet step knows is still true.           *)
LEMMA QuietOp ==
    ASSUME MeltInv, QuietStep, NEW o \in MeltOps, NEW pc, OpSafe(o, pc), pc \in LiveMeltPcs,
           pc = meltPc[o]
    PROVE  /\ OpSafe(o, pc)'
           /\ Lid(o)' = Lid(o) /\ meltReq'[o] = meltReq[o] /\ ln' = ln /\ melt_quote' = melt_quote
           /\ Holds(o)' <=> Holds(o)
           /\ Settled(meltReq[o].quote)' <=> Settled(meltReq[o].quote)
           /\ PaymentMade(meltReq[o].quote)' <=> PaymentMade(meltReq[o].quote)
<1>1. Started(o) /\ meltReq[o].quote \in Quotes
  BY Zenon DEF MeltInv, ProcInv, StartedOk, LiveMeltPcs, Started
<1>2. ProcInv /\ TableInv
  BY Zenon DEF MeltInv
<1>3. OpStays(o)
  BY <1>1, <1>2, QuietTables, Zenon DEF Stays
<1>4. OpSafe(o, pc)'
  BY <1>3, OpStaysSafe, Zenon
<1>5. Lid(o)' = Lid(o) /\ meltReq' = meltReq /\ ln' = ln /\ melt_quote' = melt_quote /\ proof' = proof
  BY Zenon DEF QuietStep, Lid
<1>6. Holds(o)' <=> Holds(o)
  BY <1>5, Zenon DEF Holds, Started, Reserved, Consumed
<1>7. /\ Settled(meltReq[o].quote)' <=> Settled(meltReq[o].quote)
      /\ PaymentMade(meltReq[o].quote)' <=> PaymentMade(meltReq[o].quote)
  BY <1>1, <1>5, Zenon DEF QuietStep, Settled, PaymentMade, OfQuote
<1>8. QED
  BY <1>4, <1>5, <1>6, <1>7, Zenon

LEMMA QuietFrame ==
    ASSUME UNCHANGED <<proof, blind_signature, saga_state, melt_quote, melt_request, mint_payments, ln,
                       meltReq>>
    PROVE  QuietStep
BY Zenon DEF QuietStep

LEMMA ToldStays == ASSUME told' = told PROVE ToldOk
BY Zenon DEF ToldOk

(* Two live requests of one invoice: one of them has had its payment.      *)
LEMMA AloneOnInvoice ==
    ASSUME MeltInv, NEW o \in MeltOps, Holds(o), ln[Lid(o)].state = "none"
    PROVE  \A p \in MeltOps \ {o} : meltPc[p] \in LiveMeltPcs => p \in {x \in MeltOps : Lid(x) # Lid(o)}
<1> SUFFICES ASSUME NEW p \in MeltOps, p # o, meltPc[p] \in LiveMeltPcs, Lid(p) = Lid(o)
             PROVE  FALSE
  BY Zenon
<1>1. Holds(p)
  BY Zenon DEF MeltInv, OpSafe
<1>2. QED
  BY <1>1, Zenon DEF MeltInv, TableInv, OneHolder

(* A payment that is known to be paid was made for the melt that holds its *)
(* inputs.                                                                 *)
LEMMA PaidHolds ==
    ASSUME MeltInv, NEW o \in MeltOps, Started(o), ln[Lid(o)].state = "paid", ln[Lid(o)].by = o
    PROVE  Holds(o) /\ PaymentMade(meltReq[o].quote)
<1>1. Lid(o) \in LookupIds
  BY Zenon DEF Started, Lid, LookupIds
<1>2. Holds(o)
  BY <1>1, Zenon DEF MeltInv, TableInv, LnRows, LnRow
<1>3. PaymentMade(meltReq[o].quote)
  BY Zenon DEF PaymentMade, OfQuote, Lid
<1>4. QED
  BY <1>2, <1>3, Zenon

(* Spent is published of the inputs of a payment that was made.            *)
LEMMA ToldPaid ==
    ASSUME NEW o \in MeltOps, Holds(o), PaymentMade(meltReq[o].quote),
           told' = told \/ Publish(meltReq[o].ys, "Spent")
    PROVE  ToldOk
BY Zenon DEF ToldOk, Publish

(* The quote of a melt that holds its inputs: when it is Paid the inputs   *)
(* are Spent, when it is Pending they are reserved.                        *)
LEMMA HolderState ==
    ASSUME MeltInv, NEW h \in MeltOps, Holds(h)
    PROVE  /\ meltReq[h].quote \in Quotes /\ Lid(h) \in LookupIds
           /\ meltReq[h].ys # {} /\ meltReq[h].ys \subseteq Ys
           /\ melt_quote[meltReq[h].quote] = "Paid" => Consumed(h) /\ PaymentMade(meltReq[h].quote)
           /\ melt_quote[meltReq[h].quote] = "Pending" => Reserved(h)
           /\ melt_request[meltReq[h].quote] # NoOp =>
                 melt_request[meltReq[h].quote] = h /\ saga_state[h] # "None"
<1>1. Started(h) /\ meltReq[h].quote \in Quotes /\ Lid(h) \in LookupIds
  BY Zenon DEF Holds, Started, Lid, LookupIds
<1>2. meltReq[h].ys # {} /\ meltReq[h].ys \subseteq Ys
  BY <1>1, Zenon DEF MeltInv, ProcInv, StartedOk, MeltShape
<1>3. melt_quote[meltReq[h].quote] = "Paid" => Consumed(h) /\ PaymentMade(meltReq[h].quote)
  BY <1>1, Zenon DEF MeltInv, TableInv, HolderRows, QuoteRows, QuoteRow, Holds
<1>4. melt_quote[meltReq[h].quote] = "Pending" => Reserved(h)
  BY <1>1, Zenon DEF MeltInv, TableInv, HolderRows, Holds
<1>5. ASSUME melt_request[meltReq[h].quote] # NoOp
      PROVE  melt_request[meltReq[h].quote] = h /\ saga_state[h] # "None"
  <2>1. PICK r \in MeltOps : /\ melt_request[meltReq[h].quote] = r /\ Holds(r)
                             /\ meltReq[r].quote = meltReq[h].quote /\ saga_state[r] # "None"
    BY <1>1, <1>5, Zenon DEF MeltInv, TableInv, QuoteRows, QuoteRow
  <2>2. r = h
    BY <2>1, Zenon DEF MeltInv, TableInv, OneHolder, Lid
  <2>3. QED
    BY <2>1, <2>2, Zenon
<1>6. QED
  BY <1>1, <1>2, <1>3, <1>4, <1>5, Zenon

(* delete_melt_request leaves no unsigned message of the quote.            *)
LEMMA DeleteRequestRows ==
    ASSUME ProcInv, NEW q \in Quotes, NEW t, DeleteMeltRequest(q, t), meltReq' = meltReq,
           \A b \in Outs : t[b].state = "Unsigned" =>
              blind_signature[b].state = "Unsigned" /\ t[b].op = blind_signature[b].op
    PROVE  OutputsStay /\ RequestGone(q)
<1>1. RequestGone(q)
  BY Zenon DEF RequestGone, DeleteMeltRequest, ProcInv, MeltShape
<1>2. ASSUME NEW b \in Outs, blind_signature'[b].state = "Unsigned"
      PROVE  /\ t[b].state = "Unsigned" /\ blind_signature'[b].op = t[b].op
             /\ ~OfQuote(t[b].op, q)
  <2>1. blind_signature'[b] = IF b \in OutputsByQuoteId(t, q, "Unsigned") /\ t[b].state = "Unsigned"
                              THEN NoOutput ELSE t[b]
    BY Zenon DEF DeleteMeltRequest, DeleteBlindedMessages
  <2>2. b \notin OutputsByQuoteId(t, q, "Unsigned") /\ blind_signature'[b] = t[b]
    BY <1>2, <2>1 DEF NoOutput, OutputsByQuoteId
  <2>3. QED
    BY <1>2, <2>2, Zenon DEF OutputsByQuoteId
<1>3. OutputsStay
  <2> SUFFICES ASSUME NEW b \in Outs, blind_signature'[b].state = "Unsigned"
               PROVE  /\ blind_signature[b].state = "Unsigned"
                      /\ blind_signature'[b].op = blind_signature[b].op
                      /\ \A o \in MeltOps :
                            blind_signature[b].op = o /\ Started(o) /\ melt_request[meltReq[o].quote] # NoOp
                              => melt_request'[meltReq[o].quote] # NoOp
    BY Zenon DEF OutputsStay
  <2>1. /\ t[b].state = "Unsigned" /\ blind_signature'[b].op = t[b].op /\ ~OfQuote(t[b].op, q)
        /\ blind_signature[b].state = "Unsigned" /\ t[b].op = blind_signature[b].op
    BY <1>2, Zenon
  <2>2. \A o \in MeltOps : blind_signature[b].op = o => meltReq[o].quote # q
    BY <2>1, Zenon DEF OfQuote
  <2>3. \A o \in MeltOps : Started(o) => meltReq[o].quote \in Quotes
    BY Zenon DEF Started
  <2>4. QED
    BY <2>1, <2>2, <2>3, <1>1, Zenon DEF RequestGone
<1>4. QED
  BY <1>1, <1>3, Zenon

(* The rows of the inputs when finalize_melt_core has marked them Spent,   *)
(* and when they were removed.                                             *)
LEMMA SpentRows ==
    ASSUME ProcInv, NEW ys \in SUBSET Ys, proof' = UpdateProofsState(proof, ys, "Spent")
    PROVE  \A y \in Ys : /\ proof'[y].op = proof[y].op
                         /\ proof'[y].state = IF y \in ys THEN "Spent" ELSE proof[y].state
<1> SUFFICES ASSUME NEW y \in Ys
             PROVE  /\ proof'[y].op = proof[y].op
                    /\ proof'[y].state = IF y \in ys THEN "Spent" ELSE proof[y].state
  BY Zenon
<1>1. proof[y] \in [state : ProofState, op : Ops \cup {NoOp}]
  BY Zenon DEF ProcInv, MeltShape, ProofTable
<1>2. proof'[y] = IF y \in ys THEN [proof[y] EXCEPT !.state = "Spent"] ELSE proof[y]
  BY Zenon DEF UpdateProofsState
<1>3. QED
  BY <1>1, <1>2, Zenon

(* A request, or a worker, finishes a melt.                                *)
LEMMA FinishRequest ==
    ASSUME MeltInv, ProcInv', NEW o \in MeltOps, NEW q \in Quotes, NEW pc,
           mint = "up", work' = work, GoTo(o, pc), FinishStep(o, q), ToldOk,
           pc = "change" \/ pc \notin LiveMeltPcs
    PROVE  MeltInv' /\ KeepsPaid
<1>1. TableInv' /\ KeepsPaid /\ Stays(MeltOps, Workers)
  BY FinishTables, Zenon DEF MeltInv
<1>2. Stays(MeltOps, Pollers)
  BY <1>1, Zenon DEF Stays, Workers
<1>3. OpSafe(o, pc)'
  <2>1. CASE pc \notin LiveMeltPcs
    BY <2>1, NotLiveSafe, Zenon
  <2>2. CASE pc = "change"
    <3>1. /\ Holds(o) /\ PaymentMade(meltReq[o].quote) /\ meltReq[o].quote = q
          /\ meltReq' = meltReq /\ ln' = ln /\ melt_quote'[q] = "Paid"
      BY Zenon DEF FinishStep
    <3>2. Holds(o)' /\ Lid(o)' = Lid(o)
      BY <1>1, <3>1, Zenon DEF KeepsPaid, Lid
    <3>3. ln[Lid(o)].state = "none" \/ ln[Lid(o)].by = o
      <4>1. Lid(o) \in LookupIds
        BY <3>1, HolderState, Zenon
      <4>2. QED
        BY <3>1, <4>1, Zenon DEF MeltInv, TableInv, LnRows, LnRow
    <3>4. QED
      BY <2>2, <3>1, <3>2, <3>3, Zenon DEF OpSafe
  <2>3. QED
    BY <2>1, <2>2, Zenon
<1>4. QED
  BY <1>1, <1>2, <1>3, RequestSafe, Zenon

(* The request of a Paid quote is closed: whoever does it finds the inputs *)
(* Spent.                                                                  *)
LEMMA ClosingFinishes ==
    ASSUME MeltInv, NEW h \in MeltOps, NEW q \in Quotes, Holds(h), meltReq[h].quote = q,
           melt_quote[q] = "Paid",
           UNCHANGED <<proof, melt_quote, mint_payments, ln, meltReq>>,
           OutputsStay, RequestGone(q),
           saga_state'[h] \in {saga_state[h], "None"},
           \A o \in MeltOps \ {h} : saga_state'[o] = saga_state[o]
    PROVE  FinishStep(h, q)
<1>1. Consumed(h) /\ PaymentMade(q)
  BY HolderState, Zenon
<1>2. \A y \in Ys : /\ proof'[y].op = proof[y].op
                    /\ proof'[y].state = IF y \in meltReq[h].ys THEN "Spent" ELSE proof[y].state
  BY <1>1, Zenon DEF Consumed
<1>3. QED
  BY <1>1, <1>2, Zenon DEF FinishStep, RequestGone

LEMMA StoredChange ==
    ASSUME ProcInv, NEW q \in Quotes, NEW sigs, StoreChange(q, sigs), meltReq' = meltReq
    PROVE  OutputsStay /\ RequestGone(q)
<1> DEFINE t == AddBlindSignatures(blind_signature, sigs)
<1>1. DeleteMeltRequest(q, t)
  BY Zenon DEF StoreChange
<1>2. \A b \in Outs : t[b].state = "Unsigned" =>
         blind_signature[b].state = "Unsigned" /\ t[b].op = blind_signature[b].op
  BY Zenon DEF AddBlindSignatures
<1>3. QED
  BY <1>1, <1>2, DeleteRequestRows, Zenon

LEMMA ReleasedRows ==
    ASSUME ProcInv, NEW q \in Quotes, NEW bs, meltReq' = meltReq,
           DeleteMeltRequest(q, DeleteBlindedMessages(blind_signature, bs))
    PROVE  OutputsStay /\ RequestGone(q)
<1> DEFINE t == DeleteBlindedMessages(blind_signature, bs)
<1>1. DeleteMeltRequest(q, t)
  BY Zenon
<1>2. \A b \in Outs : t[b].state = "Unsigned" =>
         blind_signature[b].state = "Unsigned" /\ t[b].op = blind_signature[b].op
  BY Zenon DEF DeleteBlindedMessages, NoOutput
<1>3. QED
  BY <1>1, <1>2, DeleteRequestRows, Zenon

(* rollback_melt_quote for the melt that holds the inputs.                 *)
LEMMA RollbackReturns ==
    ASSUME MeltInv, NEW h \in MeltOps, NEW q \in Quotes, NEW bs, Holds(h), meltReq[h].quote = q,
           ln[LookupId[q]].state \in {"none", "failed"}, ~Settled(q),
           RollbackOk(q), RollbackTx(h, q, meltReq[h].ys, bs), meltReq' = meltReq
    PROVE  ReturnStep(h, q) /\ ToldOk
<1> DEFINE ys == meltReq[h].ys
<1>1. melt_quote[q] = "Pending"
  BY Zenon DEF RollbackOk, CheckMeltQuoteStateTransition, MeltInv, ProcInv, MeltShape
<1>2. Reserved(h) /\ ys \subseteq Ys
  BY <1>1, HolderState, Zenon
<1>3. \A y \in Ys : IF y \in ys THEN proof'[y].state = "None" ELSE proof'[y] = proof[y]
  <2>1. Removable(proof, ys) = ys
    BY <1>2, Zenon DEF Removable, Reserved
  <2>2. QED
    BY <2>1, Zenon DEF RollbackTx, RemoveProofs, NoProof
<1>4. /\ \A p \in Quotes : melt_quote'[p] = IF p = q THEN "Unpaid" ELSE melt_quote[p]
      /\ \A o \in MeltOps : saga_state'[o] = IF o = h THEN "None" ELSE saga_state[o]
  BY MeltAssumption, Zenon DEF RollbackTx, DeleteMeltSaga, MeltInv, ProcInv, MeltShape
<1>5. OutputsStay /\ RequestGone(q)
  <2>1. DeleteMeltRequest(q, DeleteBlindedMessages(blind_signature, bs)) /\ ProcInv
    BY Zenon DEF RollbackTx, MeltInv
  <2>2. QED
    BY <2>1, ReleasedRows, Zenon
<1>6. ReturnStep(h, q)
  <2>1. UNCHANGED <<ln, mint_payments, meltReq>>
    BY Zenon DEF RollbackTx
  <2>2. QED
    BY <1>2, <1>3, <1>4, <1>5, <2>1, Zenon DEF ReturnStep
<1>7. ToldOk
  BY Zenon DEF RollbackTx, ToldOk, Publish
<1>8. QED
  BY <1>6, <1>7, Zenon

(* The quote of an invoice whose only holder, if there is one, is h:       *)
(* while the quote is Pending, h holds its inputs.                         *)
LEMMA PendingHolder ==
    ASSUME MeltInv, NEW q \in Quotes, melt_quote[q] = "Pending"
    PROVE  \E r \in MeltOps : /\ melt_request[q] = r /\ Holds(r) /\ meltReq[r].quote = q
                              /\ saga_state[r] # "None"
BY Zenon DEF MeltInv, TableInv, QuoteRows, QuoteRow

(* A worker step that leaves the tables alone.                             *)
LEMMA QuietWorker ==
    ASSUME MeltInv, ProcInv', NEW w \in Workers, NEW rec,
           Active(w), work' = [work EXCEPT ![w] = rec], meltPc' = meltPc,
           QuietStep, ToldOk, WorkSafe(w, rec)
    PROVE  MeltInv' /\ KeepsPaid
<1>1. TableInv' /\ KeepsPaid /\ Stays(MeltOps, Workers)
  BY QuietTables, Zenon DEF MeltInv
<1>2. Stays(MeltOps, Pollers)
  BY <1>1, Zenon DEF Stays, Workers
<1>3. work' \in [Workers -> WorkRecord] /\ work \in [Workers -> WorkRecord]
  BY Zenon DEF MeltInv, ProcInv, MeltShape
<1>4. rec \in WorkRecord
  BY <1>3, Zenon
<1>5. rec.pc \notin {"idle", "find"} => WorkStays(w, rec.op, rec.quote)
  <2>1. rec.pc \notin {"idle", "find"} => Started(rec.op) /\ meltReq[rec.op].quote = rec.quote
    BY Zenon DEF WorkSafe
  <2>2. QED
    BY <1>1, <2>1, Zenon DEF Stays, Started
<1>6. WorkSafe(w, rec)'
  BY <1>4, <1>5, WorkStaysSafe, Zenon
<1>7. QED
  BY <1>1, <1>2, <1>6, WorkerSafe, Zenon

(* A worker finishes a melt.                                               *)
LEMMA FinishWorker ==
    ASSUME MeltInv, ProcInv', NEW w \in Workers, NEW rec, NEW h \in MeltOps, NEW q \in Quotes,
           Active(w), work' = [work EXCEPT ![w] = rec], meltPc' = meltPc,
           FinishStep(h, q), ToldOk, WorkSafe(w, rec)'
    PROVE  MeltInv' /\ KeepsPaid
<1>1. TableInv' /\ KeepsPaid /\ Stays(MeltOps, Workers)
  BY FinishTables, Zenon DEF MeltInv
<1>2. Stays(MeltOps, Pollers)
  BY <1>1, Zenon DEF Stays, Workers
<1>3. QED
  BY <1>1, <1>2, WorkerSafe, Zenon

(* What finalize_melt_quote finds while the quote is Pending: the inputs   *)
(* of the one melt that holds them, whose payment was made.                *)
LEMMA FinalizeFinds ==
    ASSUME MeltInv, NEW w \in Workers, work[w].pc = "finalize",
           NEW q \in Quotes, q = work[w].quote, melt_quote[q] = "Pending"
    PROVE  \E h \in MeltOps : /\ Holds(h) /\ meltReq[h].quote = q /\ PaymentMade(q)
                              /\ saga_state[h] # "None" /\ ProofYsByQuoteId(q) = meltReq[h].ys
<1>1. PICK h \in MeltOps : Holds(h) /\ meltReq[h].quote = q /\ saga_state[h] # "None"
  BY PendingHolder, Zenon
<1>2. ProofYsByQuoteId(q) = meltReq[h].ys
  <2>1. meltReq[h].ys \subseteq Ys
    BY <1>1, HolderState, Zenon
  <2>2. ASSUME NEW y \in meltReq[h].ys PROVE y \in ProofYsByQuoteId(q)
    BY <1>1, <2>1, Zenon DEF ProofYsByQuoteId, OfQuote, Holds, Reserved, Consumed
  <2>3. ASSUME NEW y \in ProofYsByQuoteId(q) PROVE y \in meltReq[h].ys
    <3>1. PICK o \in MeltOps : proof[y].op = o /\ Holds(o) /\ y \in meltReq[o].ys
      BY Zenon DEF ProofYsByQuoteId, MeltInv, TableInv, ProofRows
    <3>2. meltReq[o].quote = q
      BY <3>1, Zenon DEF ProofYsByQuoteId, OfQuote
    <3>3. o = h
      BY <1>1, <3>1, <3>2, Zenon DEF MeltInv, TableInv, OneHolder, Lid
    <3>4. QED
      BY <3>1, <3>3, Zenon
  <2>4. QED
    BY <2>2, <2>3, Zenon
<1>3. PaymentMade(q)
  <2>1. ln[LookupId[q]].state = "paid" \/ Settled(q)
    BY Zenon DEF MeltInv, WorkSafe
  <2>2. CASE ln[LookupId[q]].state = "paid"
    <3>1. LookupId[q] \in LookupIds
      BY Zenon DEF LookupIds
    <3>2. ln[LookupId[q]].by = h
      BY <1>1, <2>2, <3>1, Zenon DEF MeltInv, TableInv, LnRows, LnRow, Lid
    <3>3. QED
      BY <1>1, <2>2, <3>2, Zenon DEF PaymentMade, OfQuote
  <2>3. CASE Settled(q)
    BY <2>3, Zenon DEF Settled, PaymentMade
  <2>4. QED
    BY <2>1, <2>2, <2>3, Zenon
<1>4. QED
  BY <1>1, <1>2, <1>3, Zenon

(* The worker that closes the request of a Paid quote.                     *)
LEMMA CloseWorker ==
    ASSUME MeltInv, ProcInv', NEW w \in Workers, Active(w), work[w].pc \in {"sign", "close"},
           Moves(w, "delete"), meltPc' = meltPc, OutputsStay,
           RequestGone(work[w].quote),
           UNCHANGED <<proof, told, saga_state, melt_quote, mint_payments, ln, meltReq>>
    PROVE  MeltInv' /\ KeepsPaid
<1>1. PICK q : q = work[w].quote
  BY Zenon
<1>2. PICK o : o = work[w].op
  BY Zenon
<1>3. work[w] \in WorkRecord /\ Started(o) /\ meltReq[o].quote = q /\ melt_quote[q] = "Paid"
  BY <1>1, <1>2, Zenon DEF MeltInv, ProcInv, MeltShape, WorkSafe
<1>4. q \in Quotes
  BY <1>3, Zenon DEF Started
<1>5. PICK h \in MeltOps : Holds(h) /\ meltReq[h].quote = q
  BY <1>3, <1>4, Zenon DEF MeltInv, TableInv, QuoteRows, QuoteRow
<1>6. FinishStep(h, q)
  BY <1>1, <1>3, <1>4, <1>5, ClosingFinishes, Zenon
<1>7. PICK rec : rec = [work[w] EXCEPT !.pc = "delete"]
  BY Zenon
<1>8. work' = [work EXCEPT ![w] = rec]
  BY <1>7, Zenon DEF Moves
<1>9. rec.pc = "delete" /\ rec.op = o /\ rec.quote = q
  BY <1>1, <1>2, <1>3, <1>7, Zenon DEF WorkRecord
<1>10. WorkSafe(w, rec)'
  <2>1. Started(o)' /\ meltReq'[o].quote = q /\ melt_quote'[q] = "Paid" /\ melt_request'[q] = NoOp
    BY <1>1, <1>3, <1>4, Zenon DEF Started, RequestGone
  <2>2. QED
    BY <1>9, <2>1, Zenon DEF WorkSafe
<1>11. QED
  BY <1>4, <1>6, <1>8, <1>10, ToldStays, FinishWorker, Zenon
=============================================================================
