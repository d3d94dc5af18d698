------------------------- MODULE MintMeltInvariant --------------------------
(***************************************************************************)
(* The inductive invariant of the melt saga, in two parts: ProcInv, the    *)
(* types of its state and what runs in which state of the mint, and        *)
(* MeltInv, how the rows of the tables and the local state of requests and *)
(* workers agree.                                                          *)
(***************************************************************************)
EXTENDS MintMeltStore

WorkRecord ==
    [pc : {"idle", "find", "check", "collect", "rollback", "finalize", "sigs", "sign",
           "close", "delete"},
     quote : Quotes \cup {NoOp}, op : MeltOps \cup {NoOp}, ys : SUBSET Ys,
     bs : SUBSET Outs, spent : Nat, foreign : BOOLEAN, req : MeltOps \cup {NoOp}]

(* A melt that has been set up: an operation id is used once.              *)
Started(o) == o \in MeltOps /\ meltReq[o].quote \in Quotes

(* MeltTypeOK without the columns that hold amounts.                       *)
MeltShape ==
    /\ proof \in ProofTable
    /\ saga_state \in [Ops -> {"None", "SetupComplete", "PaymentAttempted", "Finalizing"}]
    /\ mint \in {"up", "down", "starting"}
    /\ melt_quote \in [Quotes -> {"Unpaid", "Pending", "Paid"}]
    /\ melt_request \in [Quotes -> MeltOps \cup {NoOp}]
    /\ mint_payments \in [InternalIds -> SUBSET (Quotes \cup {"invoice"})]
    /\ ln \in [LookupIds -> [state : {"none", "inflight", "paid", "failed"},
                             by : MeltOps \cup {NoOp}, fee : PayFees \cup {0}]]
    /\ meltPc \in [MeltOps -> LiveMeltPcs \cup {"idle", "done", "failed"}]
    /\ meltReq \in [MeltOps -> [quote : Quotes \cup {NoOp}, ys : SUBSET Ys, bs : SUBSET Outs]]
    /\ work \in [Workers -> WorkRecord]
    /\ meltTodo \subseteq MeltOps

(* Nothing runs in a mint that is not up, but its recovery.                *)
ProcessOk ==
    /\ mint # "up" => /\ \A o \in MeltOps : meltPc[o] \notin LiveMeltPcs
                      /\ \A w \in Pollers : work[w] = Idle
    /\ mint # "starting" => work["recovery"] = Idle /\ meltTodo = {}
    /\ \A o \in meltTodo : saga_state[o] # "None"
    /\ work["recovery"].op \notin meltTodo /\ work["recovery"].pc # "find"

(* An operation has a request from its setup on, and only then a saga.     *)
StartedOk ==
    /\ \A o \in MeltOps : meltPc[o] = "idle" <=> ~Started(o)
    /\ \A o \in MeltOps : Started(o) => meltReq[o].ys # {}
    /\ \A o \in MeltOps : saga_state[o] # "None" => Started(o)
    /\ \A w \in Workers : work[w].pc # "idle" => work[w].quote \in Quotes

ProcInv == MeltShape /\ ProcessOk /\ StartedOk

-----------------------------------------------------------------------------
(***************************************************************************)
(* The inductive invariant, when no quote is melted again after its        *)
(* payment failed.                                                         *)
(***************************************************************************)
Lid(o) == LookupId[meltReq[o].quote]

(* All its inputs are Pending, or Spent, by it.                            *)
Reserved(o) == \A y \in meltReq[o].ys : proof[y].state = "Pending" /\ proof[y].op = o

Consumed(o) == \A y \in meltReq[o].ys : proof[y].state = "Spent" /\ proof[y].op = o

(* The rows of its inputs are all there, and all reserved or all spent.    *)
Holds(o) == Started(o) /\ (Reserved(o) \/ Consumed(o))

(* The mint quote of the invoice was credited by a melt of this quote.     *)
Settled(q) == LookupId[q] \in InternalIds /\ q \in mint_payments[LookupId[q]]

ProofRows ==
    \A y \in Ys : proof[y].state # "None" =>
        \E o \in MeltOps : proof[y].op = o /\ Holds(o) /\ y \in meltReq[o].ys

(* A melt that holds its inputs has a quote in the matching state.  A      *)
(* stale rollback can release the quote of a payment that failed before    *)
(* the inputs are returned.                                                *)
HolderRows ==
    \A o \in MeltOps : Holds(o) =>
        /\ Consumed(o) => melt_quote[meltReq[o].quote] = "Paid"
        /\ Reserved(o) =>
              /\ saga_state[o] # "None"
              /\ \/ melt_quote[meltReq[o].quote] = "Pending"
                 \/ melt_quote[meltReq[o].quote] = "Unpaid" /\ ln[Lid(o)].state = "failed"

OneHolder == \A o, p \in MeltOps : Holds(o) /\ Holds(p) /\ Lid(o) = Lid(p) => o = p

QuoteRow(q) ==
    /\ melt_quote[q] = "Pending" => melt_request[q] # NoOp
    /\ melt_quote[q] = "Paid" =>
          PaymentMade(q) /\ \E o \in MeltOps : Holds(o) /\ meltReq[o].quote = q
    /\ melt_request[q] # NoOp =>
          /\ melt_quote[q] # "Unpaid"
          /\ \E o \in MeltOps : /\ melt_request[q] = o /\ Holds(o) /\ meltReq[o].quote = q
                                /\ saga_state[o] # "None"

QuoteRows == \A q \in Quotes : QuoteRow(q)

SagaRows ==
    \A o \in MeltOps :
        /\ saga_state[o] # "None" => Holds(o)
        /\ saga_state[o] = "SetupComplete" =>
              ln[Lid(o)].state = "none" /\ ~Settled(meltReq[o].quote)
        /\ saga_state[o] = "Finalizing" => melt_quote[meltReq[o].quote] = "Paid"

(* A payment is made for the one melt of the invoice that holds its        *)
(* inputs; it holds them until the payment has failed, and no other melt   *)
(* of the invoice holds inputs from then on.                               *)
LnRow(l) ==
    ln[l].state # "none" =>
        /\ l \notin InternalIds
        /\ \E h \in MeltOps :
              /\ ln[l].by = h /\ Started(h) /\ Lid(h) = l
              /\ \A o \in MeltOps : Holds(o) /\ Lid(o) = l => o = h
              /\ ln[l].state # "failed" => Holds(h)

LnRows == \A l \in LookupIds : LnRow(l)

CreditRows ==
    \A l \in InternalIds, q \in Quotes : q \in mint_payments[l] =>
        LookupId[q] = l /\ \E o \in MeltOps : Holds(o) /\ meltReq[o].quote = q

OutputRows ==
    \A b \in Outs : blind_signature[b].state = "Unsigned" =>
        \E o \in MeltOps : /\ blind_signature[b].op = o /\ Started(o)
                           /\ melt_request[meltReq[o].quote] # NoOp

TableInv ==
    /\ ProofRows
    /\ HolderRows
    /\ OneHolder
    /\ QuoteRows
    /\ SagaRows
    /\ LnRows
    /\ CreditRows
    /\ OutputRows

(* What is known to a request that has come to pc.                         *)
OpSafe(o, pc) ==
    /\ pc \in LiveMeltPcs => IF ln[Lid(o)].state = "none" THEN Holds(o) ELSE ln[Lid(o)].by = o
    /\ pc \in {"setup", "external", "attempted"} =>
          ln[Lid(o)].state = "none" /\ ~Settled(meltReq[o].quote)
    /\ pc = "attempted" => saga_state[o] # "SetupComplete"
    /\ pc \in {"external", "attempted", "paying", "verify", "verifyPending"} => Lid(o) \notin InternalIds
    /\ pc = "confirmed" => Holds(o) /\ PaymentMade(meltReq[o].quote)
    /\ pc = "change" => Holds(o) /\ melt_quote[meltReq[o].quote] = "Paid"
    /\ pc = "compensating" =>
          ln[Lid(o)].state \in {"none", "failed"} /\ ~Settled(meltReq[o].quote)

(* What is known to a worker whose local state is rec.                     *)
WorkSafe(w, rec) ==
    /\ rec.pc \notin {"idle", "find"} => Started(rec.op) /\ meltReq[rec.op].quote = rec.quote
    /\ rec.pc = "collect" => ln[LookupId[rec.quote]].state = "failed"
    /\ rec.pc = "rollback" =>
          /\ \/ ln[LookupId[rec.quote]].state = "failed"
             \/ w = "recovery" /\ saga_state[rec.op] = "SetupComplete"
          /\ rec.ys # {} => \A o \in MeltOps : Holds(o) /\ Lid(o) = LookupId[rec.quote] => o = rec.op
          /\ Holds(rec.op) => rec.ys = meltReq[rec.op].ys
    /\ rec.pc = "finalize" =>
          \/ ln[LookupId[rec.quote]].state = "paid"
          \/ Settled(rec.quote)
          \/ melt_quote[rec.quote] = "Paid"
    /\ rec.pc \in {"sigs", "sign", "close"} => melt_quote[rec.quote] = "Paid"
    /\ rec.pc = "delete" /\ Holds(rec.op) =>
          melt_quote[rec.quote] = "Paid" /\ melt_request[rec.quote] = NoOp

(* A subscriber is told Spent of the inputs of a payment that was made.    *)
ToldRows ==
    \A y \in Ys : told[y] = "Spent" =>
        \E o \in MeltOps : Holds(o) /\ y \in meltReq[o].ys /\ PaymentMade(meltReq[o].quote)

MeltInv ==
    /\ ProcInv
    /\ TableInv
    /\ ToldRows
    /\ \A o \in MeltOps : OpSafe(o, meltPc[o])
    /\ \A w \in Workers : WorkSafe(w, work[w])
=============================================================================
