----------------------------- MODULE WalletSwap -----------------------------
(***************************************************************************)
(* The swap and the receive saga of the wallet: each turns coins into new  *)
(* ones with one post_swap, and both build the request with create_swap.   *)
(* A step of a task is one call of the database or one event of the        *)
(* network, so the steps of two tasks interleave at every await.           *)
(*                                                                         *)
(* The inputs are reserved, the counter is advanced, the counter is read   *)
(* again for the range that recovery will use, the saga is written, and    *)
(* only then is the request sent.  A definitive refusal is compensated;    *)
(* after an ambiguous failure (a timeout, a lost answer) the saga stays    *)
(* and the request may still reach the mint.                               *)
(***************************************************************************)
EXTENDS WalletStore

CONSTANTS
    Receives,   \* receive operations
    Token(_),   \* the coins of the token a receive operation is given
    SwapIds,    \* swap sagas
    Swaps,      \* plain calls of Wallet::swap
    SwapOf(_)   \* the swap saga that a task runs

ASSUME WalletSwapAssumption ==
    /\ Receives \cup SwapIds \cup Swaps \subseteq Sagas /\ Receives \cap SwapIds = {}
    /\ \A t \in Swaps : SwapOf(t) \in SwapIds
    /\ \A o \in Receives : Token(o) \subseteq Foreign /\ Token(o) # {}

VARIABLES
    task,  \* the call in progress, or the last one, for every saga
    hist   \* what has happened, for the properties

swapVars == <<proofs, counter, sagas, mint, net, task, hist>>

(* keep: how many of the new coins a swap keeps; token: the coins a send   *)
(* hands out or a swap makes for its caller; ver: the version of the saga  *)
(* row in memory; op: the operation a call is about; back: the coins a     *)
(* compensation has found to release; from: the state the caller of a swap *)
(* has left its coins in; infos: the quotes in memory, chk: the one being  *)
(* checked, held: those already reserved; row: the saga being resumed.     *)
Idle == [pc |-> "idle", ins |-> {}, outs |-> {}, range |-> {}, back |-> {}, token |-> {},
         keep |-> 0, ver |-> 0, op |-> NoOp, from |-> "Pending", infos |-> <<>>, chk |-> NoOp,
         held |-> {}, row |-> NoSaga]

Ended == {"idle", "done", "failed", "dead", "stranded"}

Live(i) == task[i].pc \notin Ended

Goto(i, pc) == task' = [task EXCEPT ![i].pc = pc]

Real(cs) == \A c \in cs \cap DOMAIN proofs : proofs[c].real

RequestOf(i) == [ins |-> task[i].ins, outs |-> task[i].outs, valid |-> Real(task[i].ins)]

NewRows(cs, state, real) == [c \in cs |-> [state |-> state, op |-> NoOp, real |-> real]]

(***************************************************************************)
(* create_swap: update_proofs_state to Reserved first, then the counter.   *)
(* Nothing asks whether the coins are still in the state the caller left   *)
(* them in, or are noted in the row of a saga; clash notes either.         *)
(***************************************************************************)
Clash(cs, state) ==
    hist' = [hist EXCEPT !.clash = \/ @
                                   \/ ~(cs \cap DOMAIN proofs \subseteq GetProofs({state}))
                                   \/ \E c \in cs \cap GetProofs({"Unspent"}) :
                                         proofs[c].op # NoOp /\ sagas[proofs[c].op] # NoSaga]

CreateSwap(i) ==
    /\ task[i].pc = "create"
    /\ proofs' = UpdateProofsState(task[i].ins, "Reserved")
    /\ Clash(task[i].ins, task[i].from)
    /\ Goto(i, "counter")
    /\ UNCHANGED <<counter, sagas, mint, net>>

(* Mutant: the secrets start one value below the counter.                  *)
TakeCounterMutant(i) ==
    /\ task[i].pc = "counter"
    /\ IncrementKeysetCounter(Cardinality(task[i].ins))
    /\ task' = [task EXCEPT ![i].pc = "range", ![i].outs = {c - 1 : c \in TakenBy(Cardinality(task[i].ins))}]
    /\ UNCHANGED <<proofs, sagas, mint, net, hist>>

TakeCounter(i) ==
    /\ task[i].pc = "counter"
    /\ IncrementKeysetCounter(Cardinality(task[i].ins))
    /\ task' = [task EXCEPT ![i].pc = "range", ![i].outs = TakenBy(Cardinality(task[i].ins))]
    /\ UNCHANGED <<proofs, sagas, mint, net, hist>>

(* increment_keyset_counter(0): the range is counted back from a counter   *)
(* that other operations may have moved in the meantime.                   *)
ReadRange(i) ==
    LET range == RangeBefore(Cardinality(task[i].outs)) IN
    /\ task[i].pc = "range"
    /\ task' = [task EXCEPT ![i].pc = IF i \in SwapIds THEN "log" ELSE "request", ![i].range = range]
    /\ hist' = [hist EXCEPT !.shifted = @ \/ range # task[i].outs]
    /\ UNCHANGED <<proofs, counter, sagas, mint, net>>

(***************************************************************************)
(* The swap saga: SwapSaga::prepare and execute.                           *)
(***************************************************************************)
SwapAddSaga(i) ==
    /\ task[i].pc = "log" /\ i \in SwapIds
    /\ AddSaga(i, [NoSaga EXCEPT !.state = "ProofsReserved", !.range = task[i].range])
    /\ Goto(i, "request")
    /\ UNCHANGED <<proofs, counter, mint, net, hist>>

(* update_saga to SwapRequested is the write-ahead record of the request;  *)
(* without the row at version 0 the request is not sent (ConcurrentUpdate).*)
RequestSwap(i) ==
    /\ task[i].pc = "request"
    /\ IF UpdateSagaOk(i, 0)
       THEN /\ UpdateSaga(i, [sagas[i] EXCEPT !.state = "SwapRequested", !.outs = task[i].outs,
                                              !.range = task[i].range])
            /\ Goto(i, "posted")
       ELSE Goto(i, "failed") /\ UNCHANGED sagas
    /\ UNCHANGED <<proofs, counter, mint, net, hist>>

MintAnswers(i) ==
    /\ task[i].pc = "posted"
    /\ MintSwaps(RequestOf(i))
    /\ Goto(i, SwapAnswer(RequestOf(i)))
    /\ UNCHANGED <<proofs, counter, sagas, net, hist>>

(* retriable_http_request: the answer is lost and the same request is sent *)
(* again.  The mint announces how long it caches a response, and the       *)
(* client retries no longer than that.                                     *)
RetryRequest(i) ==
    /\ task[i].pc \in {"signed", "refused"}
    /\ Goto(i, "posted")
    /\ UNCHANGED <<proofs, counter, sagas, mint, net, hist>>


(* An ambiguous failure: the caller gives up and nothing is compensated.   *)
(* A request that has not been answered may be lost or still arrive.       *)
GiveUp(i) ==
    /\ task[i].pc \in {"posted", "signed", "refused"}
    /\ Goto(i, "failed")
    /\ net' \in {net} \cup (IF task[i].pc = "posted" THEN {net \cup {RequestOf(i)}} ELSE {})
    /\ UNCHANGED <<proofs, counter, sagas, mint, hist>>

(* construct_proofs pairs the signatures with the secrets of the request.  *)
(* What the caller asked for is Reserved, the rest is Unspent.             *)
SwapStore(i) ==
    LET kept == {c \in task[i].outs : c >= Max(task[i].outs) - task[i].keep + 1} IN
    /\ task[i].pc = "signed" /\ i \in SwapIds
    /\ proofs' = UpdateProofs([c \in task[i].outs |->
                                   Row(IF c \in kept THEN "Unspent" ELSE "Reserved", NoOp)], {})
    /\ task' = [task EXCEPT ![i].pc = "spend", ![i].token = task[i].outs \ kept]
    /\ UNCHANGED <<counter, sagas, mint, net, hist>>

SwapSpend(i) ==
    /\ task[i].pc = "spend"
    /\ proofs' = UpdateProofsState(task[i].ins, "Spent")
    /\ Goto(i, "finish")
    /\ UNCHANGED <<counter, sagas, mint, net, hist>>

(* delete_saga, the last call of a saga that went well.                    *)
Finish(i) ==
    /\ task[i].pc = "finish"
    /\ DeleteSaga(i)
    /\ Goto(i, "done")
    /\ UNCHANGED <<proofs, counter, mint, net, hist>>

(* RevertProofReservation: the inputs that are Reserved or Pending are     *)
(* read, then set to Unspent, then the saga is deleted.                    *)
RevertRead(i) ==
    /\ task[i].pc = "refused" /\ i \in SwapIds
    /\ task' = [task EXCEPT ![i].pc = "revert",
                            ![i].back = task[i].ins \cap GetProofs({"Reserved", "Pending"})]
    /\ UNCHANGED <<proofs, counter, sagas, mint, net, hist>>

Revert(i) ==
    /\ task[i].pc = "revert"
    /\ proofs' = UpdateProofsState(task[i].back, "Unspent")
    /\ Goto(i, "drop")
    /\ UNCHANGED <<counter, sagas, mint, net, hist>>

(* delete_saga, the last call of a compensation.                           *)
Drop(i) ==
    /\ task[i].pc = "drop"
    /\ DeleteSaga(i)
    /\ Goto(i, "failed")
    /\ UNCHANGED <<proofs, counter, mint, net, hist>>

(***************************************************************************)
(* The receive saga: ReceiveSaga::execute.                                 *)
(***************************************************************************)
StartReceive(o) ==
    /\ o \in Receives /\ task[o].pc = "idle"
    /\ proofs' = UpdateProofs([c \in Token(o) |-> Row("Pending", o)], {})
    /\ task' = [task EXCEPT ![o].pc = "logpending", ![o].ins = Token(o)]
    /\ UNCHANGED <<counter, sagas, mint, net, hist>>

ReceiveAddSaga(o) ==
    /\ task[o].pc = "logpending"
    /\ AddSaga(o, [NoSaga EXCEPT !.state = "ProofsPending"])
    /\ Goto(o, "create")
    /\ UNCHANGED <<proofs, counter, mint, net, hist>>

(* The counter is advanced once more, by the number of new coins.          *)
ReceiveCounter(o) ==
    /\ task[o].pc = "signed" /\ o \in Receives
    /\ IncrementKeysetCounter(Cardinality(task[o].outs))
    /\ Goto(o, "store")
    /\ UNCHANGED <<proofs, sagas, mint, net, hist>>

ReceiveStore(o) ==
    /\ task[o].pc = "store"
    /\ proofs' = UpdateProofs(NewRows(task[o].outs, "Unspent", TRUE), task[o].ins)
    /\ Goto(o, "finish")
    /\ UNCHANGED <<counter, sagas, mint, net, hist>>

(* RemovePendingProofs, the compensation of a definitive refusal.          *)
ReceiveRemove(o) ==
    /\ task[o].pc = "refused" /\ o \in Receives
    /\ proofs' = UpdateProofs(<<>>, task[o].ins)
    /\ Goto(o, "drop")
    /\ UNCHANGED <<counter, sagas, mint, net, hist>>

(***************************************************************************)
(* Wallet::swap as a call.                                                 *)
(***************************************************************************)
Ending(t) == task[SwapOf(t)].pc

(* Wallet::swap as a call: the task waits while the swap saga runs.        *)
CallSwap(t, ins, keep, from) ==
    task' = [task EXCEPT ![t].pc = "swapping",
                         ![SwapOf(t)] = [Idle EXCEPT !.pc = "create", !.ins = ins,
                                                     !.keep = keep, !.from = from]]

StartSwap(t) ==
    /\ t \in Swaps /\ task[t].pc = "idle"
    /\ \E ins \in SUBSET GetProofs({"Unspent"}) :
          /\ ins # {}
          /\ CallSwap(t, ins, Cardinality(ins), "Unspent")
    /\ UNCHANGED <<proofs, counter, sagas, mint, net, hist>>

EndSwap(t) ==
    /\ t \in Swaps /\ task[t].pc = "swapping" /\ Ending(t) \in Ended
    /\ Goto(t, Ending(t))
    /\ UNCHANGED <<proofs, counter, sagas, mint, net, hist>>

SwapNext(i) ==
    \/ StartSwap(i) \/ EndSwap(i)
    \/ CreateSwap(i) \/ TakeCounter(i) \/ ReadRange(i)
    \/ SwapAddSaga(i) \/ RequestSwap(i)
    \/ MintAnswers(i) \/ RetryRequest(i) \/ GiveUp(i)
    \/ SwapStore(i) \/ SwapSpend(i) \/ Finish(i)
    \/ RevertRead(i) \/ Revert(i) \/ Drop(i)
    \/ StartReceive(i) \/ ReceiveAddSaga(i) \/ ReceiveCounter(i) \/ ReceiveStore(i)
    \/ ReceiveRemove(i)
=============================================================================
