----------------------------- MODULE WalletSend -----------------------------
(***************************************************************************)
(* The send saga of the wallet, and the calls about a token that is out:   *)
(* revoke_send and check_send_status.                                      *)
(*                                                                         *)
(* prepare_send selects coins from a list it has read and reserves them in *)
(* a later call; confirm swaps them if need be (a swap saga of its own),   *)
(* marks the coins of the token PendingSpent and writes TokenCreated, and  *)
(* the token is out: its recipient may claim it at any time.  revoke_send  *)
(* locks the saga in RollingBack and swaps the coins back.                 *)
(***************************************************************************)
EXTENDS WalletSwap

CONSTANTS
    Sends,   \* send operations
    Callers  \* calls of revoke_send and check_send_status

ASSUME WalletSendAssumption ==
    /\ Sends \cup Callers \subseteq Sagas
    /\ \A t \in Sends \cup Callers : SwapOf(t) \in SwapIds

(***************************************************************************)
(* SendSaga::prepare: one coin that is sent as it is, or two that are      *)
(* swapped for the token and a coin to keep.                               *)
(***************************************************************************)
SelectProofs(t) ==
    /\ t \in Sends /\ task[t].pc = "idle"
    /\ \E ins \in SUBSET GetProofs({"Unspent"}) :
          /\ Cardinality(ins) \in {1, 2}
          /\ task' = [task EXCEPT ![t].pc = "selected", ![t].ins = ins]
    /\ UNCHANGED <<proofs, counter, sagas, mint, net, hist>>

(* update_proofs_state, not reserve_proofs: nothing asks whether the coins *)
(* are still Unspent.                                                      *)
ReserveProofs(t) ==
    /\ task[t].pc = "selected"
    /\ proofs' = UpdateProofsState(task[t].ins, "Reserved")
    /\ Clash(task[t].ins, "Unspent")
    /\ Goto(t, "logsend")
    /\ UNCHANGED <<counter, sagas, mint, net>>

SendAddSaga(t) ==
    /\ task[t].pc = "logsend"
    /\ AddSaga(t, [NoSaga EXCEPT !.state = "ProofsReserved"])
    /\ Goto(t, "prepared")
    /\ UNCHANGED <<proofs, counter, mint, net, hist>>

(* confirm_send and cancel_send read the saga.                             *)
Confirm(t) ==
    /\ task[t].pc = "prepared"
    /\ IF sagas[t] = NoSaga
       THEN Goto(t, "failed")
       ELSE IF Cardinality(task[t].ins) = 2
            THEN CallSwap(t, task[t].ins, 1, "Reserved")
            ELSE task' = [task EXCEPT ![t].pc = "mark", ![t].token = task[t].ins]
    /\ UNCHANGED <<proofs, counter, sagas, mint, net, hist>>

(* A swap that fails ends the confirm; its compensations are empty.        *)
ConfirmSwapped(t) ==
    /\ t \in Sends /\ task[t].pc = "swapping" /\ Ending(t) \in Ended
    /\ task' = IF Ending(t) = "done"
               THEN [task EXCEPT ![t].pc = "mark", ![t].token = task[SwapOf(t)].token]
               ELSE [task EXCEPT ![t].pc = "failed"]
    /\ UNCHANGED <<proofs, counter, sagas, mint, net, hist>>

MarkPendingSpent(t) ==
    /\ task[t].pc = "mark"
    /\ proofs' = UpdateProofsState(task[t].token, "PendingSpent")
    /\ Goto(t, "publish")
    /\ UNCHANGED <<counter, sagas, mint, net, hist>>

(* update_saga to TokenCreated; on ConcurrentUpdate there is no token.     *)
CreateToken(t) ==
    /\ task[t].pc = "publish"
    /\ IF UpdateSagaOk(t, 0)
       THEN /\ UpdateSaga(t, [sagas[t] EXCEPT !.state = "TokenCreated", !.coins = task[t].token])
            /\ Goto(t, "done")
            /\ hist' = [hist EXCEPT !.handed = @ \cup task[t].token]
       ELSE Goto(t, "failed") /\ UNCHANGED <<sagas, hist>>
    /\ UNCHANGED <<proofs, counter, mint, net>>

CancelSend(t) ==
    /\ task[t].pc = "prepared"
    /\ IF sagas[t] = NoSaga
       THEN Goto(t, "failed") /\ UNCHANGED proofs
       ELSE /\ proofs' = UpdateProofsState(task[t].ins, "Unspent")
            /\ Goto(t, "drop")
    /\ UNCHANGED <<counter, sagas, mint, net, hist>>

(* The recipient of a token swaps its coins at the mint, or the sender of  *)
(* a token to this wallet does.                                            *)
Claim(c) ==
    /\ c \in (hist.handed \cup UNION {Token(o) : o \in Receives \cap hist.calls}) \ mint.spent
    /\ mint' = [mint EXCEPT !.spent = @ \cup {c}]
    /\ UNCHANGED <<proofs, counter, sagas, net, task, hist>>

(***************************************************************************)
(* revoke_send and check_send_status, run by a caller h about a send t.    *)
(***************************************************************************)
(* Both read the saga.  A saga that is RollingBack has the status pending. *)
ReadSend(h, t) ==
    /\ h \in Callers /\ task[h].pc = "idle"
    /\ sagas[t].state \in {"TokenCreated", "RollingBack"}
    /\ task' = [task EXCEPT ![h].op = t, ![h].ver = sagas[t].version, ![h].token = sagas[t].coins,
                            ![h].pc = IF sagas[t].state = "TokenCreated" THEN "seen" ELSE "failed"]
    /\ UNCHANGED <<proofs, counter, sagas, mint, net, hist>>

(* check_proofs_spent asks the mint (or fails) and then deletes the coins  *)
(* that are spent.                                                         *)
CheckProofsSpent(h) ==
    /\ task[h].pc = "seen"
    /\ \/ task' = [task EXCEPT ![h].pc = "answered", ![h].back = task[h].token \cap mint.spent]
       \/ Goto(h, "failed")
    /\ UNCHANGED <<proofs, counter, sagas, mint, net, hist>>

DeleteSpent(h) ==
    /\ task[h].pc = "answered"
    /\ proofs' = UpdateProofs(<<>>, task[h].back)
    /\ Goto(h, "settle")
    /\ UNCHANGED <<counter, sagas, mint, net, hist>>

(* check_status: all spent is an answer that the token has been claimed.   *)
AnswerStatus(h) ==
    /\ task[h].pc = "settle"
    /\ IF task[h].back = task[h].token THEN DeleteSaga(task[h].op) ELSE UNCHANGED sagas
    /\ Goto(h, "done")
    /\ UNCHANGED <<proofs, counter, mint, net, hist>>

(* revoke: a token that is spent in part or in full has been claimed;      *)
(* otherwise the saga is locked with update_saga to RollingBack, at the    *)
(* version read before.                                                    *)
LockRevoke(h) ==
    LET t == task[h].op IN
    /\ task[h].pc = "settle"
    /\ CASE task[h].back # {} -> DeleteSaga(t) /\ Goto(h, "failed")
         [] task[h].back = {} /\ UpdateSagaOk(t, task[h].ver) ->
                /\ UpdateSaga(t, [sagas[t] EXCEPT !.state = "RollingBack", !.version = task[h].ver])
                /\ CallSwap(h, task[h].token, Cardinality(task[h].token), "PendingSpent")
         [] OTHER -> Goto(h, "failed") /\ UNCHANGED sagas
    /\ UNCHANGED <<proofs, counter, mint, net, hist>>

(* The swap is over: finalize deletes the saga; after a failure the saga   *)
(* is read again, goes back to TokenCreated, and the coins to PendingSpent.*)
EndRevoke(h) ==
    LET t == task[h].op IN
    /\ h \in Callers /\ task[h].pc = "swapping" /\ Ending(h) \in Ended
    /\ CASE Ending(h) = "done" -> DeleteSaga(t) /\ Goto(h, "done")
         [] Ending(h) # "done" /\ sagas[t] = NoSaga -> Goto(h, "failed") /\ UNCHANGED sagas
         [] OTHER -> /\ task' = [task EXCEPT ![h].pc = "unlock", ![h].ver = sagas[t].version]
                     /\ UNCHANGED sagas
    /\ UNCHANGED <<proofs, counter, mint, net, hist>>

UnlockRevoke(h) ==
    LET t == task[h].op IN
    /\ task[h].pc = "unlock"
    /\ IF UpdateSagaOk(t, task[h].ver)
       THEN UpdateSaga(t, [sagas[t] EXCEPT !.state = "TokenCreated"])
       ELSE UNCHANGED sagas
    /\ Goto(h, "remark")
    /\ UNCHANGED <<proofs, counter, mint, net, hist>>

RemarkToken(h) ==
    /\ task[h].pc = "remark"
    /\ proofs' = UpdateProofsState(task[h].token, "PendingSpent")
    /\ Goto(h, "failed")
    /\ UNCHANGED <<counter, sagas, mint, net, hist>>

SendNext(t) ==
    \/ SelectProofs(t) \/ ReserveProofs(t) \/ SendAddSaga(t)
    \/ Confirm(t) \/ ConfirmSwapped(t) \/ MarkPendingSpent(t) \/ CreateToken(t) \/ CancelSend(t)
    \/ \E o \in Sends : ReadSend(t, o)
    \/ CheckProofsSpent(t) \/ DeleteSpent(t) \/ AnswerStatus(t)
    \/ LockRevoke(t) \/ EndRevoke(t) \/ UnlockRevoke(t) \/ RemarkToken(t)
=============================================================================
