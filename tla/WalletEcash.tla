---------------------------- MODULE WalletEcash ----------------------------
(***************************************************************************)
(* The wallet that swaps, receives and sends: the sagas of WalletSend side *)
(* by side, crashes, recover_incomplete_sagas after a restart, the loss of *)
(* the database, and restore, which rebuilds it from the seed.             *)
(***************************************************************************)
EXTENDS WalletSend

CONSTANTS
    Scenarios,   \* the sets of calls a user may make of the wallet
    MaxCrashes,  \* bound on the restarts of the wallet
    MaxLosses    \* bound on losses of the database

ASSUME WalletEcashAssumption ==
    MaxCrashes \in Nat /\ MaxLosses \in Nat /\ Scenarios \subseteq SUBSET Sagas

VARIABLES
    rec,   \* recover_incomplete_sagas: the sagas left to resume
    rst    \* restore

ecashVars == <<proofs, counter, sagas, mint, net, task, hist, rec, rst>>

RecOff == [pc |-> "off", todo |-> {}, cur |-> NoOp, ins |-> {}]

EcashInit ==
    /\ StoreInit
    /\ task = [i \in Sagas |-> Idle]
    /\ \E calls \in Scenarios :
          hist = [calls |-> calls, shifted |-> FALSE, clash |-> FALSE, handed |-> {},
                  crashes |-> 0, losses |-> 0, restored |-> FALSE]
    /\ rec = RecOff
    /\ rst = [pc |-> "off", found |-> {}, spent |-> {}, lost |-> FALSE]

(***************************************************************************)
(* A crash ends every task; a request that was on its way may arrive.      *)
(* After the restart the wallet reads the sagas there are and resumes them *)
(* one by one, while the user may already start new operations.            *)
(***************************************************************************)
AfterCrash(t) ==
    [t EXCEPT !.pc = CASE @ \in Ended -> @ [] @ = "logpending" -> "stranded" [] OTHER -> "dead"]

Crash ==
    /\ hist.crashes < MaxCrashes /\ ~rst.lost
    /\ \E i \in Sagas : Live(i) \/ sagas[i] # NoSaga
    /\ \E sent \in SUBSET {RequestOf(i) : i \in {j \in Sagas : task[j].pc = "posted"}} :
          net' = net \cup sent
    /\ task' = [i \in Sagas |-> AfterCrash(task[i])]
    /\ rec' = [RecOff EXCEPT !.pc = "run", !.todo = {i \in Sagas : sagas[i] # NoSaga}]
    /\ rst' = [rst EXCEPT !.pc = "off"]
    /\ hist' = [hist EXCEPT !.crashes = @ + 1]
    /\ UNCHANGED <<proofs, counter, sagas, mint>>

Late(r) ==
    /\ r \in net
    /\ MintSwaps(r)
    /\ net' = net \ {r}
    /\ UNCHANGED <<proofs, counter, sagas, task, hist, rec, rst>>

(***************************************************************************)
(* recover_incomplete_sagas.                                               *)
(***************************************************************************)
(* The swap and send sagas never write their id to a coin: the look-up of  *)
(* the coins of saga i finds none.  recover_outputs has nothing to restore *)
(* either (see RestoreOutputs), and every path ends in delete_saga.        *)
ResumeWithoutCoins(i) ==
    /\ rec.pc = "run" /\ i \in rec.todo
    /\ GetReservedProofs(i) = {}
    /\ DeleteSaga(i)
    /\ rec' = [rec EXCEPT !.todo = @ \ {i}]
    /\ UNCHANGED <<proofs, counter, mint, net, task, hist, rst>>

(* resume_swap_saga.                                                       *)
ResumeSwap(i) == i \in SwapIds /\ ResumeWithoutCoins(i)

(* resume_send_saga, for every state of a send.                            *)
ResumeSend(t) == t \in Sends /\ ResumeWithoutCoins(t)

(* resume_receive_saga: ProofsPending, and SwapRequested without coins,    *)
(* are compensated or cleaned up; SwapRequested with coins is replayed.    *)
ResumeReceive(o) ==
    /\ rec.pc = "run" /\ o \in rec.todo \cap Receives
    /\ rec' = [pc  |-> CASE sagas[o].state = "ProofsPending"  -> "remove"
                         [] GetReservedProofs(o) = {}         -> "delete"
                         [] OTHER                             -> "replay",
               todo |-> rec.todo \ {o}, cur |-> o, ins |-> GetReservedProofs(o)]
    /\ UNCHANGED <<proofs, counter, sagas, mint, net, task, hist, rst>>

Replay == [ins |-> rec.ins, outs |-> sagas[rec.cur].outs, valid |-> Real(rec.ins)]

(* Mutant: any answer counts as the signatures.                            *)
ReplaySwapMutant ==
    /\ rec.pc = "replay"
    /\ MintSwaps(Replay)
    /\ rec' = [rec EXCEPT !.pc = "replayed"]
    /\ UNCHANGED <<proofs, counter, sagas, net, task, hist, rst>>

(* try_replay_swap_request: whatever goes wrong (the mint's cache may have *)
(* forgotten the response), are_proofs_spent is next.                      *)
ReplaySwap ==
    /\ rec.pc = "replay"
    /\ \/ /\ MintSwaps(Replay)
          /\ \/ SwapAnswer(Replay) = "signed" /\ rec' = [rec EXCEPT !.pc = "replayed"]
             \/ rec' = [rec EXCEPT !.pc = "check"]
          /\ UNCHANGED net
       \/ /\ net' \in {net, net \cup {Replay}}
          /\ rec' = [rec EXCEPT !.pc = "check"]
          /\ UNCHANGED mint
    /\ UNCHANGED <<proofs, counter, sagas, task, hist, rst>>

(* The signatures are paired with the secrets of the stored range.         *)
StoreReplayed ==
    LET row == sagas[rec.cur] IN
    /\ rec.pc = "replayed"
    /\ proofs' = UpdateProofs(NewRows(row.range, "Unspent", row.range = row.outs), rec.ins)
    /\ rec' = [rec EXCEPT !.pc = "delete"]
    /\ UNCHANGED <<counter, sagas, mint, net, task, hist, rst>>

(* are_proofs_spent: all of them, or no answer (the saga is skipped).      *)
CheckInputs ==
    /\ rec.pc = "check"
    /\ \/ rec' = [rec EXCEPT !.pc = IF rec.ins \subseteq mint.spent THEN "restore" ELSE "remove"]
       \/ rec' = [rec EXCEPT !.pc = "run", !.cur = NoOp]
    /\ UNCHANGED <<proofs, counter, sagas, mint, net, task, hist, rst>>

(* restore_outputs: an answer without signatures removes the inputs; with  *)
(* signatures, the messages of restore_batch (amount 0) are never equal to *)
(* the ones sent, construct_proofs fails, and the saga stays, as it does   *)
(* when the mint does not answer.                                          *)
RestoreOutputs ==
    /\ rec.pc = "restore"
    /\ \/ sagas[rec.cur].outs \cap mint.signed = {} /\ rec' = [rec EXCEPT !.pc = "remove"]
       \/ rec' = [rec EXCEPT !.pc = "run", !.cur = NoOp]
    /\ UNCHANGED <<proofs, counter, sagas, mint, net, task, hist, rst>>

(* Mutant: the saga is deleted, its coins are not.                         *)
RecoverRemoveMutant ==
    /\ rec.pc = "remove"
    /\ rec' = [rec EXCEPT !.pc = "delete"]
    /\ UNCHANGED <<proofs, counter, sagas, mint, net, task, hist, rst>>

(* RemovePendingProofs, and then delete_saga.                              *)
RecoverRemove ==
    /\ rec.pc = "remove"
    /\ proofs' = UpdateProofs(<<>>, GetReservedProofs(rec.cur))
    /\ rec' = [rec EXCEPT !.pc = "delete"]
    /\ UNCHANGED <<counter, sagas, mint, net, task, hist, rst>>

RecoverDelete ==
    /\ rec.pc = "delete"
    /\ DeleteSaga(rec.cur)
    /\ rec' = [rec EXCEPT !.pc = "run", !.cur = NoOp]
    /\ UNCHANGED <<proofs, counter, mint, net, task, hist, rst>>

(***************************************************************************)
(* Wallet::restore.  The mint is asked for its signatures on the secrets   *)
(* 0, 1, ... in batches of 100 until three batches are empty (here one     *)
(* batch covers every secret), then for the states of those coins; spent   *)
(* rows are deleted, the others are upserted, and the counter is advanced  *)
(* by the highest secret found + 1.                                        *)
(***************************************************************************)
(* The database is lost, and restored before the wallet is used again.     *)
(* No request is on its way then.                                          *)
LoseDatabase ==
    /\ hist.losses < MaxLosses /\ net = {} /\ rst.pc = "off"
    /\ \A i \in Sagas : task[i].pc # "posted"
    /\ proofs' = <<>> /\ counter' = 0 /\ sagas' = [i \in Sagas |-> NoSaga]
    /\ task' = [i \in Sagas |-> [AfterCrash(task[i]) EXCEPT !.outs = @ \cap mint.signed]]
    /\ rec' = RecOff
    /\ rst' = [rst EXCEPT !.pc = "query", !.lost = TRUE]
    /\ hist' = [hist EXCEPT !.losses = @ + 1]
    /\ UNCHANGED <<mint, net>>


QueryRestore ==
    /\ rst.pc = "query"
    /\ rst' = [rst EXCEPT !.pc = "states", !.found = mint.signed]
    /\ UNCHANGED <<proofs, counter, sagas, mint, net, task, hist, rec>>

QueryStates ==
    /\ rst.pc = "states"
    /\ rst' = [rst EXCEPT !.pc = "purge", !.spent = rst.found \cap mint.spent]
    /\ UNCHANGED <<proofs, counter, sagas, mint, net, task, hist, rec>>

PurgeSpent ==
    /\ rst.pc = "purge"
    /\ proofs' = UpdateProofs(<<>>, rst.spent)
    /\ rst' = [rst EXCEPT !.pc = "put"]
    /\ UNCHANGED <<counter, sagas, mint, net, task, hist, rec>>

PutRestored ==
    /\ rst.pc = "put"
    /\ proofs' = UpdateProofs(NewRows(rst.found \ rst.spent, "Unspent", TRUE), {})
    /\ rst' = [rst EXCEPT !.pc = "bump"]
    /\ hist' = [hist EXCEPT !.restored = TRUE]
    /\ UNCHANGED <<counter, sagas, mint, net, task, rec>>

BumpCounter ==
    /\ rst.pc = "bump"
    /\ IF rst.found = {} THEN UNCHANGED counter ELSE IncrementKeysetCounter(Max(rst.found) + 1)
    /\ rst' = [rst EXCEPT !.pc = "off", !.lost = FALSE]
    /\ UNCHANGED <<proofs, sagas, mint, net, task, hist, rec>>

UserNext == \E i \in hist.calls \cup SwapIds : (SwapNext(i) \/ SendNext(i)) /\ UNCHANGED <<rec, rst>>

RecoveryNext ==
    \/ \E i \in Sagas : ResumeSwap(i) \/ ResumeSend(i) \/ ResumeReceive(i)
    \/ ReplaySwap \/ StoreReplayed \/ CheckInputs \/ RestoreOutputs \/ RecoverRemove
    \/ RecoverDelete

RestoreNext ==
    \/ LoseDatabase \/ QueryRestore \/ QueryStates \/ PurgeSpent \/ PutRestored \/ BumpCounter

EcashNext ==
    \/ ~rst.lost /\ UserNext
    \/ ~rst.lost /\ RecoveryNext
    \/ RestoreNext
    \/ Crash
    \/ \E c \in Coins : Claim(c) /\ UNCHANGED <<rec, rst>>
    \/ \E r \in net : Late(r)

EcashSpec == EcashInit /\ [][EcashNext]_ecashVars

(***************************************************************************)
(* Properties.                                                             *)
(***************************************************************************)
(* A secret is derived by one operation only: the outputs of two           *)
(* operations are disjoint, and none is a coin the wallet started with.    *)
(* This is increment_keyset_counter in create_swap, across crashes, and    *)
(* restore's counter after the loss of the database.                       *)
SecretsUsedOnce ==
    /\ \A i, j \in Sagas : i # j => task[i].outs \cap task[j].outs = {}
    /\ \A i \in Sagas : task[i].outs \cap (0 .. InitialCoins - 1) = {}


(* A coin that carries the id of an operation is a coin of a receive,      *)
(* which is why resume_swap_saga and resume_send_saga find none.  It       *)
(* belongs to a saga that recovery will find, or to a call in progress;    *)
(* the one exception is a crash between the two first writes of            *)
(* ReceiveSaga::execute.                                                   *)
PendingHasOwner ==
    /\ StoreTypeOK
    /\ \A c \in DOMAIN proofs : proofs[c].op # NoOp =>
          LET o == proofs[c].op
          IN  o \in Receives /\ (sagas[o] # NoSaga \/ Live(o) \/ task[o].pc = "stranded")

(* The calls that have locked send saga t in RollingBack and have not      *)
(* released it.                                                            *)
Revoking(t) == {h \in Callers : task[h].op = t /\ task[h].pc \in {"swapping", "unlock"}}

(* Two calls of revoke_send never swap the coins of one token at once: the *)
(* version that update_saga compares lets one of them lock the saga.       *)
RevokeOnce == \A t \in Sends : Cardinality(Revoking(t)) <= 1



(* The coins in the database are coins of the mint, unless another         *)
(* operation moved the counter between the two reads that an operation     *)
(* makes of it.                                                            *)
CoinsAreReal ==
    ~hist.shifted => \A c \in DOMAIN proofs : proofs[c].real /\ c \in mint.signed \cup Foreign
=============================================================================
