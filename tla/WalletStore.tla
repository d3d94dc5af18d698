---------------------------- MODULE WalletStore ----------------------------
(***************************************************************************)
(* The tables of the wallet's SQL database that its sagas share, what one  *)
(* call of the WalletDatabase trait does to them, and the mint as the      *)
(* wallet sees it: a ledger that executes a request in one step (the       *)
(* sagas of the mint itself are modelled in MintSwap, MintMelt and         *)
(* MintIssue) and that may answer late, or not at all.                     *)
(*                                                                         *)
(* Every coin is worth 1 and fees are 0.  A coin of the wallet's own is    *)
(* the value of the keyset counter that its secret is derived from         *)
(* (NUT-13); a blinded message is named by the coin it becomes.            *)
(***************************************************************************)
EXTENDS FiniteSetsExt

CONSTANTS
    Foreign,       \* coins of tokens from other wallets
    Sagas,         \* the ids of sagas and of the tasks that run them
    NoOp,          \* a used_by_operation column that is NULL
    InitialCoins,  \* the number of coins the wallet starts with
    MaxCounter     \* bound on the keyset counter

ASSUME WalletStoreAssumption ==
    /\ IsFiniteSet(Foreign) /\ NoOp \notin Sagas
    /\ InitialCoins \in Nat /\ MaxCounter \in Nat /\ InitialCoins <= MaxCounter

VARIABLES
    proofs,   \* table proof: a row for every coin in its domain
    counter,  \* table keyset_counter, for the active keyset
    sagas,    \* table wallet_sagas
    mint,     \* the ledger of the mint
    net       \* swap requests on their way that nobody waits for any more

walletStoreVars == <<proofs, counter, sagas, mint, net>>

Own == 0 .. MaxCounter - 1

Coins == Own \cup Foreign

CoinState == {"Unspent", "Reserved", "Pending", "PendingSpent", "Spent"}

(* real: the signature in column c is the one on this secret.              *)
CoinRow == [state : CoinState, op : Sagas \cup {NoOp}, real : BOOLEAN]

NoSaga == [state |-> "None", version |-> 0, coins |-> {}, outs |-> {}, range |-> {}]

SagaState == {"None", "ProofsReserved", "ProofsPending", "SwapRequested", "TokenCreated", "RollingBack",
              "SecretsPrepared", "MintRequested", "MeltRequested"}

(* valid: every input carries the mint's signature on its secret.          *)
Request == [ins : SUBSET Coins, outs : SUBSET Own, valid : BOOLEAN]

StoreTypeOK ==
    /\ DOMAIN proofs \subseteq Coins
    /\ \A c \in DOMAIN proofs : proofs[c] \in CoinRow
    /\ counter \in 0 .. MaxCounter
    /\ sagas \in [Sagas -> [state : SagaState, version : Nat, coins : SUBSET Coins,
                            outs : SUBSET Own, range : SUBSET Own]]
    /\ mint.spent \subseteq Coins /\ mint.held \subseteq Coins /\ mint.signed \subseteq Own
    /\ mint.cache \subseteq Request /\ net \subseteq Request

StoreInit ==
    /\ proofs = [c \in 0 .. InitialCoins - 1 |-> [state |-> "Unspent", op |-> NoOp, real |-> TRUE]]
    /\ counter = InitialCoins
    /\ sagas = [i \in Sagas |-> NoSaga]
    /\ mint = [spent |-> {}, held |-> {}, signed |-> 0 .. InitialCoins - 1, cache |-> {}]
    /\ net = {}

(***************************************************************************)
(* Table proof.                                                            *)
(***************************************************************************)
Row(state, op) == [state |-> state, op |-> op, real |-> TRUE]

(* get_proofs with a state filter.                                         *)
GetProofs(states) == {c \in DOMAIN proofs : proofs[c].state \in states}

(* get_reserved_proofs: the rows an operation is noted in, in any state.   *)
GetReservedProofs(i) == {c \in DOMAIN proofs : proofs[c].op = i}

(* update_proofs: an upsert of the added rows, every column included, and  *)
(* a DELETE, in one transaction.                                           *)
UpdateProofs(added, removed) ==
    [c \in (DOMAIN proofs \cup DOMAIN added) \ removed |->
        IF c \in DOMAIN added THEN added[c] ELSE proofs[c]]

(* update_proofs_state: the state column of the rows that exist, whatever  *)
(* it was; used_by_operation keeps its value.                              *)
UpdateProofsState(ys, state) ==
    [c \in DOMAIN proofs |-> IF c \in ys THEN [proofs[c] EXCEPT !.state = state] ELSE proofs[c]]

(***************************************************************************)
(* Table keyset_counter.                                                   *)
(***************************************************************************)
IncrementKeysetCounter(n) == counter + n <= MaxCounter /\ counter' = counter + n

(* The secrets a caller derives from the new value of the counter.         *)
TakenBy(n) == counter .. counter + n - 1

(* The range a later read of the counter (an increment by 0) stands for.   *)
RangeBefore(n) == (IF n > counter THEN 0 ELSE counter - n) .. counter - 1

(***************************************************************************)
(* Table wallet_sagas.                                                     *)
(***************************************************************************)
AddSaga(i, row) == sagas' = [sagas EXCEPT ![i] = row]

(* Mutant: the version is not compared.                                    *)
UpdateSagaMutant(i, version) == sagas[i] # NoSaga

(* UPDATE ... WHERE id = :id AND version = :expected_version affects a     *)
(* row: there is one, at the version the caller has read.                  *)
UpdateSagaOk(i, version) == sagas[i] # NoSaga /\ sagas[i].version = version

UpdateSaga(i, row) == sagas' = [sagas EXCEPT ![i] = [row EXCEPT !.version = @ + 1]]

DeleteSaga(i) == sagas' = [sagas EXCEPT ![i] = NoSaga]


SwapRepeats(r) == r \in mint.cache

SwapAllowed(r) ==
    /\ r.ins \cap (mint.spent \cup mint.held) = {} /\ r.outs \cap mint.signed = {}
    /\ r.valid /\ r.ins \cap Own \subseteq mint.signed

SwapAnswer(r) == IF SwapRepeats(r) \/ SwapAllowed(r) THEN "signed" ELSE "refused"

MintSwaps(r) ==
    mint' = IF ~SwapRepeats(r) /\ SwapAllowed(r)
            THEN [mint EXCEPT !.spent = @ \cup r.ins, !.signed = @ \cup r.outs, !.cache = @ \cup {r}]
            ELSE mint
=============================================================================
